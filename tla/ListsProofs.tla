---------------------------- MODULE ListsProofs ----------------------------
(***************************************************************************)
(* The sequence that Without builds, sequences without repetitions, the    *)
(* greatest and the least of a set.                                        *)
(*                                                                         *)
(* Without is a recursive function, which the prover knows as the CHOOSE   *)
(* of any function that meets its defining equation: that there is one is  *)
(* KeptExists.  Induction is by the least counterexample (LeastNumber).    *)
(***************************************************************************)
EXTENDS Lists, SequencesExt, SequenceTheorems, FiniteSetTheorems, WellFoundedInduction, TLAPS

Less == {pair \in Nat \X Nat : pair[1] < pair[2]}

\* A set of natural numbers that is not empty has a least element.
LEMMA LeastNumber ==
  ASSUME NEW S, S \subseteq Nat, S # {}
  PROVE  \E m \in S : \A n \in S : m <= n
<1>1. IsWellFoundedOn(Less, Nat)
  BY NatLessThanWellFounded DEF OpToRel, Less
<1>2. \E m \in S : \A n \in S : ~ (<<n, m>> \in Less)
  BY <1>1, WFMin
<1>3. \A n, m \in Nat : ~ (<<n, m>> \in Less) => m <= n
  BY DEF Less
<1>4. \A n \in S : n \in Nat
  OBVIOUS
<1> QED
  BY <1>2, <1>3, <1>4

\* The greatest and the least of some indices.
LEMMA MaxOf ==
  ASSUME NEW L \in Nat, NEW S, S \subseteq 1 .. L, S # {}
  PROVE  Max(S) \in S /\ \A y \in S : y <= Max(S)
<1> DEFINE T == {L - y : y \in S}
<1>0. \A y \in S : y \in Nat /\ y <= L
  OBVIOUS
<1>1. T \subseteq Nat /\ T # {}
  <2>1. \A y \in S : L - y \in Nat
    BY <1>0
  <2>2. PICK y \in S : TRUE
    OBVIOUS
  <2>3. L - y \in T
    BY <2>2
  <2> QED
    BY <2>1, <2>3
<1>2. PICK m \in T : \A n \in T : m <= n
  BY <1>1, LeastNumber
<1>3. PICK x \in S : m = L - x
  BY <1>2
<1>4. \A y \in S : x >= y
  <2> SUFFICES ASSUME NEW y \in S PROVE x >= y
    OBVIOUS
  <2>1. L - x <= L - y
    BY <1>2, <1>3
  <2> QED
    BY <1>0, <2>1
<1>5. \E z \in S : \A y \in S : z >= y
  BY <1>4
<1> DEFINE M == CHOOSE z \in S : \A y \in S : z >= y
<1>6. M \in S /\ \A y \in S : M >= y
  BY <1>5
<1>7. Max(S) = M
  BY DEF Max
<1> HIDE DEF M
<1> QED
  BY <1>6, <1>7

LEMMA MinOf ==
  ASSUME NEW S, S \subseteq Nat, S # {}
  PROVE  Min(S) \in S /\ \A y \in S : Min(S) <= y
<1>1. \E z \in S : \A y \in S : z <= y
  BY LeastNumber
<1> DEFINE M == CHOOSE z \in S : \A y \in S : z <= y
<1>2. M \in S /\ \A y \in S : M <= y
  BY <1>1
<1>3. Min(S) = M
  BY DEF Min
<1> HIDE DEF M
<1> QED
  BY <1>2, <1>3

\* The defining equation of kept, up to n.
KeptBy(g, s, S, n) ==
  g = [i \in 0 .. n |->
         IF i = 0 THEN <<>>
         ELSE IF s[i] \in S THEN g[i - 1] ELSE Append(g[i - 1], s[i])]

LEMMA KeptExists ==
  ASSUME NEW s, NEW S, NEW len \in Nat
  PROVE  \E g : KeptBy(g, s, S, len)
<1> DEFINE Bad == {n \in Nat : ~ \E g : KeptBy(g, s, S, n)}
<1> SUFFICES ASSUME Bad # {} PROVE FALSE
  OBVIOUS
<1>1. PICK n \in Bad : \A k \in Bad : n <= k
  BY LeastNumber
<1>2. n \in Nat /\ ~ \E g : KeptBy(g, s, S, n)
  OBVIOUS
<1>3. n # 0
  <2>1. KeptBy([i \in 0 .. 0 |-> <<>>], s, S, 0)
    BY DEF KeptBy
  <2> QED
    BY <1>2, <2>1
<1>4. n - 1 \in Nat /\ n - 1 \notin Bad
  BY <1>1, <1>2, <1>3
<1>5. PICK g : KeptBy(g, s, S, n - 1)
  BY <1>4
<1> DEFINE next == IF s[n] \in S THEN g[n - 1] ELSE Append(g[n - 1], s[n])
           more == [i \in 0 .. n |-> IF i = n THEN next ELSE g[i]]
<1>6. KeptBy(more, s, S, n)
  <2>1. \A i \in 0 .. n - 1 : more[i] = g[i]
    BY <1>2
  <2>2. \A i \in 0 .. n - 1 :
          g[i] = IF i = 0 THEN <<>>
                 ELSE IF s[i] \in S THEN g[i - 1] ELSE Append(g[i - 1], s[i])
    BY <1>5 DEF KeptBy
  <2> HIDE DEF next
  <2>3. \A i \in 0 .. n :
          more[i] = IF i = 0 THEN <<>>
                    ELSE IF s[i] \in S THEN more[i - 1] ELSE Append(more[i - 1], s[i])
    <3> SUFFICES ASSUME NEW i \in 0 .. n
                 PROVE  more[i] = IF i = 0 THEN <<>>
                                  ELSE IF s[i] \in S THEN more[i - 1]
                                       ELSE Append(more[i - 1], s[i])
      OBVIOUS
    <3>1. CASE i = n
      <4>1. more[i] = next /\ more[n - 1] = g[n - 1] /\ i # 0
        BY <1>2, <1>3, <2>1, <3>1
      <4> QED
        BY <3>1, <4>1 DEF next
    <3>2. CASE i # n
      <4>1. i \in 0 .. n - 1 /\ more[i] = g[i] /\ (i # 0 => more[i - 1] = g[i - 1])
        BY <1>2, <2>1, <3>2
      <4> HIDE DEF more
      <4> QED
        BY <2>2, <4>1
    <3> QED
      BY <3>1, <3>2
  <2>4. more = [i \in 0 .. n |-> more[i]]
    OBVIOUS
  <2> HIDE DEF more
  <2> QED
    BY <2>3, <2>4 DEF KeptBy
<1> QED
  BY <1>2, <1>6

\* A node at the end of the list.
LEMMA AppendOnce ==
  ASSUME NEW U, NEW s \in Seq(U), NEW x \in U
  PROVE  /\ Append(s, x) \in Seq(U)
         /\ ToSet(Append(s, x)) = ToSet(s) \cup {x}
         /\ IsInjective(s) /\ x \notin ToSet(s) => IsInjective(Append(s, x))
<1> DEFINE len == Len(s)
           t == Append(s, x)
<1>1. len \in Nat /\ Len(t) = len + 1 /\ t \in Seq(U)
  OBVIOUS
<1>2. t[len + 1] = x /\ \A i \in 1 .. len : t[i] = s[i]
  OBVIOUS
<1>3. ToSet(s) = {s[i] : i \in 1 .. len} /\ ToSet(t) = {t[i] : i \in 1 .. len + 1}
  BY <1>1 DEF ToSet
<1> HIDE DEF t, len
<1>4. ToSet(t) = ToSet(s) \cup {x}
  <2>1. \A y \in ToSet(t) : y \in ToSet(s) \cup {x}
    BY <1>1, <1>2, <1>3
  <2>2. \A y \in ToSet(s) \cup {x} : y \in ToSet(t)
    BY <1>1, <1>2, <1>3
  <2> QED
    BY <2>1, <2>2
<1>5. ASSUME IsInjective(s), x \notin ToSet(s) PROVE IsInjective(t)
  <2>1. \A i, j \in 1 .. len : s[i] = s[j] => i = j
    BY <1>5 DEF IsInjective, len
  <2>2. \A i \in 1 .. len : s[i] # x
    BY <1>3, <1>5
  <2>3. \A i, j \in 1 .. len + 1 : t[i] = t[j] => i = j
    BY <1>1, <1>2, <2>1, <2>2
  <2> QED
    BY <1>1, <2>3 DEF IsInjective
<1> QED
  BY <1>1, <1>4, <1>5 DEF t

\* Unlinking the nodes of S leaves the others, each as often as before.
LEMMA WithoutElements ==
  ASSUME NEW U, NEW s \in Seq(U), NEW S, IsInjective(s)
  PROVE  /\ Without(s, S) \in Seq(U)
         /\ IsInjective(Without(s, S))
         /\ ToSet(Without(s, S)) = ToSet(s) \ S
<1>0. Len(s) \in Nat
  OBVIOUS
<1>1. PICK g : KeptBy(g, s, S, Len(s))
  BY <1>0, KeptExists
<1> DEFINE kept == CHOOSE f : KeptBy(f, s, S, Len(s))
<1>2. KeptBy(kept, s, S, Len(s)) /\ Without(s, S) = kept[Len(s)]
  BY <1>1 DEF Without, KeptBy
<1> HIDE DEF kept
<1> DEFINE Right(n) == /\ kept[n] \in Seq(U)
                       /\ IsInjective(kept[n])
                       /\ ToSet(kept[n]) = {s[i] : i \in 1 .. n} \ S
           Bad == {n \in 0 .. Len(s) : ~Right(n)}
<1>3. Bad = {}
  <2> SUFFICES ASSUME Bad # {} PROVE FALSE
    OBVIOUS
  <2>0. Bad \subseteq Nat
    BY <1>0
  <2>1. PICK n \in Bad : \A k \in Bad : n <= k
    <3> HIDE DEF Bad
    <3> QED
      BY <2>0, LeastNumber
  <2>2. n \in 0 .. Len(s) /\ ~Right(n)
    OBVIOUS
  <2>3. n # 0
    <3>1. kept[0] = <<>>
      BY <1>2 DEF KeptBy
    <3>2. Right(0)
      BY <3>1 DEF IsInjective, ToSet
    <3> QED
      BY <2>2, <3>2
  <2>4. Right(n - 1)
    <3>1. n - 1 \in 0 .. Len(s) /\ ~ (n <= n - 1)
      BY <1>0, <2>2, <2>3
    <3>2. n - 1 \notin Bad
      <4> HIDE DEF Bad
      <4> QED
        BY <2>1, <3>1
    <3> QED
      BY <3>1, <3>2
  <2>5. kept[n] = IF s[n] \in S THEN kept[n - 1] ELSE Append(kept[n - 1], s[n])
    BY <1>2, <2>2, <2>3 DEF KeptBy
  <2>6. {s[i] : i \in 1 .. n} = {s[i] : i \in 1 .. n - 1} \cup {s[n]}
    <3>1. 1 .. n = (1 .. n - 1) \cup {n}
      BY <2>2, <2>3
    <3> QED
      BY <3>1
  <2>7. CASE s[n] \in S
    BY <2>2, <2>4, <2>5, <2>6, <2>7
  <2>8. CASE s[n] \notin S
    <3> DEFINE t == kept[n - 1]
    <3>1. t \in Seq(U) /\ IsInjective(t) /\ s[n] \in U /\ kept[n] = Append(t, s[n])
      BY <2>2, <2>3, <2>4, <2>5, <2>8
    <3>2. s[n] \notin {s[i] : i \in 1 .. n - 1}
      BY <2>2, <2>3 DEF IsInjective
    <3>3. s[n] \notin ToSet(t)
      BY <2>4, <3>2
    <3> HIDE DEF t
    <3>4. Append(t, s[n]) \in Seq(U) /\ IsInjective(Append(t, s[n]))
            /\ ToSet(Append(t, s[n])) = ToSet(t) \cup {s[n]}
      BY <3>1, <3>3, AppendOnce
    <3> QED
      BY <2>2, <2>4, <2>6, <2>8, <3>1, <3>4 DEF t
  <2> QED
    BY <2>7, <2>8
<1>4. Right(Len(s))
  <2>1. Len(s) \in 0 .. Len(s) /\ Len(s) \notin Bad
    <3> HIDE DEF Bad
    <3> QED
      BY <1>0, <1>3
  <2> QED
    BY <2>1
<1>5. ToSet(s) = {s[i] : i \in 1 .. Len(s)}
  BY DEF ToSet
<1> QED
  BY <1>2, <1>4, <1>5


\* A list without repetitions is as long as the set of its elements.
LEMMA OnceLength ==
  ASSUME NEW U, NEW s \in Seq(U), IsInjective(s)
  PROVE  IsFiniteSet(ToSet(s)) /\ Cardinality(ToSet(s)) = Len(s)
<1>1. Len(s) \in Nat /\ s \in [1 .. Len(s) -> ToSet(s)]
  BY DEF ToSet
<1>2. IsFiniteSet(1 .. Len(s)) /\ Cardinality(1 .. Len(s)) = Len(s)
  BY <1>1, FS_Interval
<1>3. ExistsBijection(1 .. Len(s), ToSet(s))
  <2>1. \A i, j \in 1 .. Len(s) : s[i] = s[j] => i = j
    BY DEF IsInjective
  <2>2. \A x \in ToSet(s) : \E i \in 1 .. Len(s) : s[i] = x
    BY DEF ToSet
  <2>3. s \in Bijection(1 .. Len(s), ToSet(s))
    BY <1>1, <2>1, <2>2 DEF Bijection, Injection, Surjection, IsInjective
  <2> QED
    BY <2>3 DEF ExistsBijection
<1> QED
  BY <1>1, <1>2, <1>3, FS_Bijection, FS_CountingElements

\* The elements of S in some order, behind a list that has none of them.
LEMMA AppendedElements ==
  ASSUME NEW U, NEW s \in Seq(U), IsInjective(s), NEW S \in SUBSET U, IsFiniteSet(S),
         S \cap ToSet(s) = {}, NEW order \in SetToSeqs(S)
  PROVE  /\ s \o order \in Seq(U) /\ IsInjective(s \o order)
         /\ ToSet(s \o order) = ToSet(s) \cup S
<1> DEFINE n == Cardinality(S)
<1>1. n \in Nat
  BY FS_CardinalityType
<1>2. order \in [1 .. n -> S] /\ \A i, j \in 1 .. n : i # j => order[i] # order[j]
  BY DEF SetToSeqs
<1>3. IsFiniteSet(1 .. n) /\ Cardinality(1 .. n) = n
  BY <1>1, FS_Interval
<1>4. order \in Injection(1 .. n, S)
  BY <1>2 DEF Injection, IsInjective
<1>5. order \in Surjection(1 .. n, S)
  BY <1>3, <1>4, FS_Injection
<1>6. \A x \in S : \E i \in 1 .. n : order[i] = x
  BY <1>5 DEF Surjection
<1> HIDE DEF n
<1>7. order \in Seq(U) /\ Len(order) = n
  BY <1>1, <1>2
<1> DEFINE len == Len(s)
           t == s \o order
<1>8. len \in Nat /\ t \in Seq(U) /\ Len(t) = len + n
  BY <1>1, <1>7
<1>9. /\ \A i \in 1 .. len : t[i] = s[i]
      /\ \A i \in 1 .. n : t[len + i] = order[i]
  BY <1>1, <1>7
<1>10. /\ \A i \in 1 .. len : s[i] \in ToSet(s)
       /\ \A x \in ToSet(s) : \E i \in 1 .. len : s[i] = x
       /\ \A i, j \in 1 .. len : s[i] = s[j] => i = j
  BY DEF ToSet, IsInjective
<1>11. \A x : x \in ToSet(t) <=> \E i \in 1 .. len + n : t[i] = x
  BY <1>8 DEF ToSet
<1> HIDE DEF t, len
<1>12. \A i \in 1 .. len + n : i > len => i - len \in 1 .. n /\ t[i] = order[i - len]
  <2> SUFFICES ASSUME NEW i \in 1 .. len + n, i > len
               PROVE  i - len \in 1 .. n /\ t[i] = order[i - len]
    OBVIOUS
  <2>1. i - len \in 1 .. n /\ len + (i - len) = i
    BY <1>1, <1>8
  <2> QED
    BY <1>9, <2>1
<1>13. \A x \in ToSet(t) : x \in ToSet(s) \cup S
  <2> SUFFICES ASSUME NEW x \in ToSet(t) PROVE x \in ToSet(s) \cup S
    OBVIOUS
  <2>1. PICK i \in 1 .. len + n : t[i] = x
    BY <1>11
  <2>2. CASE i > len
    BY <1>2, <1>12, <2>1, <2>2
  <2>3. CASE ~(i > len)
    BY <1>1, <1>8, <1>9, <1>10, <2>1, <2>3
  <2> QED
    BY <2>2, <2>3
<1>14. \A x \in ToSet(s) \cup S : x \in ToSet(t)
  <2>1. ASSUME NEW x \in ToSet(s) PROVE x \in ToSet(t)
    <3>1. PICK i \in 1 .. len : s[i] = x
      BY <1>10
    <3>2. i \in 1 .. len + n /\ t[i] = x
      BY <1>1, <1>8, <1>9, <3>1
    <3> QED
      BY <1>11, <3>2
  <2>2. ASSUME NEW x \in S PROVE x \in ToSet(t)
    <3>1. PICK i \in 1 .. n : order[i] = x
      BY <1>6
    <3>2. len + i \in 1 .. len + n /\ t[len + i] = x
      BY <1>1, <1>8, <1>9, <3>1
    <3> QED
      BY <1>11, <3>2
  <2> QED
    BY <2>1, <2>2
<1>15. \A i, j \in 1 .. len + n : t[i] = t[j] => i = j
  <2> SUFFICES ASSUME NEW i \in 1 .. len + n, NEW j \in 1 .. len + n, t[i] = t[j]
               PROVE  i = j
    OBVIOUS
  <2>1. \A k \in 1 .. len + n : k > len => t[k] \in S
    BY <1>2, <1>12
  <2>2. \A k \in 1 .. len + n : ~(k > len) => k \in 1 .. len /\ t[k] = s[k] /\ t[k] \in ToSet(s)
    BY <1>1, <1>8, <1>9, <1>10
  <2>3. i > len <=> j > len
    BY <2>1, <2>2
  <2>4. CASE i > len
    BY <1>1, <1>2, <1>8, <1>12, <2>3, <2>4
  <2>5. CASE ~(i > len)
    BY <1>10, <2>2, <2>3, <2>5
  <2> QED
    BY <2>4, <2>5
<1>16. ToSet(t) = ToSet(s) \cup S
  BY <1>13, <1>14
<1>17. DOMAIN t = 1 .. len + n
  BY <1>8
<1>18. IsInjective(t)
  BY <1>15, <1>17 DEF IsInjective
<1> QED
  BY <1>8, <1>16, <1>18 DEF t

-----------------------------------------------------------------------------
(* Without over Append, and what follows by induction on the length.        *)

LEMMA KeptStep ==
  ASSUME NEW s, NEW S, NEW n \in Nat, NEW g, KeptBy(g, s, S, n), NEW i \in 1 .. n
  PROVE  g[i] = IF s[i] \in S THEN g[i - 1] ELSE Append(g[i - 1], s[i])
<1>1. i \in 0 .. n /\ i # 0
  OBVIOUS
<1> QED
  BY <1>1 DEF KeptBy

\* The equation of kept has one solution, and it looks at no later element.
LEMMA KeptUnique ==
  ASSUME NEW s, NEW t, NEW S, NEW n \in Nat, NEW m \in Nat, n <= m, NEW f, NEW g,
         KeptBy(f, s, S, n), KeptBy(g, t, S, m), \A i \in 1 .. n : s[i] = t[i]
  PROVE  \A i \in 0 .. n : f[i] = g[i]
<1> DEFINE Bad == {i \in 0 .. n : f[i] # g[i]}
<1> SUFFICES ASSUME Bad # {} PROVE FALSE
  OBVIOUS
<1>0. Bad \subseteq Nat
  OBVIOUS
<1>1. PICK i \in Bad : \A k \in Bad : i <= k
  <2> HIDE DEF Bad
  <2> QED
    BY <1>0, LeastNumber
<1>2. i \in 0 .. n /\ f[i] # g[i]
  OBVIOUS
<1>3. CASE i = 0
  BY <1>2, <1>3 DEF KeptBy
<1>4. CASE i # 0
  <2>1. i - 1 \in 0 .. n /\ ~(i <= i - 1) /\ i \in 1 .. n /\ i \in 0 .. m
    BY <1>2, <1>4
  <2>2. i - 1 \notin Bad
    <3> HIDE DEF Bad
    <3> QED
      BY <1>1, <2>1
  <2>3. f[i - 1] = g[i - 1] /\ s[i] = t[i]
    BY <2>1, <2>2
  <2>4. f[i] = IF s[i] \in S THEN f[i - 1] ELSE Append(f[i - 1], s[i])
    BY <1>2, <1>4 DEF KeptBy
  <2>5. g[i] = IF t[i] \in S THEN g[i - 1] ELSE Append(g[i - 1], t[i])
    BY <1>4, <2>1 DEF KeptBy
  <2> QED
    BY <1>2, <2>3, <2>4, <2>5
<1> QED
  BY <1>3, <1>4

LEMMA WithoutEmpty == ASSUME NEW S PROVE Without(<<>>, S) = <<>>
<1> DEFINE kept == CHOOSE f : KeptBy(f, <<>>, S, 0)
<1>1. KeptBy(kept, <<>>, S, 0)
  BY KeptExists
<1>2. Without(<<>>, S) = kept[0]
  BY DEF Without, KeptBy
<1> HIDE DEF kept
<1> QED
  BY <1>1, <1>2 DEF KeptBy

LEMMA WithoutAppend ==
  ASSUME NEW U, NEW s \in Seq(U), NEW x \in U, NEW S
  PROVE  Without(Append(s, x), S) =
           IF x \in S THEN Without(s, S) ELSE Append(Without(s, S), x)
<1> DEFINE n == Len(s)
           t == Append(s, x)
           f == CHOOSE h : KeptBy(h, s, S, n)
           g == CHOOSE h : KeptBy(h, t, S, n + 1)
<1>1. /\ n \in Nat /\ n + 1 \in Nat /\ n <= n + 1 /\ n + 1 \in 1 .. n + 1
      /\ Len(t) = n + 1 /\ t[n + 1] = x /\ \A i \in 1 .. n : s[i] = t[i]
  OBVIOUS
<1>2. KeptBy(f, s, S, n) /\ Without(s, S) = f[n]
  <2>1. \E h : KeptBy(h, s, S, n)
    BY <1>1, KeptExists
  <2> QED
    BY <2>1 DEF Without, KeptBy
<1>3. KeptBy(g, t, S, n + 1) /\ Without(t, S) = g[n + 1]
  <2> HIDE DEF t, n
  <2>1. \E h : KeptBy(h, t, S, n + 1)
    BY <1>1, KeptExists
  <2> QED
    BY <1>1, <2>1 DEF Without, KeptBy
<1> HIDE DEF f, g, t, n
<1>4. f[n] = g[n]
  <2>1. \A i \in 0 .. n : f[i] = g[i]
    <3> DEFINE m == n + 1
    <3>1. /\ n \in Nat /\ m \in Nat /\ n <= m
          /\ KeptBy(f, s, S, n) /\ KeptBy(g, t, S, m) /\ \A i \in 1 .. n : s[i] = t[i]
      BY <1>1, <1>2, <1>3
    <3> HIDE DEF m
    <3> QED
      BY <3>1, KeptUnique
  <2> QED
    BY <1>1, <2>1
<1>5. g[n + 1] = IF t[n + 1] \in S THEN g[(n + 1) - 1] ELSE Append(g[(n + 1) - 1], t[n + 1])
  BY <1>1, <1>3, KeptStep
<1>6. g[n + 1] = IF x \in S THEN g[n] ELSE Append(g[n], x)
  BY <1>1, <1>5
<1> QED
  BY <1>2, <1>3, <1>4, <1>6 DEF t

\* A sequence that is not empty is another with an element appended.
LEMMA AllButLast ==
  ASSUME NEW U, NEW s \in Seq(U), Len(s) # 0
  PROVE  LET t == SubSeq(s, 1, Len(s) - 1) IN
         /\ t \in Seq(U) /\ Len(t) = Len(s) - 1
         /\ s[Len(s)] \in U /\ s = Append(t, s[Len(s)])
         /\ \A i \in 1 .. Len(t) : t[i] = s[i]
<1> DEFINE n == Len(s)
           t == SubSeq(s, 1, n - 1)
<1>1. n \in Nat \ {0} /\ s[n] \in U
  OBVIOUS
<1>2. t \in Seq(U) /\ Len(t) = n - 1 /\ \A i \in 1 .. n - 1 : t[i] = s[i]
  <2>1. \A i \in 1 .. n - 1 : s[i] \in U
    BY <1>1
  <2>2. /\ t \in Seq(U) /\ Len(t) = IF 1 <= n - 1 THEN ((n - 1) - 1) + 1 ELSE 0
        /\ \A i \in 1 .. ((n - 1) - 1) + 1 : t[i] = s[(1 + i) - 1]
    BY <1>1, <2>1, SubSeqProperties
  <2> HIDE DEF t
  <2>3. Len(t) = n - 1
    <3> HIDE DEF n
    <3>1. CASE 1 <= n - 1
      BY <1>1, <2>2, <3>1
    <3>2. CASE ~(1 <= n - 1)
      BY <1>1, <2>2, <3>2
    <3> QED
      BY <3>1, <3>2
  <2>4. ASSUME NEW i \in 1 .. n - 1 PROVE t[i] = s[i]
    <3>1. (1 + i) - 1 = i /\ i \in 1 .. ((n - 1) - 1) + 1
      BY <1>1
    <3> QED
      BY <2>2, <3>1
  <2> QED
    BY <2>2, <2>3, <2>4
<1> HIDE DEF t
<1>3. Append(t, s[n]) = s
  <2>1. Append(t, s[n]) \in Seq(U) /\ Len(Append(t, s[n])) = n
    BY <1>1, <1>2
  <2>2. \A i \in 1 .. n : Append(t, s[n])[i] = s[i]
    BY <1>1, <1>2
  <2> QED
    BY <2>1, <2>2, SeqEqual
<1> QED
  BY <1>1, <1>2, <1>3 DEF t

\* Unlinking S and then T unlinks both.
LEMMA WithoutBoth ==
  ASSUME NEW U, NEW s \in Seq(U), IsInjective(s), NEW S, NEW T
  PROVE  Without(Without(s, S), T) = Without(s, S \cup T)
<1> DEFINE Bad == {n \in Nat : \E q \in Seq(U) :
                     /\ Len(q) = n /\ IsInjective(q)
                     /\ Without(Without(q, S), T) # Without(q, S \cup T)}
<1> SUFFICES ASSUME Bad # {} PROVE FALSE
  <2> Len(s) \in Nat
    OBVIOUS
  <2> QED
    OBVIOUS
<1>1. PICK n \in Bad : \A k \in Bad : n <= k
  BY LeastNumber
<1>2. PICK q \in Seq(U) : /\ Len(q) = n /\ IsInjective(q) /\ n \in Nat
                          /\ Without(Without(q, S), T) # Without(q, S \cup T)
  OBVIOUS
<1>3. CASE n = 0
  <2>1. q = <<>>
    BY <1>2, <1>3
  <2> QED
    BY <1>2, <2>1, WithoutEmpty
<1>4. CASE n # 0
  <2> DEFINE t == SubSeq(q, 1, n - 1)
             x == q[n]
  <2>1. /\ t \in Seq(U) /\ Len(t) = n - 1 /\ x \in U /\ q = Append(t, x)
        /\ \A k \in 1 .. Len(t) : t[k] = q[k]
    BY <1>2, <1>4, AllButLast
  <2> HIDE DEF t, x
  <2>2. IsInjective(t)
    BY <1>2, <1>4, <2>1 DEF IsInjective
  <2>3. n - 1 \in Nat /\ ~(n <= n - 1)
    BY <1>2, <1>4
  <2>4. n - 1 \notin Bad
    <3> HIDE DEF Bad
    <3> QED
      BY <1>1, <2>3
  <2>5. Without(Without(t, S), T) = Without(t, S \cup T)
    BY <2>1, <2>2, <2>3, <2>4
  <2> DEFINE w == Without(t, S)
  <2>6. w \in Seq(U)
    BY <2>1, <2>2, WithoutElements
  <2>7. Without(q, S) = IF x \in S THEN w ELSE Append(w, x)
    BY <2>1, WithoutAppend
  <2>8. Without(q, S \cup T) =
          IF x \in S \cup T THEN Without(w, T) ELSE Append(Without(w, T), x)
    BY <2>1, <2>5, WithoutAppend
  <2> HIDE DEF w
  <2>9. Without(Append(w, x), T) = IF x \in T THEN Without(w, T) ELSE Append(Without(w, T), x)
    BY <2>1, <2>6, WithoutAppend
  <2> QED
    BY <1>2, <2>7, <2>8, <2>9
<1> QED
  BY <1>3, <1>4

\* Unlinking nodes that are not there changes nothing.
LEMMA WithoutNone ==
  ASSUME NEW U, NEW s \in Seq(U), NEW S, ToSet(s) \cap S = {}
  PROVE  Without(s, S) = s
<1> DEFINE Bad == {n \in Nat : \E q \in Seq(U) :
                     Len(q) = n /\ ToSet(q) \cap S = {} /\ Without(q, S) # q}
<1> SUFFICES ASSUME Bad # {} PROVE FALSE
  <2> Len(s) \in Nat
    OBVIOUS
  <2> QED
    OBVIOUS
<1>1. PICK n \in Bad : \A k \in Bad : n <= k
  BY LeastNumber
<1>2. PICK q \in Seq(U) : /\ Len(q) = n /\ ToSet(q) \cap S = {} /\ n \in Nat
                          /\ Without(q, S) # q
  OBVIOUS
<1>3. CASE n = 0
  <2>1. q = <<>>
    BY <1>2, <1>3
  <2> QED
    BY <1>2, <2>1, WithoutEmpty
<1>4. CASE n # 0
  <2> DEFINE t == SubSeq(q, 1, n - 1)
             x == q[n]
  <2>1. t \in Seq(U) /\ Len(t) = n - 1 /\ x \in U /\ q = Append(t, x)
    BY <1>2, <1>4, AllButLast
  <2> HIDE DEF t, x
  <2>2. ToSet(q) = ToSet(t) \cup {x}
    BY <2>1, AppendOnce
  <2>3. n - 1 \in Nat /\ ~(n <= n - 1)
    BY <1>2, <1>4
  <2>4. n - 1 \notin Bad
    <3> HIDE DEF Bad
    <3> QED
      BY <1>1, <2>3
  <2>5. Without(t, S) = t
    BY <1>2, <2>1, <2>2, <2>3, <2>4
  <2>6. Without(q, S) = Append(t, x)
    BY <1>2, <2>1, <2>2, <2>5, WithoutAppend
  <2> QED
    BY <1>2, <2>1, <2>6
<1> QED
  BY <1>3, <1>4

\* Unlinking one node: those before it keep their places, those after it move up.
LEMMA WithoutOne ==
  ASSUME NEW U, NEW s \in Seq(U), IsInjective(s), NEW k \in 1 .. Len(s)
  PROVE  LET w == Without(s, {s[k]}) IN
         /\ w \in Seq(U) /\ Len(w) = Len(s) - 1
         /\ \A m \in 1 .. Len(s) - 1 : w[m] = IF m < k THEN s[m] ELSE s[m + 1]
<1> DEFINE Right(w, q, l) ==
             /\ w \in Seq(U) /\ Len(w) = Len(q) - 1
             /\ \A m \in 1 .. Len(q) - 1 : w[m] = IF m < l THEN q[m] ELSE q[m + 1]
           Bad == {n \in Nat : \E q \in Seq(U) :
                     /\ Len(q) = n /\ IsInjective(q)
                     /\ \E l \in 1 .. n : ~Right(Without(q, {q[l]}), q, l)}
<1> SUFFICES ASSUME Bad # {} PROVE FALSE
  <2>1. Len(s) \in Nat
    OBVIOUS
  <2> HIDE DEF Right
  <2>2. Right(Without(s, {s[k]}), s, k)
    BY <2>1
  <2> QED
    BY <2>2 DEF Right
<1> HIDE DEF Right
<1>1. PICK n \in Bad : \A h \in Bad : n <= h
  BY LeastNumber
<1>2. PICK q \in Seq(U) : Len(q) = n /\ IsInjective(q) /\ n \in Nat /\ \E l \in 1 .. n : ~Right(Without(q, {q[l]}), q, l)
  OBVIOUS
<1>3. PICK l \in 1 .. n : ~Right(Without(q, {q[l]}), q, l)
  BY <1>2
<1> DEFINE t == SubSeq(q, 1, n - 1)
           x == q[n]
<1>4. /\ t \in Seq(U) /\ Len(t) = n - 1 /\ x \in U /\ q = Append(t, x)
      /\ \A m \in 1 .. Len(t) : t[m] = q[m]
  BY <1>2, <1>3, AllButLast
<1> HIDE DEF t
<1>5. IsInjective(t) /\ \A m \in 1 .. n - 1 : t[m] # x
  <2>0. DOMAIN q = 1 .. n
    BY <1>2
  <2>1. \A a, b \in 1 .. n : q[a] = q[b] => a = b
    BY <1>2, <2>0 DEF IsInjective
  <2>2. \A a, b \in 1 .. n - 1 : t[a] = t[b] => a = b
    BY <1>2, <1>4, <2>1
  <2>3. \A m \in 1 .. n - 1 : t[m] # x
    BY <1>2, <1>3, <1>4, <2>1
  <2>4. DOMAIN t = 1 .. n - 1
    BY <1>4
  <2> QED
    BY <2>2, <2>3, <2>4 DEF IsInjective
<1>6. CASE l = n
  <2>1. x \notin ToSet(t)
    BY <1>4, <1>5 DEF ToSet
  <2> HIDE DEF x
  <2>2. Without(t, {x}) = t
    BY <1>4, <2>1, WithoutNone
  <2>3. Without(q, {x}) = t
    BY <1>4, <2>2, WithoutAppend
  <2>4. Without(q, {q[l]}) = t
    BY <1>6, <2>3 DEF x
  <2>5. \A m \in 1 .. Len(q) - 1 : t[m] = IF m < l THEN q[m] ELSE q[m + 1]
    BY <1>2, <1>4, <1>6
  <2>6. Right(t, q, l)
    BY <1>2, <1>4, <2>5 DEF Right
  <2> QED
    BY <1>3, <2>4, <2>6
<1>7. CASE l # n
  <2>1. l \in 1 .. n - 1 /\ n - 1 \in Nat /\ ~(n <= n - 1)
    BY <1>2, <1>3, <1>7
  <2>2. n - 1 \notin Bad
    <3> HIDE DEF Bad
    <3> QED
      BY <1>1, <2>1
  <2>3. Right(Without(t, {t[l]}), t, l)
    BY <1>4, <1>5, <2>1, <2>2
  <2>4. t[l] = q[l] /\ q[l] # x
    BY <1>4, <1>5, <2>1
  <2> DEFINE w == Without(t, {t[l]})
  <2>5. /\ w \in Seq(U) /\ Len(w) = n - 2
        /\ \A m \in 1 .. n - 2 : w[m] = IF m < l THEN t[m] ELSE t[m + 1]
    <3>1. Right(w, t, l) /\ Len(t) - 1 = n - 2
      BY <1>2, <1>4, <2>3
    <3> HIDE DEF w
    <3> QED
      BY <3>1 DEF Right
  <2>6. Without(q, {q[l]}) = Append(w, x)
    <3> HIDE DEF x
    <3> DEFINE one == {q[l]}
    <3>1. x \notin one /\ w = Without(t, one)
      BY <2>4
    <3> HIDE DEF one, w
    <3>2. Without(q, one) = Append(w, x)
      BY <1>4, <3>1, WithoutAppend
    <3> QED
      BY <3>2 DEF one
  <2> HIDE DEF w
  <2>7. Append(w, x) \in Seq(U) /\ Len(Append(w, x)) = n - 1
    BY <1>2, <1>4, <2>1, <2>5
  <2>8. \A m \in 1 .. n - 1 : Append(w, x)[m] = IF m < l THEN q[m] ELSE q[m + 1]
    <3> SUFFICES ASSUME NEW m \in 1 .. n - 1
                 PROVE  Append(w, x)[m] = IF m < l THEN q[m] ELSE q[m + 1]
      OBVIOUS
    <3>1. CASE m = n - 1
      BY <1>2, <2>1, <2>5, <3>1
    <3>2. CASE m # n - 1
      <4>1. m \in 1 .. n - 2 /\ Append(w, x)[m] = w[m]
        BY <1>2, <2>1, <2>5, <3>2
      <4>2. t[m] = q[m] /\ t[m + 1] = q[m + 1]
        BY <1>2, <1>4, <4>1
      <4> QED
        BY <2>5, <4>1, <4>2
    <3> QED
      BY <3>1, <3>2
  <2>9. Right(Append(w, x), q, l)
    BY <1>2, <2>7, <2>8 DEF Right
  <2> QED
    BY <1>3, <2>6, <2>9
<1> QED
  BY <1>6, <1>7
=============================================================================
