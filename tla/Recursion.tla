------------------------------ MODULE Recursion ------------------------------
(***************************************************************************)
(* Induction and primitive recursion over the naturals, stated with sets   *)
(* and functions so that they can be cited for any definition, and what    *)
(* they show of two operators on sequences.                                *)
(***************************************************************************)
EXTENDS SequencesExt, SequenceTheorems, WellFoundedInduction, TLAPS

\* A set with 0 and every successor of its numbers has all the naturals.
LEMMA Induction ==
  ASSUME NEW S, 0 \in S, \A n \in Nat : n \in S => n + 1 \in S
  PROVE  Nat \subseteq S
<1> SUFFICES ASSUME Nat \ S # {} PROVE FALSE
  OBVIOUS
<1>1. PICK x \in Nat \ S : \A y \in Nat \ S : ~(<<y, x>> \in OpToRel(<, Nat))
  <2>1. Nat \ S \subseteq Nat
    OBVIOUS
  <2> QED BY <2>1, NatLessThanWellFounded, WFMin
<1>2. x # 0 /\ x - 1 \in Nat
  OBVIOUS
<1>3. <<x - 1, x>> \in OpToRel(<, Nat)
  BY <1>2 DEF OpToRel
<1>4. x - 1 \in S
  BY <1>1, <1>2, <1>3
<1> QED BY <1>2, <1>4

\* The functions on Nat that follow the step functions D up to n.
Follows(f, n, a, D) == f[0] = a /\ \A k \in Nat : k < n => f[k + 1] = D[k][f[k]]

\* Two of them agree as far as both go.
LEMMA Agreement ==
  ASSUME NEW a, NEW D, NEW n \in Nat, NEW f, NEW g,
         Follows(f, n, a, D), Follows(g, n, a, D)
  PROVE  \A k \in Nat : k <= n => f[k] = g[k]
<1> DEFINE S == {k \in Nat : k <= n => f[k] = g[k]}
<1>1. 0 \in S
  BY DEF Follows
<1>2. ASSUME NEW k \in Nat, k \in S PROVE k + 1 \in S
  BY <1>2 DEF Follows
<1>3. Nat \subseteq S
  <2> HIDE DEF S
  <2> QED BY <1>1, <1>2, Induction
<1> QED BY <1>3

\* Step functions have a function that follows them from any start.
Run(f, T, a, D) == f \in [Nat -> T] /\ f[0] = a /\ \A n \in Nat : f[n + 1] = D[n][f[n]]
LEMMA Recursion ==
  ASSUME NEW T, NEW a \in T, NEW D \in [Nat -> [T -> T]]
  PROVE  \E f : Run(f, T, a, D)
<1> DEFINE Parts(n) == {f \in [Nat -> T] : Follows(f, n, a, D)}
           S == {n \in Nat : Parts(n) # {}}
<1>1. 0 \in S
  <2>1. [k \in Nat |-> a] \in Parts(0)
    BY DEF Follows
  <2> QED BY <2>1
<1>2. ASSUME NEW n \in Nat, n \in S PROVE n + 1 \in S
  <2>1. PICK f \in [Nat -> T] : Follows(f, n, a, D)
    BY <1>2
  <2>2. D[n] \in [T -> T] /\ f[n] \in T
    OBVIOUS
  <2>3. D[n][f[n]] \in T
    BY <2>2
  <2> DEFINE g == [k \in Nat |-> IF k = n + 1 THEN D[n][f[n]] ELSE f[k]]
  <2>4. g \in [Nat -> T]
    BY <2>3
  <2>5. Follows(g, n + 1, a, D)
    <3>1. g[0] = a
      BY <2>1 DEF Follows
    <3>2. ASSUME NEW k \in Nat, k < n + 1 PROVE g[k + 1] = D[k][g[k]]
      <4>1. g[k] = f[k]
        BY <3>2
      <4>2. CASE k < n
        BY <2>1, <4>1, <4>2 DEF Follows
      <4>3. CASE k = n
        BY <4>1, <4>3
      <4> QED BY <3>2, <4>2, <4>3
    <3> HIDE DEF g
    <3> QED BY <3>1, <3>2 DEF Follows
  <2>6. g \in Parts(n + 1)
    <3> HIDE DEF g
    <3> QED BY <2>4, <2>5
  <2> HIDE DEF g, Parts
  <2>7. Parts(n + 1) # {} /\ n + 1 \in Nat
    BY <2>6
  <2> QED BY <2>7
<1>3. \A n \in Nat : Parts(n) # {}
  <2>1. Nat \subseteq S
    <3> HIDE DEF S
    <3> QED BY <1>1, <1>2, Induction
  <2> QED BY <2>1
<1> DEFINE part(n) == CHOOSE f : f \in Parts(n)
           f == [n \in Nat |-> part(n)[n]]
<1>4. ASSUME NEW n \in Nat PROVE part(n) \in [Nat -> T] /\ Follows(part(n), n, a, D)
  BY <1>3
<1> HIDE DEF part
<1>5. f \in [Nat -> T]
  BY <1>4
<1>6. f[0] = a
  BY <1>4 DEF Follows
<1>7. ASSUME NEW n \in Nat PROVE f[n + 1] = D[n][f[n]]
  <2>1. n + 1 \in Nat /\ n < n + 1
    OBVIOUS
  <2>2. Follows(part(n), n, a, D) /\ Follows(part(n + 1), n + 1, a, D)
    BY <1>4, <2>1
  <2>3. Follows(part(n + 1), n, a, D)
    BY <2>2 DEF Follows
  <2>4. part(n)[n] = part(n + 1)[n]
    BY <2>2, <2>3, Agreement
  <2>5. part(n + 1)[n + 1] = D[n][part(n + 1)[n]]
    BY <2>1, <2>2 DEF Follows
  <2>6. f[n + 1] = part(n + 1)[n + 1] /\ f[n] = part(n)[n]
    BY <2>1
  <2> HIDE DEF f
  <2> QED BY <2>4, <2>5, <2>6
<1> HIDE DEF f
<1> QED BY <1>5, <1>6, <1>7 DEF Run

\* A set of naturals has a least element.
LEMMA Least ==
  ASSUME NEW S \in SUBSET Nat, S # {}
  PROVE  \E x \in S : \A y \in S : x <= y
<1>1. PICK x \in S : \A y \in S : ~(<<y, x>> \in OpToRel(<, Nat))
  BY NatLessThanWellFounded, WFMin
<1>2. ASSUME NEW y \in S PROVE x <= y
  <2>1. ~(y < x)
    BY <1>1 DEF OpToRel
  <2> QED BY <2>1
<1> QED BY <1>2

\* An element that no other exceeds is the greatest.
LEMMA TopIsMax ==
  ASSUME NEW S \in SUBSET Int, NEW x \in S, \A y \in S : y <= x
  PROVE  Max(S) = x
<1> DEFINE y == CHOOSE y \in S : \A z \in S : y >= z
<1>1. y \in S /\ \A z \in S : y >= z
  <2>1. \A z \in S : x >= z
    OBVIOUS
  <2> QED BY <2>1
<1>2. Max(S) = y
  BY DEF Max
<1> HIDE DEF y
<1>3. y \in Int /\ x \in Int /\ y >= x /\ y <= x
  BY <1>1
<1> QED BY <1>2, <1>3

-----------------------------------------------------------------------------
(* Sequences.                                                              *)

\* The joins of the first elements of a sequence of sequences.
Joins(g, s) == g[0] = <<>> /\ \A i \in 1..Len(s) : g[i] = g[i - 1] \o s[i]

LEMMA JoinsExist ==
  ASSUME NEW T, NEW s \in Seq(Seq(T))
  PROVE  \E g \in [Nat -> Seq(T)] : Joins(g, s)
<1> DEFINE n == Len(s)
           D == [k \in Nat |-> [x \in Seq(T) |-> IF k + 1 \in 1..n THEN x \o s[k + 1] ELSE x]]
<1>0. n \in Nat /\ \A k \in 1..n : s[k] \in Seq(T)
  BY LenProperties, ElementOfSeq
<1> HIDE DEF n, D
<1>1. D \in [Nat -> [Seq(T) -> Seq(T)]]
  <2>1. ASSUME NEW k \in Nat, NEW x \in Seq(T)
        PROVE  (IF k + 1 \in 1..n THEN x \o s[k + 1] ELSE x) \in Seq(T)
    BY <1>0, ConcatProperties
  <2> QED BY <2>1 DEF D
<1>2. <<>> \in Seq(T)
  OBVIOUS
<1>3. PICK f : Run(f, Seq(T), <<>>, D)
  BY <1>1, <1>2, Recursion
<1>4. ASSUME NEW i \in 1..n PROVE f[i] = f[i - 1] \o s[i]
  <2>1. i - 1 \in Nat /\ (i - 1) + 1 = i /\ (i - 1) + 1 \in 1..n
    BY <1>0
  <2>2. f[i] = D[i - 1][f[i - 1]] /\ f[i - 1] \in Seq(T)
    BY <1>3, <2>1 DEF Run
  <2> QED BY <2>1, <2>2 DEF D
<1> QED BY <1>3, <1>4 DEF Run, Joins, n

\* FlattenSeq is the last of the joins.
LEMMA FlattenIsLastJoin ==
  ASSUME NEW T, NEW s \in Seq(Seq(T)), NEW g \in [Nat -> Seq(T)], Joins(g, s)
  PROVE  FlattenSeq(s) = g[Len(s)]
<1> DEFINE n == Len(s)
           Goes(f) == [i \in 1..n |-> IF i = 1 THEN s[i] ELSE f[i - 1] \o s[i]]
           h == [i \in 1..n |-> g[i]]
<1>0. n \in Nat /\ \A k \in 1..n : s[k] \in Seq(T)
  BY LenProperties, ElementOfSeq
<1>1. CASE n = 0
  <2>1. s = <<>>
    BY <1>1, EmptySeq
  <2> QED BY <1>1, <2>1 DEF FlattenSeq, Joins
<1>2. CASE n # 0
  <2>1. h = Goes(h)
    <3>1. ASSUME NEW i \in 1..n PROVE g[i] = IF i = 1 THEN s[i] ELSE h[i - 1] \o s[i]
      <4>1. CASE i = 1
        <5>1. g[1] = g[0] \o s[1] /\ g[0] = <<>> /\ s[1] \in Seq(T)
          <6>1. 1 \in 1..Len(s) /\ 1 - 1 = 0
            BY <4>1
          <6> QED BY <1>0, <6>1 DEF Joins
        <5> QED BY <4>1, <5>1
      <4>2. CASE i # 1
        <5>1. i - 1 \in 1..n
          BY <1>0, <4>2
        <5> QED BY <4>2, <5>1 DEF Joins
      <4> QED BY <4>1, <4>2
    <3> QED BY <3>1
  <2>2. FlattenSeq(s) = (CHOOSE f : f = Goes(f))[n]
    BY <1>2 DEF FlattenSeq, n
  <2> DEFINE f == CHOOSE e : e = Goes(e)
  <2>3. f = Goes(f)
    BY <2>1
  <2> HIDE DEF f, h
  <2>4. \A i \in 1..n : f[i] = IF i = 1 THEN s[i] ELSE f[i - 1] \o s[i]
    BY <2>3
  <2>5. \A i \in 1..n : h[i] = IF i = 1 THEN s[i] ELSE h[i - 1] \o s[i]
    BY <2>1
  <2> DEFINE S == {k \in Nat : k \in 1..n => f[k] = h[k]}
  <2>6. 0 \in S
    OBVIOUS
  <2>7. ASSUME NEW k \in Nat, k \in S PROVE k + 1 \in S
    <3>1. CASE k + 1 \in 1..n /\ k # 0
      <4>1. k \in 1..n /\ k + 1 # 1 /\ (k + 1) - 1 = k
        BY <1>0, <3>1
      <4> QED BY <2>4, <2>5, <2>7, <3>1, <4>1
    <3>2. CASE k = 0
      BY <2>4, <2>5, <3>2
    <3>3. CASE k + 1 \notin 1..n
      BY <3>3
    <3> QED BY <3>1, <3>2, <3>3
  <2>8. Nat \subseteq S
    <3> HIDE DEF S
    <3> QED BY <2>6, <2>7, Induction
  <2>9. n \in 1..n
    BY <1>0, <1>2
  <2>10. f[n] = h[n]
    BY <1>0, <2>8, <2>9
  <2>11. h[n] = g[n]
    BY <2>9 DEF h
  <2> QED BY <2>2, <2>10, <2>11 DEF f
<1> QED BY <1>1, <1>2

\* One more sequence goes to the end of the flattened ones.
LEMMA FlattenAppend ==
  ASSUME NEW T, NEW s \in Seq(Seq(T)), NEW x \in Seq(T)
  PROVE  /\ FlattenSeq(s) \in Seq(T)
         /\ FlattenSeq(Append(s, x)) = FlattenSeq(s) \o x
<1> DEFINE all == Append(s, x)
<1>1. /\ all \in Seq(Seq(T)) /\ Len(s) \in Nat /\ Len(all) = Len(s) + 1
      /\ \A i \in 1..Len(s) : all[i] = s[i]
  BY AppendProperties, LenProperties
<1>2. all[Len(s) + 1] = x
  BY AppendProperties, LenProperties
<1> HIDE DEF all
<1>3. PICK g \in [Nat -> Seq(T)] : Joins(g, all)
  BY <1>1, JoinsExist
<1>4. Joins(g, s)
  <2>1. \A i \in 1..Len(s) : i \in 1..Len(all)
    BY <1>1
  <2> QED BY <1>1, <1>3, <2>1 DEF Joins
<1>5. FlattenSeq(all) = g[Len(all)] /\ FlattenSeq(s) = g[Len(s)]
  BY <1>1, <1>3, <1>4, FlattenIsLastJoin
<1>6. Len(all) \in 1..Len(all) /\ Len(all) - 1 = Len(s)
  BY <1>1
<1>7. g[Len(all)] = g[Len(s)] \o x
  BY <1>1, <1>2, <1>3, <1>6 DEF Joins
<1> QED BY <1>1, <1>5, <1>7 DEF all

\* The last elements of a sequence, n at most.
Newest(s, n) == SubSeq(s, IF Len(s) > n THEN Len(s) - n + 1 ELSE 1, Len(s))

\* One more element moves them on by one.
LEMMA NewestAppend ==
  ASSUME NEW T, NEW s \in Seq(T), NEW x \in T, NEW n \in Nat \ {0}
  PROVE  LET old == Newest(s, n)
         IN  /\ old \in Seq(T)
             /\ Newest(Append(s, x), n) = Append(IF Len(old) < n THEN old ELSE Tail(old), x)
<1> DEFINE old == Newest(s, n)
           all == Append(s, x)
           m == Len(s)
<1>1. /\ m \in Nat /\ all \in Seq(T) /\ Len(all) = m + 1
      /\ \A i \in 1..m : all[i] = s[i]
  BY AppendProperties, LenProperties
<1>2. all[m + 1] = x
  BY AppendProperties, LenProperties
<1> HIDE DEF all, m
<1>3. CASE m < n
  <2>1. old = s /\ Len(old) < n
    <3>1. old = SubSeq(s, 1, Len(s))
      <4>1. ~(Len(s) > n)
        BY <1>1, <1>3 DEF m
      <4> QED BY <4>1 DEF Newest
    <3> QED BY <1>3, <3>1, SubSeqFull DEF m
  <2>2. Newest(all, n) = all
    <3>1. Newest(all, n) = SubSeq(all, 1, Len(all))
      BY <1>1, <1>3 DEF Newest
    <3> QED BY <1>1, <3>1, SubSeqFull
  <2> QED BY <2>1, <2>2 DEF all
<1>4. CASE m >= n
  <2> DEFINE d == m - n
             t == SubSeq(s, d + 2, m)
  <2>0. /\ d \in Nat /\ m = d + n
        /\ d + 1 \in 1..m /\ m \in (d + 1)..m /\ d + 2 \in 1..(m + 1) /\ m + 1 \in (d + 2)..(m + 1)
        /\ m + 1 \in 1..(m + 1)
    BY <1>1, <1>4
  <2>1. old = SubSeq(s, d + 1, m)
    <3>1. m > n => m - n + 1 = d + 1
      BY <1>1
    <3>2. ~(m > n) => 1 = d + 1
      BY <1>1, <1>4
    <3> QED BY <3>1, <3>2 DEF Newest, m
  <2>2. Newest(all, n) = SubSeq(all, d + 2, m + 1)
    <3>1. m + 1 > n /\ m + 1 - n + 1 = d + 2
      BY <1>1, <1>4
    <3> QED BY <1>1, <3>1 DEF Newest
  <2> HIDE DEF old, d
  <2>3. Tail(old) = t
    BY <1>1, <2>0, <2>1, HeadTailOfSubSeq DEF m
  <2>4. /\ old \in Seq(T) /\ Len(old) = n /\ t \in Seq(T)
        /\ Len(t) = Len(SubSeq(all, d + 2, m)) /\ SubSeq(all, d + 2, m) \in Seq(T)
        /\ \A i \in 1..Len(t) : t[i] = SubSeq(all, d + 2, m)[i]
    <3>1. \A i \in 1..m : s[i] \in T /\ all[i] \in T
      BY <1>1, ElementOfSeq DEF m
    <3>2. /\ m \in Int /\ d + 1 \in Int /\ d + 2 \in Int
          /\ \A i \in (d + 1)..m : i \in 1..m
          /\ \A i \in (d + 2)..m : i \in 1..m
      BY <1>1, <2>0
    <3>3. old \in Seq(T) /\ Len(old) = n
      <4>1. /\ old \in Seq(T)
            /\ Len(old) = IF d + 1 <= m THEN m - (d + 1) + 1 ELSE 0
        BY <2>1, <3>1, <3>2, SubSeqProperties
      <4> QED BY <1>1, <2>0, <4>1
    <3>4. /\ t \in Seq(T) /\ Len(t) = IF d + 2 <= m THEN m - (d + 2) + 1 ELSE 0
          /\ \A i \in 1..(m - (d + 2) + 1) : t[i] = s[d + 2 + i - 1]
      BY <3>1, <3>2, SubSeqProperties
    <3> DEFINE u == SubSeq(all, d + 2, m)
    <3>5. /\ u \in Seq(T) /\ Len(u) = IF d + 2 <= m THEN m - (d + 2) + 1 ELSE 0
          /\ \A i \in 1..(m - (d + 2) + 1) : u[i] = all[d + 2 + i - 1]
      BY <3>1, <3>2, SubSeqProperties
    <3> HIDE DEF t, u
    <3>6. ASSUME NEW i \in 1..Len(t) PROVE t[i] = u[i]
      <4>1. i \in 1..(m - (d + 2) + 1) /\ d + 2 + i - 1 \in 1..m
        BY <1>1, <2>0, <3>4
      <4> QED BY <1>1, <3>4, <3>5, <4>1
    <3> QED BY <3>3, <3>4, <3>5, <3>6 DEF u
  <2>5. SubSeq(all, d + 2, m) = t
    <3> HIDE DEF t
    <3> QED BY <2>4, SeqEqual
  <2>6. SubSeq(all, d + 2, m + 1) = SubSeq(all, d + 2, m) \o <<x>>
    <3>1. SubSeq(all, d + 2, m + 1) = SubSeq(all, d + 2, (m + 1) - 1) \o <<all[m + 1]>>
      BY <1>1, <2>0, SubSeqRecursiveSecond
    <3>2. (m + 1) - 1 = m
      BY <1>1
    <3> QED BY <1>2, <3>1, <3>2
  <2> HIDE DEF t
  <2>7. t \o <<x>> = Append(t, x)
    BY <2>4
  <2>8. Newest(all, n) = Append(Tail(old), x)
    BY <2>2, <2>3, <2>5, <2>6, <2>7
  <2>9. ~(Len(old) < n)
    BY <2>4
  <2> QED BY <2>4, <2>8, <2>9 DEF all, old
<1> QED BY <1>1, <1>3, <1>4
=============================================================================
