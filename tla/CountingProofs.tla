--------------------------- MODULE CountingProofs ---------------------------
(***************************************************************************)
(* What the steps of a queue do to a count of its elements.                *)
(***************************************************************************)
EXTENDS Counting, Integers, FiniteSetTheorems, FunctionTheorems, SequenceTheorems,
        TLAPS

LEMMA PlacesAreFinite ==
    ASSUME NEW T, NEW q \in Seq(T), NEW S
    PROVE  /\ IsFiniteSet({n \in DOMAIN q : q[n] \in S})
           /\ HowMany(q, S) \in Nat /\ HowMany(q, S) <= Len(q)
<1> DEFINE places == {n \in DOMAIN q : q[n] \in S}
<1>1. DOMAIN q = 1 .. Len(q) /\ Len(q) \in Nat  BY LenProperties
<1>2. IsFiniteSet(1 .. Len(q)) /\ Cardinality(1 .. Len(q)) = Len(q)
  BY <1>1, FS_Interval
<1>3. places \in SUBSET (1 .. Len(q))  BY <1>1
<1>4. IsFiniteSet(places) /\ Cardinality(places) <= Len(q)
  BY <1>2, <1>3, FS_Subset
<1>5. Cardinality(places) \in Nat  BY <1>4, FS_CardinalityType
<1> QED  BY <1>4, <1>5 DEF HowMany

(* One element more, wherever it is put.                                    *)
LEMMA OneMore ==
    ASSUME NEW T, NEW q \in Seq(T), NEW r \in Seq(T), NEW k \in 1 .. Len(q) + 1, NEW S,
           Len(r) = Len(q) + 1,
           \A n \in 1 .. k - 1 : r[n] = q[n],
           \A n \in k .. Len(q) : r[n + 1] = q[n]
    PROVE  HowMany(r, S) = HowMany(q, S) + (IF r[k] \in S THEN 1 ELSE 0)
<1> DEFINE P == {n \in DOMAIN q : q[n] \in S}
           R == {n \in DOMAIN r : r[n] \in S}
           f == [n \in P |-> IF n < k THEN n ELSE n + 1]
<1>1. /\ DOMAIN q = 1 .. Len(q) /\ DOMAIN r = 1 .. Len(q) + 1 /\ Len(q) \in Nat
      /\ k \in Nat
  BY LenProperties
<1>2. IsFiniteSet(P) /\ IsFiniteSet(R) /\ Cardinality(P) \in Nat
  BY PlacesAreFinite, FS_CardinalityType
<1>3. \A n \in P : f[n] \in R \ {k}
  <2> TAKE n \in P
  <2>1. n \in 1 .. Len(q) /\ q[n] \in S  BY <1>1
  <2>2. CASE n < k
    <3>1. n \in 1 .. k - 1  BY <1>1, <2>1, <2>2
    <3>2. r[n] \in S /\ n \in 1 .. Len(q) + 1 /\ n # k  BY <1>1, <2>1, <2>2, <3>1
    <3> QED  BY <1>1, <2>2, <3>2
  <2>3. CASE ~(n < k)
    <3>1. n \in k .. Len(q)  BY <1>1, <2>1, <2>3
    <3>2. r[n + 1] \in S /\ n + 1 \in 1 .. Len(q) + 1 /\ n + 1 # k  BY <1>1, <2>1, <2>3, <3>1
    <3> QED  BY <1>1, <2>3, <3>2
  <2> QED  BY <2>2, <2>3
<1>4. \A n, m \in P : f[n] = f[m] => n = m
  BY <1>1
<1>5. \A m \in R \ {k} : \E n \in P : f[n] = m
  <2> TAKE m \in R \ {k}
  <2>1. m \in 1 .. Len(q) + 1 /\ r[m] \in S /\ m # k  BY <1>1
  <2>2. CASE m < k
    <3>1. m \in 1 .. k - 1 /\ m \in 1 .. Len(q)  BY <1>1, <2>1, <2>2
    <3>2. q[m] \in S  BY <2>1, <3>1
    <3>3. m \in P  BY <1>1, <3>1, <3>2
    <3>4. f[m] = m  BY <2>2, <3>3
    <3> QED  BY <3>3, <3>4
  <2>3. CASE ~(m < k)
    <3> DEFINE n == m - 1
    <3>1. n \in k .. Len(q) /\ n \in 1 .. Len(q) /\ n + 1 = m /\ ~(n < k)
      BY <1>1, <2>1, <2>3
    <3> HIDE DEF n
    <3>2. q[n] \in S  BY <2>1, <3>1
    <3>3. n \in P  BY <1>1, <3>1, <3>2
    <3>4. f[n] = m  BY <3>1, <3>3
    <3> QED  BY <3>3, <3>4
  <2> QED  BY <2>2, <2>3
<1>6. f \in Bijection(P, R \ {k})
  <2>1. f \in [P -> R \ {k}]  BY <1>3
  <2> HIDE DEF f, P, R
  <2> QED  BY <1>4, <1>5, <2>1, Fun_IsBij
<1>7. Cardinality(R \ {k}) = Cardinality(P)
  <2> HIDE DEF f, P, R
  <2>1. ExistsBijection(P, R \ {k})  BY <1>6 DEF ExistsBijection
  <2> QED  BY <1>2, <2>1, FS_Bijection
<1>8. k \in R <=> r[k] \in S  BY <1>1
<1> HIDE DEF f, P, R
<1>9. Cardinality(R \ {k}) = IF k \in R THEN Cardinality(R) - 1 ELSE Cardinality(R)
  BY <1>2, FS_RemoveElement
<1>10. Cardinality(R) \in Nat  BY <1>2, FS_CardinalityType
<1> QED  BY <1>2, <1>7, <1>8, <1>9, <1>10 DEF HowMany, P, R

LEMMA CountTail ==
    ASSUME NEW T, NEW q \in Seq(T), q # <<>>, NEW S
    PROVE  HowMany(q, S) = HowMany(Tail(q), S) + (IF Head(q) \in S THEN 1 ELSE 0)
<1> DEFINE t == Tail(q)
<1>1. /\ t \in Seq(T) /\ Len(q) = Len(t) + 1 /\ Len(t) \in Nat
      /\ \A n \in 1 .. Len(t) : q[n + 1] = t[n]
      /\ Head(q) = q[1]
  BY HeadTailProperties, EmptySeq, LenProperties
<1> HIDE DEF t
<1>2. 1 \in 1 .. Len(t) + 1 /\ \A n \in 1 .. 1 - 1 : q[n] = t[n]
  BY <1>1
<1>3. HowMany(q, S) = HowMany(t, S) + (IF q[1] \in S THEN 1 ELSE 0)
  BY ONLY q \in Seq(T), <1>1, <1>2, OneMore
<1> QED  BY <1>1, <1>3 DEF t

LEMMA CountAppend ==
    ASSUME NEW T, NEW q \in Seq(T), NEW e \in T, NEW S
    PROVE  HowMany(Append(q, e), S) = HowMany(q, S) + (IF e \in S THEN 1 ELSE 0)
<1> DEFINE r == Append(q, e)
           k == Len(q) + 1
<1>1. /\ r \in Seq(T) /\ Len(r) = Len(q) + 1 /\ Len(q) \in Nat
      /\ \A n \in 1 .. Len(q) : r[n] = q[n]
      /\ r[k] = e
  BY AppendProperties, LenProperties
<1> HIDE DEF r
<1>2. /\ k \in 1 .. Len(q) + 1
      /\ \A n \in 1 .. k - 1 : r[n] = q[n]
      /\ \A n \in k .. Len(q) : r[n + 1] = q[n]
  BY <1>1
<1> HIDE DEF k
<1>3. HowMany(r, S) = HowMany(q, S) + (IF r[k] \in S THEN 1 ELSE 0)
  BY ONLY q \in Seq(T), <1>1, <1>2, OneMore
<1> QED  BY <1>1, <1>3 DEF r

(* An element replaced by one that does not count.                          *)
LEMMA CountReplaced ==
    ASSUME NEW T, NEW q \in Seq(T), NEW r \in Seq(T), NEW k \in DOMAIN q, NEW S,
           DOMAIN r = DOMAIN q,
           \A n \in DOMAIN q \ {k} : r[n] = q[n],
           r[k] \notin S
    PROVE  HowMany(q, S) = HowMany(r, S) + (IF q[k] \in S THEN 1 ELSE 0)
<1> DEFINE P == {n \in DOMAIN q : q[n] \in S}
           R == {n \in DOMAIN r : r[n] \in S}
<1>1. R = P \ {k} /\ (k \in P <=> q[k] \in S)  OBVIOUS
<1>2. IsFiniteSet(P)  BY PlacesAreFinite
<1> HIDE DEF P, R
<1>3. /\ Cardinality(R) = IF k \in P THEN Cardinality(P) - 1 ELSE Cardinality(P)
      /\ Cardinality(P) \in Nat
  BY <1>1, <1>2, FS_RemoveElement, FS_CardinalityType
<1> QED  BY <1>1, <1>3 DEF HowMany, P, R
=============================================================================
