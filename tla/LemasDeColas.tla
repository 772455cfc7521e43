---------------------------- MODULE LemasDeColas ----------------------------
(***************************************************************************)
(* Least elements, and what the operators on queues return: the types, the *)
(* elements and, for queues that repeat none, that they still repeat none. *)
(***************************************************************************)
EXTENDS Integers, SequencesExt, Filtro, TLAPS, FiniteSetTheorems, FunctionTheorems,
        SequenceTheorems

\* A set of naturals with an element has a least one.
LEMMA Minimo ==
  ASSUME NEW M \in SUBSET Nat, M # {}
  PROVE  \E m \in M : \A k \in M : m <= k
<1> DEFINE R == StrictSubsetOrdering(Nat)
           T == {0 .. m : m \in M}
<1>1. IsWellFoundedOn(R, FiniteSubsetsOf(Nat))
  BY FS_StrictSubsetOrderingWellFounded
<1>2. T \subseteq FiniteSubsetsOf(Nat)
  <2>1. \A m \in M : IsFiniteSet(0 .. m) BY FS_Interval
  <2>2. \A m \in M : 0 .. m \subseteq Nat OBVIOUS
  <2> QED BY <2>1, <2>2 DEF FiniteSubsetsOf
<1>3. T # {}
  OBVIOUS
<1>4. PICK x \in T : \A y \in T : ~ (<<y, x>> \in R)
  <2> HIDE DEF R, T
  <2> QED BY <1>1, <1>2, <1>3, WFMin
<1>5. PICK m \in M : x = 0 .. m
  OBVIOUS
<1>6. ASSUME NEW k \in M, k < m PROVE FALSE
  <2>1. 0 .. k \subseteq 0 .. m /\ 0 .. k # 0 .. m
    BY <1>6
  <2>2. <<0 .. k, 0 .. m>> \in R
    BY <2>1 DEF StrictSubsetOrdering
  <2> QED BY <2>2, <1>4, <1>5
<1> QED BY <1>5, <1>6

\* Min is an element of a set of naturals that has one.
LEMMA MinTipo ==
  ASSUME NEW M \in SUBSET Nat, M # {}
  PROVE  Min(M) \in M
BY Minimo DEF Min

\* A set of positions is finite, and so are its subsets.
LEMMA Posiciones ==
  ASSUME NEW L \in Nat, NEW K \in SUBSET (1 .. L)
  PROVE  IsFiniteSet(K) /\ Cardinality(K) \in Nat
<1>1. IsFiniteSet(1 .. L) BY FS_Interval
<1>2. IsFiniteSet(K) BY <1>1, FS_Subset
<1> QED BY <1>2, FS_CardinalityType

\* Each rank of a finite set of positions is the rank of one of them.
LEMMA Rango ==
  ASSUME NEW L \in Nat, NEW K \in SUBSET (1 .. L), NEW n \in 1 .. Cardinality(K)
  PROVE  \E i \in K : Cardinality({j \in K : j <= i}) = n
<1> DEFINE J(m) == {j \in K : j <= m}
           C(m) == Cardinality(J(m))
           M == {m \in 0 .. L : C(m) >= n}
<1>0. \A j \in K : j \in Nat /\ 1 <= j /\ j <= L
  OBVIOUS
<1>1. Cardinality(K) \in Nat /\ n \in Nat /\ n >= 1
  BY Posiciones
<1>2. \A m \in Nat : IsFiniteSet(J(m)) /\ C(m) \in Nat
  BY Posiciones
<1>3. J(L) = K /\ J(0) = {}
  <2>1. \A j \in K : j <= L BY <1>0
  <2>2. \A j \in K : ~(j <= 0) BY <1>0
  <2>3. J(L) = K BY <2>1, Zenon
  <2>4. J(0) = {} BY <2>2, Zenon
  <2> QED BY <2>3, <2>4
<1>4. C(L) >= n /\ C(0) = 0
  BY <1>1, <1>3, FS_EmptySet
<1>5. L \in M
  BY <1>4
<1>6. PICK m \in M : \A k \in M : m <= k
  <2>1. M \subseteq 0 .. L /\ 0 .. L \subseteq Nat OBVIOUS
  <2>2. M \in SUBSET Nat /\ M # {}
    <3> HIDE DEF M
    <3> QED BY <1>5, <2>1
  <2> HIDE DEF M
  <2> QED BY <2>2, Minimo
<1>7. m \in Nat /\ m # 0 /\ C(m) >= n
  <2>1. m \in 0 .. L /\ C(m) >= n OBVIOUS
  <2> HIDE DEF C
  <2> QED BY <2>1, <1>1, <1>4
<1>8. m - 1 \in 0 .. L /\ m - 1 \notin M
  <2>1. m \in 0 .. L OBVIOUS
  <2>2. m - 1 \in 0 .. L BY <2>1, <1>7
  <2> HIDE DEF M
  <2> QED BY <2>2, <1>6, <1>7
<1>9. C(m - 1) < n /\ C(m - 1) \in Nat
  <2>1. ~(C(m - 1) >= n) BY <1>8
  <2>2. m - 1 \in Nat BY <1>8
  <2>3. C(m - 1) \in Nat BY <2>2, <1>2
  <2> HIDE DEF C
  <2> QED BY <1>1, <2>1, <2>3
<1>10. m \in K
  <2>1. SUFFICES ASSUME m \notin K PROVE FALSE OBVIOUS
  <2>2. \A j \in K : j <= m <=> j <= m - 1 BY <2>1, <1>0, <1>7
  <2> J(m) = J(m - 1) BY <2>2, Zenon
  <2>3. C(m) = C(m - 1) OBVIOUS
  <2> HIDE DEF C
  <2> QED BY <2>3, <1>1, <1>7, <1>9
<1>11. J(m) = J(m - 1) \cup {m} /\ m \notin J(m - 1)
  <2>1. \A j \in K : j <= m <=> j <= m - 1 \/ j = m BY <1>0, <1>7
  <2>2. ~(m <= m - 1) BY <1>7
  <2> QED BY <2>1, <2>2, <1>10, Zenon
<1>12. C(m) = C(m - 1) + 1
  <2>1. m - 1 \in Nat BY <1>7
  <2>2. IsFiniteSet(J(m - 1)) BY <2>1, <1>2
  <2> HIDE DEF J
  <2> QED BY <1>11, <2>2, FS_AddElement
<1>13. C(m) = n
  <2> HIDE DEF C
  <2> QED BY <1>1, <1>7, <1>9, <1>12
<1> QED BY <1>10, <1>13

\* Filtrar keeps elements of the sequence, those of the set.
LEMMA FiltrarTipo ==
  ASSUME NEW T, NEW s \in Seq(T), NEW S, NEW U, T \cap S \subseteq U
  PROVE  Filtrar(s, S) \in Seq(U)
<1> DEFINE K == {i \in DOMAIN s : s[i] \in S}
           Rk(n) == CHOOSE i \in K : Cardinality({j \in K : j <= i}) = n
<1>1. Len(s) \in Nat /\ DOMAIN s = 1 .. Len(s)
  BY LenProperties
<1>2. K \in SUBSET (1 .. Len(s))
  BY <1>1
<1>3. Cardinality(K) \in Nat
  BY <1>1, <1>2, Posiciones
<1>4. \A n \in 1 .. Cardinality(K) : Rk(n) \in K
  <2>1. ASSUME NEW n \in 1 .. Cardinality(K)
        PROVE  \E i \in K : Cardinality({j \in K : j <= i}) = n
    <3> HIDE DEF K
    <3> QED BY <1>1, <1>2, Rango
  <2> HIDE DEF K
  <2> QED BY <2>1
<1>5. \A n \in 1 .. Cardinality(K) : s[Rk(n)] \in U
  <2> SUFFICES ASSUME NEW n \in 1 .. Cardinality(K) PROVE s[Rk(n)] \in U
    OBVIOUS
  <2>1. Rk(n) \in K BY <1>4
  <2> HIDE DEF Rk
  <2> QED BY <2>1, ElementOfSeq, <1>1
<1>6. Filtrar(s, S) = [n \in 1 .. Cardinality(K) |-> s[Rk(n)]]
  BY DEF Filtrar
<1> HIDE DEF K, Rk
<1> QED BY <1>3, <1>5, <1>6

\* RemoveAt and RemoveFirst keep elements of the sequence.
LEMMA RemoveAtTipo ==
  ASSUME NEW T, NEW s \in Seq(T), NEW i \in 1 .. Len(s)
  PROVE  RemoveAt(s, i) \in Seq(T) /\ Len(RemoveAt(s, i)) = Len(s) - 1
<1> DEFINE a == SubSeq(s, 1, i - 1)
           b == SubSeq(s, i + 1, Len(s))
<1>1. Len(s) \in Nat
  OBVIOUS
<1>2. a \in Seq(T) /\ Len(a) = i - 1 /\ b \in Seq(T) /\ Len(b) = Len(s) - i
  OBVIOUS
<1>3. RemoveAt(s, i) = a \o b
  BY DEF RemoveAt
<1> HIDE DEF a, b
<1>4. a \o b \in Seq(T) /\ Len(a \o b) = Len(a) + Len(b)
  BY <1>2, ConcatProperties
<1> QED BY <1>1, <1>2, <1>3, <1>4

\* What is at each position once one is removed.
LEMMA RemoveAtEn ==
  ASSUME NEW T, NEW s \in Seq(T), NEW i \in 1 .. Len(s)
  PROVE  /\ RemoveAt(s, i) \in Seq(T) /\ Len(RemoveAt(s, i)) = Len(s) - 1
         /\ \A n \in 1 .. Len(s) - 1 : RemoveAt(s, i)[n] = IF n < i THEN s[n] ELSE s[n + 1]
<1> DEFINE a == SubSeq(s, 1, i - 1)
           b == SubSeq(s, i + 1, Len(s))
           L == Len(s)
<1>1. L \in Nat /\ i \in 1 .. L
  OBVIOUS
<1>2. /\ a \in Seq(T) /\ Len(a) = i - 1 /\ \A n \in 1 .. i - 1 : a[n] = s[n]
      /\ b \in Seq(T) /\ Len(b) = L - i /\ \A n \in 1 .. L - i : b[n] = s[n + i]
  OBVIOUS
<1>3. RemoveAt(s, i) = a \o b
  BY DEF RemoveAt
<1> HIDE DEF a, b, L
<1>4. /\ a \o b \in Seq(T) /\ Len(a \o b) = Len(a) + Len(b)
      /\ \A n \in 1 .. Len(a) + Len(b) : (a \o b)[n] = IF n <= Len(a) THEN a[n] ELSE b[n - Len(a)]
  BY <1>2, ConcatProperties
<1>5. Len(a) + Len(b) = L - 1
  BY <1>1, <1>2
<1>6. ASSUME NEW n \in 1 .. L - 1 PROVE (a \o b)[n] = IF n < i THEN s[n] ELSE s[n + 1]
  <2>1. CASE n < i
    <3>1. n <= Len(a) /\ n \in 1 .. i - 1
      BY <2>1, <1>1, <1>2
    <3> QED BY <3>1, <2>1, <1>2, <1>4, <1>5
  <2>2. CASE ~(n < i)
    <3> DEFINE m == n - (i - 1)
    <3>1. ~(n <= Len(a)) /\ m \in 1 .. L - i /\ m + i = n + 1 /\ n - Len(a) = m
      BY <2>2, <1>1, <1>2
    <3> HIDE DEF m
    <3>2. b[m] = s[m + i]
      BY <3>1, <1>2
    <3> QED BY <3>1, <3>2, <2>2, <1>4, <1>5
  <2> QED BY <2>1, <2>2
<1> QED BY <1>3, <1>4, <1>5, <1>6 DEF L

\* RemoveFirst keeps elements of the sequence.
LEMMA RemoveFirstTipo ==
  ASSUME NEW T, NEW s \in Seq(T), NEW e
  PROVE  RemoveFirst(s, e) \in Seq(T)
<1> DEFINE I == {i \in 1 .. Len(s) : s[i] = e}
<1>1. CASE I # {}
  <2>1. I \in SUBSET Nat
    OBVIOUS
  <2>2. Min(I) \in I
    BY <1>1, <2>1, MinTipo
  <2>3. RemoveFirst(s, e) = RemoveAt(s, Min(I))
    BY <1>1 DEF RemoveFirst, SelectInSeq
  <2> QED BY <2>2, <2>3, RemoveAtTipo
<1>2. CASE I = {}
  BY <1>2 DEF RemoveFirst
<1> QED BY <1>1, <1>2

\* A sequence whose elements are in U.
LEMMA SeqDe ==
  ASSUME NEW T, NEW U, NEW s \in Seq(T), \A i \in 1 .. Len(s) : s[i] \in U
  PROVE  s \in Seq(U)
OBVIOUS

-----------------------------------------------------------------------------
(* Queues that repeat no element *)

\* Filtrar adds no element, and repeats none when the queue does not.
LEMMA FiltrarSinRepetir ==
  ASSUME NEW T, NEW s \in Seq(T), NEW S
  PROVE  /\ ToSet(Filtrar(s, S)) \subseteq ToSet(s)
         /\ IsInjective(s) => IsInjective(Filtrar(s, S))
<1> DEFINE K == {i \in DOMAIN s : s[i] \in S}
           Rk(n) == CHOOSE i \in K : Cardinality({j \in K : j <= i}) = n
           C == Cardinality(K)
<1>1. Len(s) \in Nat /\ DOMAIN s = 1 .. Len(s)
  BY LenProperties
<1>2. K \in SUBSET (1 .. Len(s)) /\ C \in Nat
  BY <1>1, Posiciones
<1>3. \A n \in 1 .. C : Rk(n) \in K /\ Cardinality({j \in K : j <= Rk(n)}) = n
  <2> SUFFICES ASSUME NEW n \in 1 .. C
               PROVE  \E i \in K : Cardinality({j \in K : j <= i}) = n
    <3> HIDE DEF K
    <3> QED OBVIOUS
  <2> HIDE DEF K
  <2> QED BY <1>1, <1>2, Rango
<1>4. Filtrar(s, S) = [n \in 1 .. C |-> s[Rk(n)]]
  BY DEF Filtrar
<1>5. K \subseteq DOMAIN s
  OBVIOUS
<1> HIDE DEF K, C
<1>6. \A n, m \in 1 .. C : Rk(n) = Rk(m) => n = m
  BY ZenonT(30), <1>3
<1> HIDE DEF Rk
<1>7. ToSet(Filtrar(s, S)) \subseteq ToSet(s)
  BY <1>3, <1>4, <1>5 DEF ToSet
<1>8. ASSUME IsInjective(s) PROVE IsInjective(Filtrar(s, S))
  <2>1. DOMAIN Filtrar(s, S) = 1 .. C /\ \A n \in 1 .. C : Filtrar(s, S)[n] = s[Rk(n)]
    BY <1>4
  <2>2. ASSUME NEW a \in 1 .. C, NEW b \in 1 .. C, s[Rk(a)] = s[Rk(b)] PROVE a = b
    <3>1. Rk(a) \in DOMAIN s /\ Rk(b) \in DOMAIN s
      BY <1>3, <1>5
    <3>2. Rk(a) = Rk(b)
      BY <3>1, <2>2, <1>8 DEF IsInjective
    <3> QED BY <3>2, <1>6
  <2>3. SUFFICES ASSUME NEW a \in 1 .. C, NEW b \in 1 .. C,
                        Filtrar(s, S)[a] = Filtrar(s, S)[b]
                 PROVE  a = b
    BY <2>1, Zenon DEF IsInjective
  <2>4. s[Rk(a)] = s[Rk(b)]
    BY <2>1, <2>3
  <2> QED BY <2>2, <2>4
<1> QED BY <1>7, <1>8

\* The elements of a finite set, each of them once.
LEMMA SetToSeqTipo ==
  ASSUME NEW S, IsFiniteSet(S)
  PROVE  SetToSeq(S) \in Seq(S) /\ IsInjective(SetToSeq(S)) /\ ToSet(SetToSeq(S)) = S
<1> DEFINE n == Cardinality(S)
           f == SetToSeq(S)
<1>1. n \in Nat /\ ExistsBijection(1 .. n, S)
  BY FS_CardinalityType
<1>2. PICK g : g \in Bijection(1 .. n, S)
  BY <1>1 DEF ExistsBijection
<1>3. g \in [1 .. n -> S] /\ IsInjective(g)
  BY <1>2 DEF Bijection, Injection
<1>4. f \in [1 .. n -> S] /\ IsInjective(f)
  BY <1>3 DEF SetToSeq
<1> HIDE DEF f
<1>5. f \in Injection(1 .. n, S)
  BY <1>4 DEF Injection
<1>6. f \in Surjection(1 .. n, S)
  <2>1. Cardinality(1 .. n) = n
    BY <1>1, FS_Interval
  <2> QED BY <2>1, <1>5, FS_Injection
<1>7. ToSet(f) = S
  BY <1>4, <1>6 DEF ToSet, Surjection
<1>8. f \in Seq(S)
  BY <1>1, <1>4
<1> QED BY <1>4, <1>7, <1>8 DEF f

\* Two queues one after the other: the elements of both, none of them twice when the
\* queues share none.
LEMMA ConcatSinRepetir ==
  ASSUME NEW T, NEW s \in Seq(T), NEW t \in Seq(T)
  PROVE  /\ s \o t \in Seq(T) /\ ToSet(s \o t) = ToSet(s) \cup ToSet(t)
         /\ IsInjective(s) /\ IsInjective(t) /\ ToSet(s) \cap ToSet(t) = {}
              => IsInjective(s \o t)
<1> DEFINE u == s \o t
           L == Len(s)
           M == Len(t)
<1>1. L \in Nat /\ M \in Nat /\ DOMAIN s = 1 .. L /\ DOMAIN t = 1 .. M
  OBVIOUS
<1>2. /\ u \in Seq(T) /\ Len(u) = L + M /\ DOMAIN u = 1 .. L + M
      /\ \A i \in 1 .. L + M : u[i] = IF i <= L THEN s[i] ELSE t[i - L]
  BY ConcatProperties
<1> HIDE DEF u
<1>3. ToSet(u) = ToSet(s) \cup ToSet(t)
  <2>1. ASSUME NEW x \in ToSet(u) PROVE x \in ToSet(s) \cup ToSet(t)
    <3>1. PICK i \in 1 .. L + M : x = u[i]
      BY <1>2 DEF ToSet
    <3>2. CASE i <= L
      BY <3>1, <3>2, <1>1, <1>2 DEF ToSet
    <3>3. CASE ~(i <= L)
      <4>1. i - L \in 1 .. M
        BY <3>1, <3>3, <1>1
      <4> QED BY <3>1, <3>3, <4>1, <1>1, <1>2 DEF ToSet
    <3> QED BY <3>2, <3>3
  <2>2. ASSUME NEW x \in ToSet(s) PROVE x \in ToSet(u)
    <3>1. PICK i \in 1 .. L : x = s[i]
      BY <1>1 DEF ToSet
    <3>2. i \in 1 .. L + M /\ u[i] = x
      BY <3>1, <1>1, <1>2
    <3> QED BY <3>2, <1>2 DEF ToSet
  <2>3. ASSUME NEW x \in ToSet(t) PROVE x \in ToSet(u)
    <3>1. PICK i \in 1 .. M : x = t[i]
      BY <1>1 DEF ToSet
    <3> DEFINE k == i + L
    <3>2. k \in 1 .. L + M /\ ~(k <= L) /\ k - L = i
      BY <1>1
    <3> HIDE DEF k
    <3>3. u[k] = IF k <= L THEN s[k] ELSE t[k - L]
      BY <3>2, <1>2, Zenon
    <3>4. u[k] = x
      BY <3>1, <3>2, <3>3, Zenon
    <3>5. k \in DOMAIN u
      BY <3>2, <1>2, Zenon
    <3> QED BY <3>4, <3>5, Zenon DEF ToSet
  <2> QED BY <2>1, <2>2, <2>3
<1>4. ASSUME IsInjective(s), IsInjective(t), ToSet(s) \cap ToSet(t) = {}
      PROVE  IsInjective(u)
  <2>1. \A i \in 1 .. L : s[i] \in ToSet(s)
    BY <1>1 DEF ToSet
  <2>2. \A i \in 1 .. M : t[i] \in ToSet(t)
    BY <1>1 DEF ToSet
  <2>3. \A i \in 1 .. L, j \in 1 .. M : s[i] # t[j]
    BY <2>1, <2>2, <1>4
  <2> SUFFICES ASSUME NEW i \in 1 .. L + M, NEW j \in 1 .. L + M, u[i] = u[j] PROVE i = j
    BY <1>2 DEF IsInjective
  <2>4. CASE i <= L /\ j <= L
    <3>1. i \in 1 .. L /\ j \in 1 .. L /\ s[i] = s[j]
      BY <2>4, <1>1, <1>2
    <3> QED BY <3>1, <1>1, <1>4 DEF IsInjective
  <2>5. CASE ~(i <= L) /\ ~(j <= L)
    <3>1. i - L \in 1 .. M /\ j - L \in 1 .. M /\ t[i - L] = t[j - L]
      BY <2>5, <1>1, <1>2
    <3>2. i - L = j - L
      BY <3>1, <1>1, <1>4 DEF IsInjective
    <3> QED BY <3>2, <1>1
  <2>6. CASE i <= L /\ ~(j <= L)
    <3>1. i \in 1 .. L /\ j - L \in 1 .. M /\ s[i] = t[j - L]
      BY <2>6, <1>1, <1>2
    <3> QED BY <3>1, <2>3
  <2>7. CASE ~(i <= L) /\ j <= L
    <3>1. j \in 1 .. L /\ i - L \in 1 .. M /\ s[j] = t[i - L]
      BY <2>7, <1>1, <1>2
    <3> QED BY <3>1, <2>3
  <2> QED BY <2>4, <2>5, <2>6, <2>7
<1> QED BY <1>2, <1>3, <1>4 DEF u

\* One more element at the end.
LEMMA AlFinal ==
  ASSUME NEW T, NEW s \in Seq(T), NEW e \in T
  PROVE  /\ s \o SetToSeq({e}) \in Seq(T) /\ ToSet(s \o SetToSeq({e})) = ToSet(s) \cup {e}
         /\ IsInjective(s) /\ e \notin ToSet(s) => IsInjective(s \o SetToSeq({e}))
<1>1. IsFiniteSet({e})
  BY FS_Singleton
<1>2. /\ SetToSeq({e}) \in Seq({e}) /\ IsInjective(SetToSeq({e}))
      /\ ToSet(SetToSeq({e})) = {e}
  BY <1>1, SetToSeqTipo
<1>a. SetToSeq({e}) \in Seq(T)
  BY <1>2
<1> DEFINE u == SetToSeq({e})
<1>3. u \in Seq(T) /\ IsInjective(u) /\ ToSet(u) = {e}
  BY <1>a, <1>2, Zenon
<1> HIDE DEF u
<1>4. /\ s \o u \in Seq(T) /\ ToSet(s \o u) = ToSet(s) \cup ToSet(u)
      /\ IsInjective(s) /\ IsInjective(u) /\ ToSet(s) \cap ToSet(u) = {}
           => IsInjective(s \o u)
  BY <1>3, ConcatSinRepetir
<1>5. e \notin ToSet(s) => ToSet(s) \cap ToSet(u) = {}
  BY <1>3
<1>6. ToSet(s \o u) = ToSet(s) \cup {e}
  BY <1>3, <1>4
<1> QED BY <1>3, <1>4, <1>5, <1>6 DEF u

\* The first element and the rest.
LEMMA PrimeroYResto ==
  ASSUME NEW T, NEW s \in Seq(T), s # <<>>
  PROVE  /\ Head(s) \in ToSet(s) /\ Tail(s) \in Seq(T) /\ ToSet(Tail(s)) \subseteq ToSet(s)
         /\ IsInjective(s) => IsInjective(Tail(s)) /\ Head(s) \notin ToSet(Tail(s))
<1>1. Len(s) \in Nat \ {0} /\ DOMAIN s = 1 .. Len(s) /\ Head(s) = s[1]
  OBVIOUS
<1>2. /\ Tail(s) \in Seq(T) /\ Len(Tail(s)) = Len(s) - 1
      /\ \A i \in 1 .. Len(s) - 1 : Tail(s)[i] = s[i + 1]
  BY HeadTailProperties
<1>3. DOMAIN Tail(s) = 1 .. Len(s) - 1
  BY <1>2
<1>4. Head(s) \in ToSet(s)
  BY <1>1 DEF ToSet
<1>5. \A i \in 1 .. Len(s) - 1 : i + 1 \in 1 .. Len(s) /\ i + 1 # 1
  BY <1>1
<1>6. ToSet(Tail(s)) \subseteq ToSet(s)
  BY <1>1, <1>2, <1>3, <1>5 DEF ToSet
<1>7. ASSUME IsInjective(s) PROVE IsInjective(Tail(s)) /\ Head(s) \notin ToSet(Tail(s))
  <2>1. Head(s) \notin ToSet(Tail(s))
    BY <1>1, <1>2, <1>3, <1>5, <1>7 DEF ToSet, IsInjective
  <2>2. ASSUME NEW i \in 1 .. Len(s) - 1, NEW j \in 1 .. Len(s) - 1, Tail(s)[i] = Tail(s)[j]
        PROVE  i = j
    <3>1. i + 1 = j + 1
      BY <2>2, <1>1, <1>2, <1>5, <1>7 DEF IsInjective
    <3> QED BY <3>1
  <2> QED BY <2>1, <2>2, <1>3 DEF IsInjective
<1> QED BY <1>2, <1>4, <1>6, <1>7

-----------------------------------------------------------------------------
(* Queues that keep the order of another *)

\* t has some of the elements of s, in the order of s.
Subcola(t, s) ==
  \E f \in [DOMAIN t -> DOMAIN s] :
    /\ \A i, j \in DOMAIN t : i < j => f[i] < f[j]
    /\ \A i \in DOMAIN t : t[i] = s[f[i]]

\* No element of H is twice in s.
UnaVez(s, H) == \A i, j \in DOMAIN s : s[i] = s[j] /\ s[i] \in H => i = j

\* What a queue that keeps the order of another takes from it.
LEMMA SubcolaHereda ==
  ASSUME NEW T, NEW s \in Seq(T), NEW t \in Seq(T), Subcola(t, s), NEW H
  PROVE  ToSet(t) \subseteq ToSet(s) /\ (UnaVez(s, H) => UnaVez(t, H))
<1>1. PICK f \in [DOMAIN t -> DOMAIN s] :
        /\ \A i, j \in DOMAIN t : i < j => f[i] < f[j]
        /\ \A i \in DOMAIN t : t[i] = s[f[i]]
  BY DEF Subcola
<1>2. DOMAIN t \subseteq Nat /\ DOMAIN s \subseteq Nat
  OBVIOUS
<1>3. ToSet(t) \subseteq ToSet(s)
  BY <1>1 DEF ToSet
<1>4. ASSUME UnaVez(s, H), NEW i \in DOMAIN t, NEW j \in DOMAIN t, t[i] = t[j], t[i] \in H
      PROVE  i = j
  <2>1. f[i] = f[j]
    BY <1>1, <1>4 DEF UnaVez
  <2>2. f[i] \in Nat /\ f[j] \in Nat /\ i \in Nat /\ j \in Nat
    BY <1>1, <1>2
  <2>3. ~(i < j) /\ ~(j < i)
    BY <1>1, <2>1, <2>2
  <2> QED BY <2>2, <2>3
<1> QED BY <1>3, <1>4 DEF UnaVez

\* A queue keeps its own order.
LEMMA SubcolaMisma ==
  ASSUME NEW s
  PROVE  Subcola(s, s)
<1> DEFINE f == [i \in DOMAIN s |-> i]
<1>1. /\ f \in [DOMAIN s -> DOMAIN s]
      /\ \A i, j \in DOMAIN s : i < j => f[i] < f[j]
      /\ \A i \in DOMAIN s : s[i] = s[f[i]]
  OBVIOUS
<1> HIDE DEF f
<1> QED BY <1>1 DEF Subcola

\* RemoveAt keeps the order, and takes away one element.
LEMMA RemoveAtSubcola ==
  ASSUME NEW T, NEW s \in Seq(T), NEW k \in 1 .. Len(s)
  PROVE  /\ Subcola(RemoveAt(s, k), s)
         /\ ToSet(s) \ {s[k]} \subseteq ToSet(RemoveAt(s, k))
         /\ \A H : UnaVez(s, H) /\ s[k] \in H => s[k] \notin ToSet(RemoveAt(s, k))
<1> DEFINE t == RemoveAt(s, k)
           f == [i \in DOMAIN t |-> IF i < k THEN i ELSE i + 1]
<1>1. Len(s) \in Nat /\ DOMAIN s = 1 .. Len(s) /\ k \in 1 .. Len(s)
  OBVIOUS
<1>2. /\ DOMAIN t = 1 .. Len(s) - 1
      /\ \A n \in 1 .. Len(s) - 1 : t[n] = IF n < k THEN s[n] ELSE s[n + 1]
  <2>1. /\ t \in Seq(T) /\ Len(t) = Len(s) - 1
        /\ \A n \in 1 .. Len(s) - 1 : t[n] = IF n < k THEN s[n] ELSE s[n + 1]
    BY RemoveAtEn
  <2> HIDE DEF t
  <2>2. DOMAIN t = 1 .. Len(s) - 1
    BY <2>1
  <2> QED BY <2>1, <2>2
<1> HIDE DEF t
<1>3. f \in [DOMAIN t -> DOMAIN s]
  BY <1>1, <1>2
<1>4. \A i \in DOMAIN t : f[i] = IF i < k THEN i ELSE i + 1
  OBVIOUS
<1> HIDE DEF f
<1>5. \A i, j \in DOMAIN t : i < j => f[i] < f[j]
  BY <1>1, <1>2, <1>4
<1>6. ASSUME NEW i \in DOMAIN t PROVE t[i] = s[f[i]] /\ f[i] # k
  <2>1. i \in Nat /\ i \in 1 .. Len(s) - 1
    BY <1>1, <1>2
  <2>2. CASE i < k
    BY <1>1, <1>2, <1>4, <2>1, <2>2
  <2>3. CASE ~(i < k)
    <3>1. f[i] = i + 1 /\ t[i] = s[i + 1]
      BY <1>2, <1>4, <2>1, <2>3
    <3> QED BY <1>1, <2>1, <2>3, <3>1
  <2> QED BY <2>2, <2>3
<1>7. Subcola(t, s)
  BY <1>3, <1>5, <1>6 DEF Subcola
<1>8. ASSUME NEW x \in ToSet(s) \ {s[k]} PROVE x \in ToSet(t)
  <2>1. PICK m \in 1 .. Len(s) : x = s[m] /\ m # k
    BY <1>1, <1>8 DEF ToSet
  <2>2. CASE m < k
    <3>1. m \in DOMAIN t /\ t[m] = s[m]
      BY <1>1, <1>2, <2>2
    <3> QED BY <2>1, <3>1 DEF ToSet
  <2>3. CASE ~(m < k)
    <3>1. m - 1 \in DOMAIN t /\ ~(m - 1 < k) /\ (m - 1) + 1 = m
      BY <1>1, <1>2, <2>1, <2>3
    <3>2. t[m - 1] = s[m]
      BY <1>2, <3>1
    <3> QED BY <2>1, <3>1, <3>2 DEF ToSet
  <2> QED BY <2>2, <2>3
<1>9. ASSUME NEW H, UnaVez(s, H), s[k] \in H PROVE s[k] \notin ToSet(t)
  <2>1. \A i \in DOMAIN t : s[f[i]] # s[k]
    BY <1>1, <1>3, <1>6, <1>9 DEF UnaVez
  <2> QED BY <1>6, <2>1 DEF ToSet
<1> QED BY <1>7, <1>8, <1>9 DEF t

\* list_remove_element of e: the rest stays, in order; and no e when it was there once.
LEMMA RemoveFirstSubcola ==
  ASSUME NEW T, NEW s \in Seq(T), NEW e
  PROVE  /\ RemoveFirst(s, e) \in Seq(T) /\ Subcola(RemoveFirst(s, e), s)
         /\ ToSet(s) \ {e} \subseteq ToSet(RemoveFirst(s, e))
         /\ \A H : UnaVez(s, H) /\ e \in H => e \notin ToSet(RemoveFirst(s, e))
<1> DEFINE I == {i \in 1 .. Len(s) : s[i] = e}
<1>0. RemoveFirst(s, e) \in Seq(T)
  BY RemoveFirstTipo
<1>1. CASE I # {}
  <2>1. I \in SUBSET Nat
    OBVIOUS
  <2>2. Min(I) \in I
    BY <1>1, <2>1, MinTipo
  <2>3. RemoveFirst(s, e) = RemoveAt(s, Min(I))
    BY <1>1 DEF RemoveFirst, SelectInSeq
  <2>4. Min(I) \in 1 .. Len(s) /\ s[Min(I)] = e
    BY <2>2
  <2> HIDE DEF I
  <2> QED BY <1>0, <2>3, <2>4, RemoveAtSubcola
<1>2. CASE I = {}
  <2>1. RemoveFirst(s, e) = s
    BY <1>2 DEF RemoveFirst
  <2>2. e \notin ToSet(s)
    BY <1>2 DEF ToSet
  <2> QED BY <1>0, <2>1, <2>2, SubcolaMisma
<1> QED BY <1>1, <1>2

\* list_remove_element takes one element at most.
LEMMA RemoveFirstLargo ==
  ASSUME NEW T, NEW s \in Seq(T), NEW e
  PROVE  Len(RemoveFirst(s, e)) \in Nat /\ Len(RemoveFirst(s, e)) <= Len(s)
<1> DEFINE I == {i \in 1 .. Len(s) : s[i] = e}
<1>1. CASE I # {}
  <2>1. I \in SUBSET Nat
    OBVIOUS
  <2>2. Min(I) \in I
    BY <1>1, <2>1, MinTipo
  <2>3. RemoveFirst(s, e) = RemoveAt(s, Min(I))
    BY <1>1 DEF RemoveFirst, SelectInSeq
  <2>4. Min(I) \in 1 .. Len(s)
    BY <2>2
  <2> HIDE DEF I
  <2>5. Len(RemoveAt(s, Min(I))) = Len(s) - 1
    BY <2>4, RemoveAtEn
  <2> QED BY <2>3, <2>4, <2>5
<1>2. CASE I = {}
  <2>1. RemoveFirst(s, e) = s
    BY <1>2 DEF RemoveFirst
  <2> QED BY <2>1
<1> QED BY <1>1, <1>2

\* A prefix and a suffix keep the order.
LEMMA SubSeqSubcola ==
  ASSUME NEW T, NEW s \in Seq(T), NEW k \in 0 .. Len(s)
  PROVE  /\ Subcola(SubSeq(s, 1, k), s) /\ Subcola(SubSeq(s, k + 1, Len(s)), s)
         /\ \A H : UnaVez(s, H) =>
              ToSet(SubSeq(s, 1, k)) \cap ToSet(SubSeq(s, k + 1, Len(s))) \cap H = {}
<1> DEFINE a == SubSeq(s, 1, k)
           b == SubSeq(s, k + 1, Len(s))
           L == Len(s)
<1>1. L \in Nat /\ k \in 0 .. L /\ DOMAIN s = 1 .. L
  OBVIOUS
<1>2. DOMAIN a = 1 .. k /\ \A i \in 1 .. k : a[i] = s[i]
  OBVIOUS
<1>3. DOMAIN b = 1 .. L - k /\ \A i \in 1 .. L - k : b[i] = s[i + k]
  OBVIOUS
<1> DEFINE f == [i \in DOMAIN a |-> i]
           g == [i \in DOMAIN b |-> i + k]
<1> HIDE DEF a, b, L
<1>4. /\ f \in [DOMAIN a -> DOMAIN s]
      /\ \A i, j \in DOMAIN a : i < j => f[i] < f[j]
      /\ \A i \in DOMAIN a : a[i] = s[f[i]]
  BY <1>1, <1>2
<1>5. /\ g \in [DOMAIN b -> DOMAIN s]
      /\ \A i, j \in DOMAIN b : i < j => g[i] < g[j]
      /\ \A i \in DOMAIN b : b[i] = s[g[i]]
  BY <1>1, <1>3
<1>6. ASSUME NEW H, UnaVez(s, H), NEW x \in H, x \in ToSet(a), x \in ToSet(b) PROVE FALSE
  <2>1. PICK i \in 1 .. k : x = s[i]
    BY <1>2, <1>6 DEF ToSet
  <2>2. PICK j \in 1 .. L - k : x = s[j + k]
    BY <1>3, <1>6 DEF ToSet
  <2>3. i \in DOMAIN s /\ j + k \in DOMAIN s /\ i # j + k
    BY <1>1
  <2> QED BY <1>6, <2>1, <2>2, <2>3 DEF UnaVez
<1> HIDE DEF f, g
<1>7. Subcola(a, s) /\ Subcola(b, s)
  BY <1>4, <1>5 DEF Subcola
<1> QED BY <1>6, <1>7 DEF a, b, L

\* The first out of the queue, the rest in order.
LEMMA TailSubcola ==
  ASSUME NEW T, NEW s \in Seq(T), s # <<>>
  PROVE  /\ Subcola(Tail(s), s) /\ ToSet(s) = {Head(s)} \cup ToSet(Tail(s))
         /\ \A H : UnaVez(s, H) /\ Head(s) \in H => Head(s) \notin ToSet(Tail(s))
<1> DEFINE t == Tail(s)
           f == [i \in DOMAIN t |-> i + 1]
<1>1. Len(s) \in Nat \ {0} /\ DOMAIN s = 1 .. Len(s) /\ Head(s) = s[1]
  OBVIOUS
<1>2. DOMAIN t = 1 .. Len(s) - 1 /\ \A i \in 1 .. Len(s) - 1 : t[i] = s[i + 1]
  <2>1. t \in Seq(T) /\ Len(t) = Len(s) - 1
    BY HeadTailProperties
  <2> QED BY <2>1, HeadTailProperties
<1> HIDE DEF t
<1>3. /\ f \in [DOMAIN t -> DOMAIN s]
      /\ \A i, j \in DOMAIN t : i < j => f[i] < f[j]
      /\ \A i \in DOMAIN t : t[i] = s[f[i]]
  BY <1>1, <1>2
<1> HIDE DEF f
<1>4. Subcola(t, s)
  BY <1>3 DEF Subcola
<1>5. ToSet(s) \subseteq {Head(s)} \cup ToSet(t)
  <2> SUFFICES ASSUME NEW k \in 1 .. Len(s), k # 1 PROVE s[k] \in ToSet(t)
    BY <1>1 DEF ToSet
  <2>1. k - 1 \in DOMAIN t /\ (k - 1) + 1 = k
    BY <1>1, <1>2
  <2>2. t[k - 1] = s[k]
    BY <1>2, <2>1
  <2> QED BY <2>1, <2>2 DEF ToSet
<1>6. {Head(s)} \cup ToSet(t) \subseteq ToSet(s)
  <2>1. 1 \in DOMAIN s
    BY <1>1
  <2> QED BY <1>1, <1>3, <2>1 DEF ToSet
<1>7. ASSUME NEW H, UnaVez(s, H), Head(s) \in H PROVE Head(s) \notin ToSet(t)
  <2>1. \A i \in 1 .. Len(s) - 1 : i + 1 \in 1 .. Len(s) /\ i + 1 # 1 /\ 1 \in 1 .. Len(s)
    BY <1>1
  <2>2. \A i \in 1 .. Len(s) - 1 : t[i] # s[1]
    BY <1>1, <1>2, <1>7, <2>1 DEF UnaVez
  <2> QED BY <1>1, <1>2, <2>2 DEF ToSet
<1> QED BY <1>4, <1>5, <1>6, <1>7 DEF t

\* The rank of a position among those of K tells the positions apart, in order.
LEMMA RangoOrdenado ==
  ASSUME NEW L \in Nat, NEW K \in SUBSET (1 .. L), NEW a \in K, NEW b \in K
  PROVE  /\ Cardinality({j \in K : j <= a}) \in 1 .. Cardinality(K)
         /\ Cardinality(K) \in Nat
         /\ Cardinality({j \in K : j <= a}) < Cardinality({j \in K : j <= b}) <=> a < b
<1> DEFINE J(m) == {j \in K : j <= m}
<1>1. \A j \in K : j \in Nat
  OBVIOUS
<1>2. IsFiniteSet(K) /\ Cardinality(K) \in Nat
  BY Posiciones
<1>3. \A m : J(m) \subseteq K
  OBVIOUS
<1>4. \A m : IsFiniteSet(J(m)) /\ Cardinality(J(m)) \in Nat /\ Cardinality(J(m)) <= Cardinality(K)
  <2> HIDE DEF J
  <2> QED BY <1>2, <1>3, FS_Subset, FS_CardinalityType
<1>5. a \in J(a)
  BY <1>1
<1>6. Cardinality(J(a)) # 0
  <2>1. J(a) # {}
    BY <1>5
  <2> HIDE DEF J
  <2> QED BY <1>4, <2>1, FS_EmptySet
<1>7. ASSUME NEW x \in K, NEW y \in K, x < y PROVE Cardinality(J(x)) < Cardinality(J(y))
  <2>1. x \in Nat /\ y \in Nat
    BY <1>1
  <2>2. J(x) \subseteq J(y)
    <3>1. \A j \in K : j <= x => j <= y
      BY <1>1, <1>7, <2>1
    <3> QED BY <3>1
  <2>3. y \in J(y) /\ y \notin J(x)
    BY <1>7, <2>1
  <2>4. J(x) # J(y)
    BY <2>3
  <2> HIDE DEF J
  <2>5. Cardinality(J(x)) <= Cardinality(J(y)) /\ Cardinality(J(x)) # Cardinality(J(y))
    BY <1>4, <2>2, <2>4, FS_Subset
  <2> QED BY <1>4, <2>5
<1>8. Cardinality(J(a)) < Cardinality(J(b)) => a < b
  <2> SUFFICES ASSUME Cardinality(J(a)) < Cardinality(J(b)), ~(a < b) PROVE FALSE
    OBVIOUS
  <2>1. a \in Nat /\ b \in Nat
    BY <1>1
  <2>2. a = b \/ b < a
    BY <2>1
  <2>3. CASE a = b
    <3> HIDE DEF J
    <3>1. Cardinality(J(a)) = Cardinality(J(b))
      BY <2>3
    <3> QED BY <1>4, <3>1
  <2>4. CASE b < a
    <3>1. Cardinality(J(b)) < Cardinality(J(a))
      BY <1>7, <2>4
    <3> HIDE DEF J
    <3> QED BY <1>4, <3>1
  <2> QED BY <2>2, <2>3, <2>4
<1>9. Cardinality(J(a)) \in 1 .. Cardinality(K)
  <2> HIDE DEF J
  <2> QED BY <1>2, <1>4, <1>6
<1> QED BY <1>2, <1>7, <1>8, <1>9

\* Filtrar keeps the order, and exactly the elements of S.
LEMMA FiltrarSubcola ==
  ASSUME NEW T, NEW s \in Seq(T), NEW S
  PROVE  Subcola(Filtrar(s, S), s) /\ ToSet(Filtrar(s, S)) = ToSet(s) \cap S
<1> DEFINE K == {i \in DOMAIN s : s[i] \in S}
           Rn(i) == Cardinality({j \in K : j <= i})
           Rk(n) == CHOOSE i \in K : Rn(i) = n
           C == Cardinality(K)
<1>1. Len(s) \in Nat /\ DOMAIN s = 1 .. Len(s)
  BY LenProperties
<1>2. K \in SUBSET (1 .. Len(s)) /\ C \in Nat
  BY <1>1, Posiciones
<1>3. \A a, b \in K : Rn(a) \in 1 .. C /\ (Rn(a) < Rn(b) <=> a < b)
  <2> HIDE DEF K
  <2> QED BY <1>1, <1>2, RangoOrdenado
<1>4. \A n \in 1 .. C : Rk(n) \in K /\ Rn(Rk(n)) = n
  <2> SUFFICES ASSUME NEW n \in 1 .. C
               PROVE  \E i \in K : Rn(i) = n
    <3> HIDE DEF K, Rn
    <3> QED OBVIOUS
  <2> HIDE DEF K
  <2> QED BY <1>1, <1>2, Rango
<1>5. Filtrar(s, S) = [n \in 1 .. C |-> s[Rk(n)]]
  BY DEF Filtrar
<1>6. K \subseteq DOMAIN s /\ \A i \in DOMAIN s : s[i] \in S <=> i \in K
  OBVIOUS
<1>7. \A i \in K : i \in Nat
  BY <1>2
<1> DEFINE t == Filtrar(s, S)
           f == [n \in 1 .. C |-> Rk(n)]
<1> HIDE DEF K, C, Rn
<1>8. /\ f \in [1 .. C -> DOMAIN s]
      /\ \A n \in 1 .. C : f[n] = Rk(n)
  BY <1>4, <1>6
<1> HIDE DEF Rk, f
<1>9. DOMAIN t = 1 .. C /\ \A n \in 1 .. C : t[n] = s[f[n]]
  BY <1>5, <1>8
<1>10. \A a, b \in 1 .. C : a < b => f[a] < f[b]
  <2> SUFFICES ASSUME NEW a \in 1 .. C, NEW b \in 1 .. C, a < b PROVE f[a] < f[b]
    OBVIOUS
  <2>1. f[a] \in K /\ f[b] \in K /\ Rn(f[a]) = a /\ Rn(f[b]) = b
    BY <1>4, <1>8
  <2> QED BY <1>3, <2>1
<1> HIDE DEF t
<1>11. Subcola(t, s)
  BY <1>8, <1>9, <1>10 DEF Subcola
<1>12. ASSUME NEW x \in ToSet(s) \cap S PROVE x \in ToSet(t)
  <2>1. PICK i \in K : x = s[i]
    BY <1>6, <1>12 DEF ToSet
  <2>2. Rn(i) \in 1 .. C
    BY <1>3
  <2> DEFINE k == f[Rn(i)]
  <2>3. k \in K /\ Rn(k) = Rn(i)
    BY <1>4, <1>8, <2>2
  <2> HIDE DEF k
  <2>4. ~(i < k) /\ ~(k < i)
    BY <1>2, <1>3, <2>2, <2>3
  <2>5. i = k
    BY <1>7, <2>3, <2>4
  <2> QED BY <1>9, <2>1, <2>2, <2>5 DEF ToSet, k
<1>13. ASSUME NEW x \in ToSet(t) PROVE x \in ToSet(s) \cap S
  <2>1. PICK n \in 1 .. C : x = s[f[n]]
    BY <1>9, <1>13 DEF ToSet
  <2>2. f[n] \in K
    BY <1>4, <1>8
  <2> QED BY <1>6, <2>1, <2>2 DEF ToSet
<1> QED BY <1>11, <1>12, <1>13 DEF t

\* Two queues one after the other repeat no element of H when neither does and they
\* share none.
LEMMA ConcatUnaVez ==
  ASSUME NEW T, NEW s \in Seq(T), NEW t \in Seq(T), NEW H,
         UnaVez(s, H), UnaVez(t, H), ToSet(s) \cap ToSet(t) \cap H = {}
  PROVE  UnaVez(s \o t, H)
<1> DEFINE u == s \o t
           L == Len(s)
           M == Len(t)
<1>1. L \in Nat /\ M \in Nat /\ DOMAIN s = 1 .. L /\ DOMAIN t = 1 .. M
  OBVIOUS
<1>2. /\ u \in Seq(T) /\ Len(u) = L + M /\ DOMAIN u = 1 .. L + M
      /\ \A i \in 1 .. L + M : u[i] = IF i <= L THEN s[i] ELSE t[i - L]
  BY ConcatProperties
<1> HIDE DEF u
<1>3. \A i \in 1 .. L : s[i] \in ToSet(s)
  BY <1>1 DEF ToSet
<1>4. \A i \in 1 .. M : t[i] \in ToSet(t)
  BY <1>1 DEF ToSet
<1>5. \A i \in 1 .. L, j \in 1 .. M : s[i] \in H => s[i] # t[j]
  BY <1>3, <1>4
<1> SUFFICES ASSUME NEW i \in 1 .. L + M, NEW j \in 1 .. L + M, u[i] = u[j], u[i] \in H
             PROVE  i = j
  BY <1>2 DEF UnaVez, u
<1>6. CASE i <= L /\ j <= L
  <2>1. i \in 1 .. L /\ j \in 1 .. L /\ s[i] = s[j] /\ s[i] \in H
    BY <1>6, <1>1, <1>2
  <2> QED BY <2>1, <1>1 DEF UnaVez
<1>7. CASE ~(i <= L) /\ ~(j <= L)
  <2>1. i - L \in 1 .. M /\ j - L \in 1 .. M /\ t[i - L] = t[j - L] /\ t[i - L] \in H
    BY <1>7, <1>1, <1>2
  <2>2. i - L = j - L
    BY <2>1, <1>1 DEF UnaVez
  <2> QED BY <2>2, <1>1
<1>8. CASE i <= L /\ ~(j <= L)
  <2>1. i \in 1 .. L /\ j - L \in 1 .. M /\ s[i] = t[j - L] /\ s[i] \in H
    BY <1>8, <1>1, <1>2
  <2> QED BY <2>1, <1>5
<1>9. CASE ~(i <= L) /\ j <= L
  <2>1. j \in 1 .. L /\ i - L \in 1 .. M /\ s[j] = t[i - L] /\ s[j] \in H
    BY <1>9, <1>1, <1>2
  <2> QED BY <2>1, <1>5
<1> QED BY <1>6, <1>7, <1>8, <1>9
=============================================================================
