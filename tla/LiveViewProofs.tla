----------------------------- MODULE LiveViewProofs -----------------------------
(***************************************************************************)
(* The browser beside the backend: types, the answers that find their       *)
(* streams, that the backend serves as it does alone, and that what is      *)
(* shown is the last value handled.                                         *)
(***************************************************************************)
EXTENDS LiveView, NodeBackendProofs

(* The ranks of a set of positions are the numbers up to its size, in the   *)
(* order of the positions.                                                  *)
LEMMA Ranks ==
  ASSUME NEW n \in Nat, NEW P \in SUBSET (1..n)
  PROVE  /\ IsFiniteSet(P) /\ Cardinality(P) \in Nat
         /\ \A i \in P : Rank(P, i) \in 1..Cardinality(P)
         /\ \A i, j \in P : i < j => Rank(P, i) < Rank(P, j)
         /\ \A m \in 1..Cardinality(P) : \E i \in P : Rank(P, i) = m
<1> DEFINE upTo(i) == {j \in P : j <= i}
<1>1. IsFiniteSet(1..n)
  BY FS_Interval
<1>2. IsFiniteSet(P) /\ Cardinality(P) \in Nat
  BY <1>1, FS_Subset, FS_CardinalityType
<1>3. ASSUME NEW i \in P
      PROVE  IsFiniteSet(upTo(i)) /\ Rank(P, i) \in 1..Cardinality(P)
  <2>1. upTo(i) \in SUBSET P /\ i \in upTo(i)
    OBVIOUS
  <2> HIDE DEF upTo
  <2>2. IsFiniteSet(upTo(i)) /\ Cardinality(upTo(i)) <= Cardinality(P)
    BY <2>1, <1>2, FS_Subset
  <2>3. Cardinality(upTo(i)) \in Nat /\ Cardinality(upTo(i)) # 0
    BY <2>1, <2>2, FS_CardinalityType, FS_EmptySet
  <2>4. Cardinality(upTo(i)) \in 1..Cardinality(P)
    BY <2>2, <2>3, <1>2
  <2> QED
    BY <2>2, <2>4 DEF Rank, upTo
<1>4. ASSUME NEW i \in P, NEW j \in P, i < j
      PROVE  Rank(P, i) < Rank(P, j)
  <2>0. (\A k \in P : k \in Nat /\ (k <= i => k <= j)) /\ j <= j /\ ~ (j <= i)
    BY <1>4
  <2>1. upTo(i) \in SUBSET upTo(j) /\ j \in upTo(j) /\ j \notin upTo(i)
    BY <2>0
  <2>2. IsFiniteSet(upTo(j)) /\ IsFiniteSet(upTo(i))
    BY <1>3
  <2> HIDE DEF upTo
  <2>3. Cardinality(upTo(i)) <= Cardinality(upTo(j)) /\ Cardinality(upTo(i)) # Cardinality(upTo(j))
    BY <2>1, <2>2, FS_Subset
  <2>4. Cardinality(upTo(i)) \in Nat /\ Cardinality(upTo(j)) \in Nat
    BY <2>2, FS_CardinalityType
  <2>5. Cardinality(upTo(i)) < Cardinality(upTo(j))
    BY <2>3, <2>4
  <2> QED
    BY <2>5 DEF Rank, upTo
<1>5. ASSUME NEW m \in 1..Cardinality(P)
      PROVE  \E i \in P : Rank(P, i) = m
  <2> DEFINE f == [i \in P |-> Rank(P, i)]
             N == 1..Cardinality(P)
  <2>1. f \in Injection(P, N)
    <3>1. f \in [P -> N]
      BY <1>3
    <3>2. ASSUME NEW i \in P, NEW j \in P, f[i] = f[j] PROVE i = j
      <4>0. Rank(P, i) \in 1..Cardinality(P) /\ i \in 1..n /\ j \in 1..n
        BY <1>3
      <4>1. i \in Nat /\ j \in Nat /\ Rank(P, i) = Rank(P, j) /\ Rank(P, i) \in Nat
        BY <4>0, <3>2
      <4>2. ~ (i < j) /\ ~ (j < i)
        BY <4>1, <1>4
      <4> QED
        BY <4>1, <4>2
    <3> QED
      BY <3>1, <3>2 DEF Injection, IsInjective
  <2>2. IsFiniteSet(N) /\ Cardinality(N) = Cardinality(P)
    BY <1>2, FS_Interval
  <2>3. f \in Surjection(P, N)
    <3> HIDE DEF f, N
    <3> QED
      BY <2>1, <2>2, FS_Injection
  <2>4. \A k \in N : \E i \in P : f[i] = k
    <3> HIDE DEF f, N
    <3> QED
      BY <2>3 DEF Surjection
  <2> QED
    BY <2>4
<1> QED
  BY <1>2, <1>3, <1>4, <1>5

(* What stands at a position stands in the subsequence at its rank.         *)
LEMMA SubsequenceElements ==
  ASSUME NEW S, NEW q \in Seq(S), NEW P \in SUBSET (DOMAIN q)
  PROVE  /\ Subsequence(q, P) \in Seq(S) /\ Len(Subsequence(q, P)) = Cardinality(P)
         /\ Cardinality(P) \in Nat
         /\ \A i \in P : Rank(P, i) \in 1..Cardinality(P) /\ Subsequence(q, P)[Rank(P, i)] = q[i]
         /\ \A m \in 1..Cardinality(P) : \E i \in P : Rank(P, i) = m /\ Subsequence(q, P)[m] = q[i]
<1> DEFINE f == Subsequence(q, P)
           c(m) == CHOOSE i \in P : Rank(P, i) = m
<1>1. P \in SUBSET (1..Len(q)) /\ Len(q) \in Nat /\ DOMAIN q = 1..Len(q)
  OBVIOUS
<1>2. /\ Cardinality(P) \in Nat
      /\ \A i \in P : Rank(P, i) \in 1..Cardinality(P)
      /\ \A i, j \in P : i < j => Rank(P, i) < Rank(P, j)
      /\ \A m \in 1..Cardinality(P) : \E i \in P : Rank(P, i) = m
  BY <1>1, Ranks
<1>3. \A m \in 1..Cardinality(P) : c(m) \in P /\ Rank(P, c(m)) = m
  BY <1>2
<1>4. \A i \in P : c(Rank(P, i)) = i
  <2> SUFFICES ASSUME NEW i \in P PROVE c(Rank(P, i)) = i
    OBVIOUS
  <2> DEFINE j == c(Rank(P, i))
  <2>1. j \in P /\ Rank(P, j) = Rank(P, i) /\ Rank(P, i) \in Nat /\ i \in Nat /\ j \in Nat
    BY <1>1, <1>2, <1>3
  <2> HIDE DEF j
  <2>2. ~ (i < j) /\ ~ (j < i)
    BY <2>1, <1>2
  <2>3. i = j
    BY <2>1, <2>2
  <2> QED
    BY <2>3 DEF j
<1>5. f = [m \in 1..Cardinality(P) |-> q[c(m)]]
  BY DEF Subsequence
<1> HIDE DEF c, f
<1>6. \A m \in 1..Cardinality(P) : q[c(m)] \in S
  BY <1>1, <1>3
<1>7. f \in Seq(S) /\ Len(f) = Cardinality(P)
  BY <1>2, <1>5, <1>6
<1>8. \A i \in P : f[Rank(P, i)] = q[i]
  BY <1>2, <1>4, <1>5
<1>9. \A m \in 1..Cardinality(P) : \E i \in P : Rank(P, i) = m /\ f[m] = q[i]
  BY <1>3, <1>5
<1> QED
  BY <1>2, <1>7, <1>8, <1>9 DEF f

(* It is the only sequence of that length in which they stand so.           *)
LEMMA SubsequenceIs ==
  ASSUME NEW S, NEW q \in Seq(S), NEW P \in SUBSET (DOMAIN q), NEW f \in Seq(S),
         Len(f) = Cardinality(P), \A i \in P : f[Rank(P, i)] = q[i]
  PROVE  f = Subsequence(q, P)
<1> DEFINE g == Subsequence(q, P)
<1>1. /\ g \in Seq(S) /\ Len(g) = Cardinality(P) /\ Cardinality(P) \in Nat
      /\ \A m \in 1..Cardinality(P) : \E i \in P : Rank(P, i) = m /\ g[m] = q[i]
  BY SubsequenceElements
<1> HIDE DEF g
<1>2. \A m \in 1..Cardinality(P) : f[m] = g[m]
  BY <1>1
<1>3. f = g
  BY <1>1, <1>2, SeqEqual
<1> QED
  BY <1>3 DEF g

(* The positions of a sequence that n elements were put in front of.        *)
Shifted(n, K) == {n + k : k \in K}

(* Positions of a sequence of n elements and of one put behind it.          *)
Joint(P, n, K) == P \cup Shifted(n, K)

(* Positions behind others have the ranks behind theirs.                    *)
LEMMA RanksBehind ==
  ASSUME NEW n \in Nat, NEW P \in SUBSET (1..n), NEW m \in Nat, NEW K \in SUBSET (1..m)
  PROVE  LET Q == Joint(P, n, K)
         IN  /\ Cardinality(Q) = Cardinality(P) + Cardinality(K)
             /\ \A i \in P : Rank(Q, i) = Rank(P, i)
             /\ \A k \in K : Rank(Q, n + k) = Cardinality(P) + Rank(K, k)
<1> DEFINE Q == P \cup Shifted(n, K)
<1>1. IsFiniteSet(P) /\ IsFiniteSet(K)
  BY Ranks
<1>2. ASSUME NEW J \in SUBSET K
      PROVE  Cardinality(P \cup Shifted(n, J)) = Cardinality(P) + Cardinality(J)
  <2> DEFINE f == [k \in J |-> n + k]
  <2>1. \A k \in J : k \in Nat /\ k > 0
    OBVIOUS
  <2>2. f \in Bijection(J, Shifted(n, J))
    BY <2>1 DEF Shifted, Bijection, Injection, Surjection, IsInjective
  <2>3. IsFiniteSet(J)
    BY <1>1, FS_Subset
  <2>4. P \cap Shifted(n, J) = {}
    BY <2>1 DEF Shifted
  <2>5. IsFiniteSet(Shifted(n, J)) /\ Cardinality(Shifted(n, J)) = Cardinality(J)
    BY <2>2, <2>3, FS_Bijection DEF ExistsBijection
  <2>6. Cardinality(P \cup Shifted(n, J)) = Cardinality(P) + Cardinality(Shifted(n, J)) - Cardinality({})
    BY <2>4, <2>5, <1>1, FS_Union
  <2>7. Cardinality(P) \in Nat /\ Cardinality(J) \in Nat
    BY <1>1, <2>3, FS_CardinalityType
  <2> QED
    BY <2>5, <2>6, <2>7, FS_EmptySet
<1>3. ASSUME NEW i \in P PROVE Rank(Q, i) = Rank(P, i)
  <2>1. i \in 1..n /\ \A k \in K : k \in Nat /\ k > 0
    OBVIOUS
  <2>2. {j \in Q : j <= i} = {j \in P : j <= i}
    BY <2>1 DEF Shifted
  <2> QED
    BY <2>2 DEF Rank
<1>4. ASSUME NEW k \in K PROVE Rank(Q, n + k) = Cardinality(P) + Rank(K, k)
  <2> DEFINE J == {j \in K : j <= k}
  <2>1. (\A i \in P : i \in 1..n) /\ \A j \in K : j \in Nat /\ j > 0
    OBVIOUS
  <2>2. {j \in Q : j <= n + k} = P \cup Shifted(n, J)
    <3>1. \A i \in P : i <= n + k
      BY <2>1
    <3>2. \A j \in K : n + j <= n + k <=> j <= k
      BY <2>1
    <3> QED
      BY <3>1, <3>2 DEF Shifted
  <2>3. J \in SUBSET K
    OBVIOUS
  <2> HIDE DEF J
  <2>4. Cardinality(P \cup Shifted(n, J)) = Cardinality(P) + Cardinality(J)
    BY <2>3, <1>2
  <2> QED
    BY <2>2, <2>4 DEF Rank, J
<1>5. Cardinality(Q) = Cardinality(P) + Cardinality(K)
  BY <1>2
<1> QED
  BY <1>3, <1>4, <1>5 DEF Joint

(* Positions of a sequence.                                                 *)
Chosen(S, q, P) == q \in Seq(S) /\ P \in SUBSET (DOMAIN q)

LEMMA SubsequenceConcat ==
  ASSUME NEW S, NEW q, NEW P, Chosen(S, q, P), NEW t, NEW K, Chosen(S, t, K)
  PROVE  Subsequence(q \o t, Joint(P, Len(q), K)) = Subsequence(q, P) \o Subsequence(t, K)
<1> q \in Seq(S) /\ t \in Seq(S) /\ P \in SUBSET (DOMAIN q) /\ K \in SUBSET (DOMAIN t)
  BY DEF Chosen
<1> DEFINE n == Len(q)
           Q == Joint(P, n, K)
           f == Subsequence(q, P)
           g == Subsequence(t, K)
<1>1. /\ n \in Nat /\ Len(t) \in Nat /\ P \in SUBSET (1..n) /\ K \in SUBSET (1..Len(t))
      /\ DOMAIN q = 1..n /\ DOMAIN t = 1..Len(t)
  OBVIOUS
<1>2. /\ Cardinality(Q) = Cardinality(P) + Cardinality(K)
      /\ \A i \in P : Rank(Q, i) = Rank(P, i)
      /\ \A k \in K : Rank(Q, n + k) = Cardinality(P) + Rank(K, k)
  <2> HIDE DEF n
  <2> QED
    BY <1>1, RanksBehind
<1>3. /\ f \in Seq(S) /\ Len(f) = Cardinality(P) /\ Cardinality(P) \in Nat
      /\ \A i \in P : Rank(P, i) \in 1..Cardinality(P) /\ f[Rank(P, i)] = q[i]
  BY SubsequenceElements
<1>4. /\ g \in Seq(S) /\ Len(g) = Cardinality(K) /\ Cardinality(K) \in Nat
      /\ \A k \in K : Rank(K, k) \in 1..Cardinality(K) /\ g[Rank(K, k)] = t[k]
  BY SubsequenceElements
<1>5. /\ q \o t \in Seq(S) /\ DOMAIN (q \o t) = 1..(n + Len(t))
      /\ \A i \in 1..n : (q \o t)[i] = q[i]
      /\ \A k \in 1..Len(t) : (q \o t)[n + k] = t[k]
  BY <1>1, ConcatProperties
<1> HIDE DEF f, g, n
<1>6. Q \in SUBSET (DOMAIN (q \o t))
  <2>1. (\A i \in P : i \in 1..(n + Len(t))) /\ \A k \in K : n + k \in 1..(n + Len(t))
    BY <1>1
  <2> QED
    BY <2>1, <1>5 DEF Joint, Shifted
<1>7. /\ f \o g \in Seq(S) /\ Len(f \o g) = Cardinality(Q)
      /\ \A i \in 1..Len(f) : (f \o g)[i] = f[i]
      /\ \A i \in 1..Len(g) : (f \o g)[Len(f) + i] = g[i]
  <2>1. /\ f \o g \in Seq(S) /\ Len(f \o g) = Len(f) + Len(g)
        /\ \A i \in 1..Len(f) : (f \o g)[i] = f[i]
        /\ \A i \in 1..Len(g) : (f \o g)[Len(f) + i] = g[i]
    <3>1. f \in Seq(S) /\ g \in Seq(S) /\ Len(f) \in Nat /\ Len(g) \in Nat
      BY <1>3, <1>4
    <3> QED
      BY <3>1, ConcatProperties
  <2> QED
    BY <2>1, <1>2, <1>3, <1>4
<1>8. ASSUME NEW i \in Q PROVE (f \o g)[Rank(Q, i)] = (q \o t)[i]
  <2>1. CASE i \in P
    BY <2>1, <1>1, <1>2, <1>3, <1>5, <1>7
  <2>2. ASSUME NEW k \in K, i = n + k PROVE (f \o g)[Rank(Q, i)] = (q \o t)[i]
    <3>1. Rank(Q, i) = Len(f) + Rank(K, k) /\ Rank(K, k) \in 1..Len(g) /\ g[Rank(K, k)] = t[k]
      BY <2>2, <1>2, <1>3, <1>4
    <3>2. k \in 1..Len(t)
      BY <1>1
    <3> QED
      BY <2>2, <3>1, <3>2, <1>5, <1>7
  <2> QED
    BY <2>1, <2>2 DEF Joint, Shifted
<1> HIDE DEF Q
<1>9. f \o g = Subsequence(q \o t, Q)
  BY <1>5, <1>6, <1>7, <1>8, SubsequenceIs
<1> QED
  BY <1>6, <1>9 DEF Q, f, g, n

(* Of no position nothing stands there, and of all positions the sequence.  *)
LEMMA SubsequenceNoneAll ==
  ASSUME NEW S, NEW q \in Seq(S)
  PROVE  Subsequence(q, {}) = << >> /\ Subsequence(q, DOMAIN q) = q
<1>1. Subsequence(q, {}) = << >>
  <2>1. {} \in SUBSET (DOMAIN q) /\ << >> \in Seq(S) /\ Len(<< >>) = Cardinality({})
    BY FS_EmptySet
  <2> QED
    BY <2>1, SubsequenceIs
<1>2. Subsequence(q, DOMAIN q) = q
  <2> DEFINE n == Len(q)
  <2>1. n \in Nat /\ DOMAIN q = 1..n
    OBVIOUS
  <2> HIDE DEF n
  <2>2. Cardinality(1..n) = n
    BY <2>1, FS_Interval
  <2>3. ASSUME NEW i \in 1..n PROVE Rank(1..n, i) = i
    <3>1. {j \in 1..n : j <= i} = 1..i
      BY <2>1
    <3>2. Cardinality(1..i) = i
      BY FS_Interval
    <3> QED
      BY <3>1, <3>2 DEF Rank
  <2>4. 1..n \in SUBSET (DOMAIN q) /\ Len(q) = Cardinality(1..n) /\ \A i \in 1..n : q[Rank(1..n, i)] = q[i]
    BY <2>1, <2>2, <2>3 DEF n
  <2>5. q = Subsequence(q, 1..n)
    BY <2>4, SubsequenceIs
  <2> QED
    BY <2>1, <2>5
<1> QED
  BY <1>1, <1>2

(* A position behind the others.                                            *)
Plus(P, i) == P \cup {i}

LEMMA RanksPlus ==
  ASSUME NEW n \in Nat, NEW P \in SUBSET (1..n)
  PROVE  /\ Cardinality(Plus(P, n + 1)) = Cardinality(P) + 1
         /\ \A i \in P : Rank(Plus(P, n + 1), i) = Rank(P, i)
         /\ Rank(Plus(P, n + 1), n + 1) = Cardinality(P) + 1
<1> DEFINE first == {1}
<1>1. /\ first \in SUBSET (1..1) /\ Joint(P, n, first) = Plus(P, n + 1) /\ 1 \in first
      /\ {j \in first : j <= 1} = first
  BY DEF Joint, Shifted, Plus
<1>2. Cardinality(first) = 1
  BY FS_Singleton
<1>3. Rank(first, 1) = 1
  BY <1>1, <1>2 DEF Rank
<1> HIDE DEF first
<1>4. /\ Cardinality(Joint(P, n, first)) = Cardinality(P) + Cardinality(first)
      /\ \A i \in P : Rank(Joint(P, n, first), i) = Rank(P, i)
      /\ \A k \in first : Rank(Joint(P, n, first), n + k) = Cardinality(P) + Rank(first, k)
  <2>1. 1 \in Nat /\ first \in SUBSET (1..1)
    BY <1>1
  <2> QED
    BY <2>1, RanksBehind, Zenon
<1> QED
  BY <1>1, <1>2, <1>3, <1>4

LEMMA SubsequenceAppend ==
  ASSUME NEW S, NEW q \in Seq(S), NEW P \in SUBSET (DOMAIN q), NEW x \in S
  PROVE  /\ Subsequence(Append(q, x), P) = Subsequence(q, P)
         /\ Subsequence(Append(q, x), Plus(P, Len(q) + 1)) = Append(Subsequence(q, P), x)
<1> DEFINE one == <<x>>
           front == Subsequence(q, P)
           none == {}
           first == {1}
<1>1. one \in Seq(S) /\ DOMAIN one = first /\ Append(q, x) = q \o one
  OBVIOUS
<1>2. front \in Seq(S) /\ Append(front, x) = front \o one /\ front \o << >> = front
  <2>1. front \in Seq(S)
    BY SubsequenceElements
  <2> HIDE DEF front
  <2> QED
    BY <2>1
<1>3. Subsequence(one, none) = << >> /\ Subsequence(one, first) = one
  <2> HIDE DEF one
  <2> QED
    BY <1>1, SubsequenceNoneAll
<1>4. none \in SUBSET (DOMAIN one) /\ first \in SUBSET (DOMAIN one)
  BY <1>1
<1>5. Joint(P, Len(q), none) = P /\ Joint(P, Len(q), first) = Plus(P, Len(q) + 1)
  BY DEF Joint, Shifted, Plus
<1> HIDE DEF one, front, none, first
<1>6. Chosen(S, q, P) /\ Chosen(S, one, none) /\ Chosen(S, one, first)
  BY <1>1, <1>4 DEF Chosen
<1>7. /\ Subsequence(q \o one, Joint(P, Len(q), none)) = front \o Subsequence(one, none)
      /\ Subsequence(q \o one, Joint(P, Len(q), first)) = front \o Subsequence(one, first)
  BY <1>6, SubsequenceConcat DEF front
<1> QED
  BY <1>1, <1>2, <1>3, <1>5, <1>6, <1>7 DEF front

(* The positions of the tail, counted from its own first.                   *)
Lowered(P) == {i - 1 : i \in P \ {1}}

LEMMA SubsequenceTail ==
  ASSUME NEW S, NEW q \in Seq(S), q # << >>, NEW P \in SUBSET (DOMAIN q)
  PROVE  /\ 1 \notin P => Subsequence(Tail(q), Lowered(P)) = Subsequence(q, P)
         /\ 1 \in P => /\ Subsequence(q, P) # << >> /\ Head(Subsequence(q, P)) = Head(q)
                        /\ Subsequence(Tail(q), Lowered(P)) = Tail(Subsequence(q, P))
         /\ Lowered(P) \in SUBSET (DOMAIN Tail(q))
         /\ \A i \in P \ {1} : i - 1 \in Lowered(P)
         /\ \A i \in P \ {1} : Rank(Lowered(P), i - 1) = IF 1 \in P THEN Rank(P, i) - 1 ELSE Rank(P, i)
         /\ 1 \in P => Rank(P, 1) = 1
         /\ Cardinality(Lowered(P)) = IF 1 \in P THEN Cardinality(P) - 1 ELSE Cardinality(P)
<1> DEFINE one == <<Head(q)>>
           rest == Tail(q)
           Z == Lowered(P)
           Y == P \cap {1}
<1>1. /\ one \in Seq(S) /\ Len(one) = 1 /\ DOMAIN one = {1} /\ rest \in Seq(S) /\ q = one \o rest
      /\ DOMAIN q = 1..(1 + Len(rest)) /\ Len(rest) \in Nat /\ DOMAIN rest = 1..Len(rest)
  <2>1. Head(q) \in S /\ rest \in Seq(S) /\ Len(rest) = Len(q) - 1 /\ Len(q) \in Nat
    BY HeadTailProperties
  <2>2. q = one \o rest
    OBVIOUS
  <2> QED
    BY <2>1, <2>2
<1>2. Z \in SUBSET (DOMAIN rest) /\ Y \in SUBSET (DOMAIN one) /\ Y \in SUBSET (1..1)
  <2>1. \A i \in P \ {1} : i - 1 \in 1..Len(rest)
    BY <1>1
  <2> QED
    BY <2>1, <1>1 DEF Lowered
<1>3. P = Joint(Y, 1, Z)
  <2>1. \A i \in P : i = 1 + (i - 1)
    BY <1>1
  <2>2. \A i \in P \ {1} : i \in Shifted(1, Z)
    BY <2>1 DEF Lowered, Shifted
  <2>3. \A k \in Z : 1 + k \in P
    BY <2>1 DEF Lowered, Shifted
  <2> QED
    BY <2>2, <2>3 DEF Shifted, Joint
<1> HIDE DEF one, rest, Z, Y
<1>4. Subsequence(q, P) = Subsequence(one, Y) \o Subsequence(rest, Z)
  <2>1. /\ one \in Seq(S) /\ rest \in Seq(S) /\ Z \in SUBSET (DOMAIN rest) /\ Y \in SUBSET (DOMAIN one)
        /\ q = one \o rest /\ Len(one) = 1 /\ P = Joint(Y, 1, Z)
    BY <1>1, <1>2, <1>3
  <2>2. Chosen(S, one, Y) /\ Chosen(S, rest, Z)
    BY <2>1 DEF Chosen
  <2>3. Subsequence(one \o rest, Joint(Y, Len(one), Z)) = Subsequence(one, Y) \o Subsequence(rest, Z)
    BY <2>2, SubsequenceConcat
  <2> QED
    BY <2>1, <2>3
<1>5. Subsequence(rest, Z) \in Seq(S)
  BY <1>1, <1>2, SubsequenceElements
<1>6. Subsequence(one, {}) = << >> /\ Subsequence(one, {1}) = one
  BY <1>1, SubsequenceNoneAll
<1>7. ASSUME 1 \notin P PROVE Subsequence(rest, Z) = Subsequence(q, P)
  <2>1. Y = {}
    BY <1>7 DEF Y
  <2> QED
    BY <2>1, <1>4, <1>5, <1>6
<1>8. ASSUME 1 \in P
      PROVE  /\ Subsequence(q, P) # << >> /\ Head(Subsequence(q, P)) = Head(q)
             /\ Subsequence(rest, Z) = Tail(Subsequence(q, P))
  <2>1. Y = {1}
    BY <1>8 DEF Y
  <2>2. Subsequence(q, P) = <<Head(q)>> \o Subsequence(rest, Z)
    BY <2>1, <1>4, <1>6 DEF one
  <2>3. Head(q) \in S
    BY HeadTailProperties
  <2> QED
    BY <2>2, <2>3, <1>5
<1>9. Z \in SUBSET (1..Len(rest))
  BY <1>1, <1>2
<1>0. Cardinality(Y) = IF 1 \in P THEN 1 ELSE 0
  <2>1. Y = IF 1 \in P THEN {1} ELSE {}
    BY DEF Y
  <2> QED
    BY <2>1, FS_EmptySet, FS_Singleton
<1>10. ASSUME NEW i \in P \ {1}
       PROVE  i - 1 \in Z /\ Rank(Z, i - 1) = IF 1 \in P THEN Rank(P, i) - 1 ELSE Rank(P, i)
  <2>1. i - 1 \in Z /\ i = 1 + (i - 1)
    BY <1>1 DEF Z, Lowered
  <2>2. Rank(P, 1 + (i - 1)) = Cardinality(Y) + Rank(Z, i - 1)
    <3>1. /\ 1 \in Nat /\ Y \in SUBSET (1..1) /\ Len(rest) \in Nat /\ Z \in SUBSET (1..Len(rest))
          /\ P = Joint(Y, 1, Z) /\ i - 1 \in Z
      BY <2>1, <1>1, <1>2, <1>3, <1>9
    <3> QED
      BY <3>1, RanksBehind
  <2>3. Rank(Z, i - 1) \in 1..Cardinality(Z) /\ Cardinality(Z) \in Nat
    BY <2>1, <1>1, <1>9, Ranks
  <2>4. Rank(P, i) = Cardinality(Y) + Rank(Z, i - 1)
    BY <2>1, <2>2
  <2> QED
    BY <2>1, <2>3, <2>4, <1>0
<1>11. ASSUME 1 \in P PROVE Rank(P, 1) = 1
  <2>1. {j \in P : j <= 1} = {1}
    BY <1>1, <1>11
  <2> QED
    BY <2>1, FS_Singleton DEF Rank
<1>12. Cardinality(P) = Cardinality(Y) + Cardinality(Z) /\ Cardinality(Z) \in Nat
  <2>1. /\ 1 \in Nat /\ Y \in SUBSET (1..1) /\ Len(rest) \in Nat /\ Z \in SUBSET (1..Len(rest))
        /\ P = Joint(Y, 1, Z)
    BY <1>1, <1>2, <1>3, <1>9
  <2>2. Cardinality(P) = Cardinality(Y) + Cardinality(Z)
    BY <2>1, RanksBehind
  <2> QED
    BY <2>1, <2>2, Ranks
<1>13. Cardinality(Z) = IF 1 \in P THEN Cardinality(P) - 1 ELSE Cardinality(P)
  BY <1>0, <1>12
<1> QED
  BY <1>1, <1>2, <1>7, <1>8, <1>10, <1>11, <1>13 DEF rest, Z

-----------------------------------------------------------------------------
(* The positions of the elements of a kind, and those elements.             *)
Where(q, B) == {i \in DOMAIN q : q[i] \in B}
Kept(q, B)  == Subsequence(q, Where(q, B))

LEMMA WhereChosen ==
  ASSUME NEW S, NEW q \in Seq(S), NEW B
  PROVE  /\ Where(q, B) \in SUBSET (DOMAIN q) /\ Where(q, B) \in SUBSET (1..Len(q))
         /\ Len(q) \in Nat /\ Chosen(S, q, Where(q, B))
BY DEF Where, Chosen

(* Their ranks are the positions in what is kept.                           *)
LEMMA KeptElements ==
  ASSUME NEW S, NEW q \in Seq(S), NEW B
  PROVE  /\ Kept(q, B) \in Seq(S) /\ Len(Kept(q, B)) = Cardinality(Where(q, B))
         /\ Cardinality(Where(q, B)) \in Nat
         /\ \A i \in Where(q, B) : /\ Rank(Where(q, B), i) \in 1..Cardinality(Where(q, B))
                                   /\ Kept(q, B)[Rank(Where(q, B), i)] = q[i]
         /\ \A m \in 1..Cardinality(Where(q, B)) :
              \E i \in Where(q, B) : Rank(Where(q, B), i) = m /\ Kept(q, B)[m] = q[i]
<1> DEFINE P == Where(q, B)
<1>1. P \in SUBSET (DOMAIN q)
  BY WhereChosen
<1> HIDE DEF P
<1>2. /\ Subsequence(q, P) \in Seq(S) /\ Len(Subsequence(q, P)) = Cardinality(P)
      /\ Cardinality(P) \in Nat
      /\ \A i \in P : Rank(P, i) \in 1..Cardinality(P) /\ Subsequence(q, P)[Rank(P, i)] = q[i]
      /\ \A m \in 1..Cardinality(P) : \E i \in P : Rank(P, i) = m /\ Subsequence(q, P)[m] = q[i]
  BY <1>1, SubsequenceElements
<1> QED
  BY <1>2 DEF P, Kept

LEMMA KeptAppend ==
  ASSUME NEW S, NEW q \in Seq(S), NEW B, NEW x \in S
  PROVE  /\ x \notin B => /\ Where(Append(q, x), B) = Where(q, B)
                          /\ Kept(Append(q, x), B) = Kept(q, B)
         /\ x \in B => /\ Where(Append(q, x), B) = Plus(Where(q, B), Len(q) + 1)
                       /\ Kept(Append(q, x), B) = Append(Kept(q, B), x)
                       /\ Cardinality(Where(Append(q, x), B)) = Cardinality(Where(q, B)) + 1
                       /\ \A i \in Where(q, B) :
                            Rank(Where(Append(q, x), B), i) = Rank(Where(q, B), i)
                       /\ Rank(Where(Append(q, x), B), Len(q) + 1) = Cardinality(Where(q, B)) + 1
<1> DEFINE P == Where(q, B)
           n == Len(q)
<1>1. P \in SUBSET (DOMAIN q) /\ n \in Nat /\ P \in SUBSET (1..n)
  BY WhereChosen
<1>2. DOMAIN Append(q, x) = 1..(n + 1) /\ DOMAIN q = 1..n
  BY AppendProperties, LenProperties
<1>3. Append(q, x)[n + 1] = x /\ \A i \in 1..n : Append(q, x)[i] = q[i]
  BY AppendProperties
<1>4. /\ x \notin B => Where(Append(q, x), B) = P
      /\ x \in B => Where(Append(q, x), B) = Plus(P, n + 1)
  <2>1. \A i \in 1..(n + 1) : i \in 1..n \/ i = n + 1
    BY <1>1
  <2>2. \A i \in 1..n : i \in 1..(n + 1) /\ i # n + 1
    BY <1>1
  <2>3. n + 1 \in 1..(n + 1)
    BY <1>1
  <2> HIDE DEF n
  <2> QED
    BY <2>1, <2>2, <2>3, <1>2, <1>3 DEF Where, Plus
<1> HIDE DEF P
<1>5. /\ Subsequence(Append(q, x), P) = Subsequence(q, P)
      /\ Subsequence(Append(q, x), Plus(P, Len(q) + 1)) = Append(Subsequence(q, P), x)
  BY <1>1, SubsequenceAppend
<1>6. /\ Cardinality(Plus(P, n + 1)) = Cardinality(P) + 1
      /\ \A i \in P : Rank(Plus(P, n + 1), i) = Rank(P, i)
      /\ Rank(Plus(P, n + 1), n + 1) = Cardinality(P) + 1
  <2> HIDE DEF n
  <2> QED
    BY <1>1, RanksPlus
<1>7. ASSUME x \notin B
      PROVE  Where(Append(q, x), B) = P /\ Subsequence(Append(q, x), Where(Append(q, x), B)) = Subsequence(q, P)
  BY <1>4, <1>5, <1>7
<1>8. ASSUME x \in B
      PROVE  /\ Where(Append(q, x), B) = Plus(P, n + 1)
             /\ Subsequence(Append(q, x), Where(Append(q, x), B)) = Append(Subsequence(q, P), x)
             /\ Cardinality(Where(Append(q, x), B)) = Cardinality(P) + 1
             /\ \A i \in P : Rank(Where(Append(q, x), B), i) = Rank(P, i)
             /\ Rank(Where(Append(q, x), B), n + 1) = Cardinality(P) + 1
  BY <1>4, <1>5, <1>6, <1>8
<1> QED
  BY <1>7, <1>8 DEF P, Kept

LEMMA KeptTail ==
  ASSUME NEW S, NEW q \in Seq(S), NEW B, q # << >>
  PROVE  /\ Head(q) \notin B => Kept(Tail(q), B) = Kept(q, B)
         /\ Head(q) \in B => /\ Kept(q, B) # << >> /\ Head(Kept(q, B)) = Head(q)
                             /\ Kept(Tail(q), B) = Tail(Kept(q, B))
                             /\ 1 \in Where(q, B) /\ Rank(Where(q, B), 1) = 1
         /\ \A i \in Where(Tail(q), B) :
              /\ i + 1 \in Where(q, B) /\ Tail(q)[i] = q[i + 1]
              /\ Rank(Where(Tail(q), B), i)
                   = IF Head(q) \in B THEN Rank(Where(q, B), i + 1) - 1 ELSE Rank(Where(q, B), i + 1)
         /\ Cardinality(Where(Tail(q), B))
              = IF Head(q) \in B THEN Cardinality(Where(q, B)) - 1 ELSE Cardinality(Where(q, B))
<1> DEFINE P == Where(q, B)
           t == Tail(q)
<1>1. P \in SUBSET (DOMAIN q)
  BY WhereChosen
<1>2. /\ Head(q) = q[1] /\ 1 \in DOMAIN q /\ DOMAIN q = 1..Len(q) /\ Len(q) \in Nat
      /\ DOMAIN t = 1..(Len(q) - 1) /\ \A i \in DOMAIN t : t[i] = q[i + 1]
  <2>1. /\ t \in Seq(S) /\ Len(t) = Len(q) - 1
        /\ \A i \in 1..Len(t) : t[i] = q[i + 1]
    BY HeadTailProperties
  <2>2. Len(q) \in Nat /\ Len(q) # 0 /\ DOMAIN q = 1..Len(q) /\ DOMAIN t = 1..Len(t)
    BY <2>1
  <2> QED
    BY <2>1, <2>2
<1>3. 1 \in P <=> Head(q) \in B
  BY <1>2 DEF Where
<1>4. \A i \in Where(t, B) : i \in 1..(Len(q) - 1) /\ i + 1 \in P \ {1} /\ t[i] = q[i + 1]
  <2>1. \A i \in 1..(Len(q) - 1) : i + 1 \in 1..Len(q) /\ i + 1 # 1
    BY <1>2
  <2> QED
    BY <2>1, <1>2 DEF Where
<1>5. Where(t, B) = Lowered(P)
  <2>1. \A i \in P \ {1} : i - 1 \in 1..(Len(q) - 1) /\ (i - 1) + 1 = i
    BY <1>1, <1>2
  <2>2. \A i \in P : q[i] \in B
    BY DEF Where
  <2>3. \A i \in P \ {1} : i - 1 \in Where(t, B)
    <3> HIDE DEF P, t
    <3> QED
      BY <2>1, <2>2, <1>2 DEF Where
  <2>4. \A i \in Where(t, B) : (i + 1) - 1 = i
    BY <1>4
  <2> HIDE DEF P, t
  <2> QED
    BY <2>3, <2>4, <1>4 DEF Lowered
<1> HIDE DEF P
<1>6. /\ 1 \notin P => Subsequence(Tail(q), Lowered(P)) = Subsequence(q, P)
      /\ 1 \in P => /\ Subsequence(q, P) # << >> /\ Head(Subsequence(q, P)) = Head(q)
                    /\ Subsequence(Tail(q), Lowered(P)) = Tail(Subsequence(q, P))
      /\ \A i \in P \ {1} : Rank(Lowered(P), i - 1) = IF 1 \in P THEN Rank(P, i) - 1 ELSE Rank(P, i)
      /\ 1 \in P => Rank(P, 1) = 1
      /\ Cardinality(Lowered(P)) = IF 1 \in P THEN Cardinality(P) - 1 ELSE Cardinality(P)
  BY <1>1, SubsequenceTail
<1>7. ASSUME NEW i \in Where(t, B)
      PROVE  /\ i + 1 \in P /\ t[i] = q[i + 1]
             /\ Rank(Where(t, B), i) = IF Head(q) \in B THEN Rank(P, i + 1) - 1 ELSE Rank(P, i + 1)
  <2>1. i + 1 \in P \ {1} /\ (i + 1) - 1 = i /\ t[i] = q[i + 1]
    BY <1>4
  <2> HIDE DEF t
  <2> QED
    BY <2>1, <1>3, <1>5, <1>6
<1>8. /\ Head(q) \notin B => Subsequence(t, Where(t, B)) = Subsequence(q, P)
      /\ Head(q) \in B => /\ Subsequence(q, P) # << >> /\ Head(Subsequence(q, P)) = Head(q)
                          /\ Subsequence(t, Where(t, B)) = Tail(Subsequence(q, P))
                          /\ 1 \in P /\ Rank(P, 1) = 1
      /\ Cardinality(Where(t, B)) = IF Head(q) \in B THEN Cardinality(P) - 1 ELSE Cardinality(P)
  BY <1>3, <1>5, <1>6
<1> QED
  BY <1>7, <1>8 DEF P, t, Kept

(* The same where one knows whether the first is of the kind.               *)
LEMMA KeptTailPassed ==
  ASSUME NEW S, NEW q \in Seq(S), NEW B, q # << >>, Head(q) \notin B
  PROVE  /\ \A i \in Where(Tail(q), B) :
              /\ i + 1 \in Where(q, B) /\ Tail(q)[i] = q[i + 1]
              /\ Rank(Where(Tail(q), B), i) = Rank(Where(q, B), i + 1)
         /\ Cardinality(Where(Tail(q), B)) = Cardinality(Where(q, B))
         /\ Kept(Tail(q), B) = Kept(q, B)
<1>1. Kept(Tail(q), B) = Kept(q, B)
  BY KeptTail
<1>2. Cardinality(Where(Tail(q), B)) = Cardinality(Where(q, B))
  BY KeptTail
<1>3. ASSUME NEW i \in Where(Tail(q), B)
      PROVE  /\ i + 1 \in Where(q, B) /\ Tail(q)[i] = q[i + 1]
             /\ Rank(Where(Tail(q), B), i) = Rank(Where(q, B), i + 1)
  <2>1. i + 1 \in Where(q, B) /\ Tail(q)[i] = q[i + 1]
    BY KeptTail
  <2>2. Rank(Where(Tail(q), B), i)
          = IF Head(q) \in B THEN Rank(Where(q, B), i + 1) - 1 ELSE Rank(Where(q, B), i + 1)
    BY KeptTail
  <2> QED
    BY <2>1, <2>2
<1> QED
  BY <1>1, <1>2, <1>3

LEMMA KeptTailTaken ==
  ASSUME NEW S, NEW q \in Seq(S), NEW B, q # << >>, Head(q) \in B
  PROVE  /\ \A i \in Where(Tail(q), B) :
              /\ i + 1 \in Where(q, B) /\ Tail(q)[i] = q[i + 1]
              /\ Rank(Where(Tail(q), B), i) = Rank(Where(q, B), i + 1) - 1
         /\ Cardinality(Where(Tail(q), B)) = Cardinality(Where(q, B)) - 1
         /\ 1 \in Where(q, B) /\ Rank(Where(q, B), 1) = 1
         /\ Kept(q, B) # << >> /\ Head(Kept(q, B)) = Head(q) /\ Kept(Tail(q), B) = Tail(Kept(q, B))
<1>1. /\ 1 \in Where(q, B) /\ Rank(Where(q, B), 1) = 1
      /\ Kept(q, B) # << >> /\ Head(Kept(q, B)) = Head(q) /\ Kept(Tail(q), B) = Tail(Kept(q, B))
  BY KeptTail
<1>2. Cardinality(Where(Tail(q), B)) = Cardinality(Where(q, B)) - 1
  BY KeptTail
<1>3. ASSUME NEW i \in Where(Tail(q), B)
      PROVE  /\ i + 1 \in Where(q, B) /\ Tail(q)[i] = q[i + 1]
             /\ Rank(Where(Tail(q), B), i) = Rank(Where(q, B), i + 1) - 1
  BY KeptTail
<1> QED
  BY <1>1, <1>2, <1>3

LEMMA KeptConcat ==
  ASSUME NEW S, NEW q \in Seq(S), NEW B, NEW e \in Seq(S), \A i \in DOMAIN e : e[i] \in B
  PROVE  Kept(q \o e, B) = Kept(q, B) \o e
<1> DEFINE P == Where(q, B)
           K == DOMAIN e
<1>1. Chosen(S, q, P) /\ Chosen(S, e, K)
  BY DEF Chosen, Where
<1>2. Where(q \o e, B) = Joint(P, Len(q), K)
  <2>1. /\ DOMAIN (q \o e) = 1..(Len(q) + Len(e)) /\ Len(q) \in Nat /\ Len(e) \in Nat
        /\ DOMAIN q = 1..Len(q) /\ DOMAIN e = 1..Len(e)
    BY ConcatProperties
  <2>2. \A i \in 1..(Len(q) + Len(e)) : (q \o e)[i] = IF i <= Len(q) THEN q[i] ELSE e[i - Len(q)]
    BY ConcatProperties
  <2>3. ASSUME NEW i \in Where(q \o e, B) PROVE i \in Joint(P, Len(q), K)
    <3>1. i \in 1..(Len(q) + Len(e)) /\ (q \o e)[i] \in B
      BY <2>1 DEF Where
    <3>2. CASE i <= Len(q)
      BY <3>1, <3>2, <2>1, <2>2 DEF Where, Joint
    <3>3. CASE ~ (i <= Len(q))
      <4>1. i - Len(q) \in K /\ i = Len(q) + (i - Len(q))
        BY <3>1, <3>3, <2>1
      <4> QED
        BY <4>1 DEF Joint, Shifted
    <3> QED
      BY <3>2, <3>3
  <2>4. ASSUME NEW i \in P PROVE i \in Where(q \o e, B)
    <3>1. i \in 1..Len(q) /\ q[i] \in B
      BY <2>1 DEF Where
    <3>2. i \in 1..(Len(q) + Len(e)) /\ (q \o e)[i] = q[i]
      BY <3>1, <2>1, <2>2
    <3> QED
      BY <3>1, <3>2, <2>1 DEF Where
  <2>5. ASSUME NEW k \in K PROVE Len(q) + k \in Where(q \o e, B)
    <3>1. Len(q) + k \in 1..(Len(q) + Len(e)) /\ ~ (Len(q) + k <= Len(q)) /\ (Len(q) + k) - Len(q) = k
      BY <2>1
    <3>2. (q \o e)[Len(q) + k] = e[k]
      BY <3>1, <2>2
    <3> QED
      BY <3>1, <3>2, <2>1 DEF Where
  <2> HIDE DEF P, K
  <2>6. Joint(P, Len(q), K) \subseteq Where(q \o e, B)
    BY <2>4, <2>5 DEF Joint, Shifted
  <2>7. Where(q \o e, B) \subseteq Joint(P, Len(q), K)
    BY <2>3
  <2> QED
    BY <2>6, <2>7
<1>3. Subsequence(e, K) = e
  BY SubsequenceNoneAll
<1> HIDE DEF P, K
<1>4. Subsequence(q \o e, Joint(P, Len(q), K)) = Subsequence(q, P) \o Subsequence(e, K)
  BY <1>1, SubsequenceConcat
<1> QED
  BY <1>2, <1>3, <1>4 DEF Kept, P

LEMMA KeptEmpty ==
  ASSUME NEW B
  PROVE  /\ Where(<< >>, B) = {} /\ Kept(<< >>, B) = << >> /\ Cardinality(Where(<< >>, B)) = 0
<1>1. Where(<< >>, B) = {}
  BY DEF Where
<1>2. << >> \in Seq({})
  OBVIOUS
<1>3. Subsequence(<< >>, {}) = << >>
  BY <1>2, SubsequenceNoneAll
<1> QED
  BY <1>1, <1>3, FS_EmptySet DEF Kept

-----------------------------------------------------------------------------
LEMMA SeqWider ==
  ASSUME NEW S, NEW T, S \subseteq T, NEW q \in Seq(S)
  PROVE  q \in Seq(T)
<1>1. Len(q) \in Nat /\ q \in [1..Len(q) -> T]
  OBVIOUS
<1> QED
  BY <1>1

(* Types.  A GET of a listener and a statement that lists have no value.    *)
Query == Write \cup [op : {"select"}, id : {None}, value : Nat]
Shows  == Seq([id : Sensors, value : Values])

BackTypes ==
  /\ CacheTypes
  /\ level \in [Sensors -> Values] /\ alive \in BOOLEAN /\ inbox \in Seq(Message)
  /\ writes \in Seq(Query) /\ info \subseteq Sensors
  /\ data \in [Sensors -> Values \cup {None}]
  /\ visits \in Nat

FrontTypes ==
  /\ rows \in Seq(Sensors) /\ page \in Seq(Entry) /\ streams \in Seq(Stream)
  /\ asked \in Seq(0..Len(streams)) /\ behind \subseteq DOMAIN streams
  /\ \A l \in listings : l.sensors \in Shows
  /\ \A r \in requests : r.id \in Sensors /\ r.action \in Values \cup {NaN}
  /\ orders \in Seq([id : Sensors, level : Values])

ViewTypes == BackTypes /\ FrontTypes

(* What the streams keep.                                                   *)
SameStreams ==
  /\ streams' \in Seq(Stream) /\ Len(streams) <= Len(streams')
  /\ \A k \in DOMAIN streams : /\ k \in DOMAIN streams'
                               /\ streams'[k].id = streams[k].id /\ streams'[k].idx = streams[k].idx

(* The GETs and answers that are not of messages.                           *)
ListenerGet    == {c \in Sent : c.op = "get" /\ c.value = None}
ListenerAnswer == {r \in Got : r.value = None}

LEMMA Positions ==
  ASSUME CacheTypes
  PROVE  /\ InitialGets = Where(commands, ListenerGet)
         /\ DOMAIN commands \ InitialGets = Where(commands, Sent \ ListenerGet)
         /\ InitialReplies = Where(replies, ListenerAnswer)
         /\ DOMAIN replies \ InitialReplies = Where(replies, Got \ ListenerAnswer)
<1>1. \A i \in DOMAIN commands : commands[i] \in Sent
  BY DEF CacheTypes
<1>2. \A i \in DOMAIN replies : replies[i] \in Got
  BY DEF CacheTypes
<1> QED
  BY <1>1, <1>2 DEF InitialGets, InitialReplies, Where, ListenerGet, ListenerAnswer

(* Each GET of a listener has its callback, which writes to a stream of the *)
(* sensor asked for or to none: the answers first, the GETs behind them.    *)
AskerOfReply(p) == asked[Rank(InitialReplies, p)]
AskerOfGet(p)   == asked[Cardinality(InitialReplies) + Rank(InitialGets, p)]

Matched ==
  /\ Len(asked) = Cardinality(InitialReplies) + Cardinality(InitialGets)
  /\ \A p \in InitialReplies :
       AskerOfReply(p) # 0 => streams[AskerOfReply(p)].id = replies[p].id
  /\ \A p \in InitialGets :
       AskerOfGet(p) # 0 => streams[AskerOfGet(p)].id = commands[p].id

(* A callback of a listener runs for a stream that asked.                   *)
LEMMA SomeoneAsked ==
  ASSUME ViewTypes, Matched, replies # << >>, Head(replies).value = None
  PROVE  /\ asked # << >> /\ Head(asked) \in 0..Len(streams)
         /\ Tail(asked) \in Seq(0..Len(streams))
<1>0. replies \in Seq(Got) /\ commands \in Seq(Sent) /\ CacheTypes
  BY DEF ViewTypes, BackTypes, CacheTypes
<1>1. Head(replies) \in ListenerAnswer
  BY <1>0, HeadTail DEF ListenerAnswer
<1>2. 1 \in Where(replies, ListenerAnswer)
  BY <1>0, <1>1, KeptTail
<1>3. /\ Cardinality(Where(replies, ListenerAnswer)) \in Nat /\ Cardinality(Where(commands, ListenerGet)) \in Nat
      /\ Rank(Where(replies, ListenerAnswer), 1) \in 1..Cardinality(Where(replies, ListenerAnswer))
  BY <1>0, <1>2, KeptElements
<1>4. Len(asked) = Cardinality(Where(replies, ListenerAnswer)) + Cardinality(Where(commands, ListenerGet))
  BY <1>0, Positions DEF Matched
<1>5. Len(asked) # 0
  BY <1>3, <1>4
<1>6. asked \in Seq(0..Len(streams)) /\ asked # << >>
  BY <1>5 DEF ViewTypes, FrontTypes
<1> QED
  BY <1>6, HeadTail

(* What Redis answers, and the SET of a callback, keep the types.           *)
LEMMA ServeTypes ==
  ASSUME CacheTypes, ServeCommand
  PROVE  CacheTypes'
<1> DEFINE c == Head(commands)
<1>0. commands \in Seq(Sent) /\ commands # << >> /\ replies \in Seq(Got)
  BY DEF CacheTypes, ServeCommand
<1>1. c \in Sent /\ commands' \in Seq(Sent)
  BY <1>0, HeadTail DEF ServeCommand
<1>2. handled' = handled
  BY DEF ServeCommand
<1>3. CASE c.op = "get"
  <2>1. c.id \in Sensors /\ c.value \in Values \cup {None}
    BY <1>1, <1>3 DEF Sent, Flush
  <2>2. [id |-> c.id, value |-> c.value, found |-> store[c.id]] \in Got
    BY <2>1 DEF Got, CacheTypes
  <2>3. replies' \in Seq(Got) /\ store' = store
    BY <1>0, <1>3, <2>2, AppendElements DEF ServeCommand
  <2> QED
    BY <1>1, <1>2, <2>3 DEF CacheTypes
<1>4. CASE c.op = "set"
  <2>1. c.id \in Sensors /\ c.value \in Values \cup {None}
    BY <1>1, <1>4 DEF Sent, Flush
  <2>2. store' = [store EXCEPT ![c.id] = c.value] /\ replies' = replies
    BY <1>4 DEF ServeCommand
  <2> QED
    BY <1>0, <1>1, <1>2, <2>1, <2>2 DEF CacheTypes
<1>5. CASE c.op = "flush"
  BY <1>0, <1>1, <1>2, <1>5 DEF ServeCommand, CacheTypes, Nothing
<1> QED
  BY <1>1, <1>3, <1>4, <1>5 DEF Sent, Flush

LEMMA ReplyTypes ==
  ASSUME CacheTypes, OnReply
  PROVE  CacheTypes' /\ Head(replies) \in Got
<1> DEFINE r == Head(replies)
<1>0. replies \in Seq(Got) /\ replies # << >> /\ commands \in Seq(Sent)
  BY DEF CacheTypes, OnReply
<1>1. r \in Got /\ replies' \in Seq(Got)
  BY <1>0, HeadTail DEF OnReply
<1>2. r.id \in Sensors /\ r.value \in Values \cup {None}
  BY <1>1 DEF Got
<1>3. [op |-> "set", id |-> r.id, value |-> r.value] \in Sent
  BY <1>2 DEF Sent
<1>4. commands' \in Seq(Sent)
  BY <1>0, <1>3, AppendElements DEF OnReply
<1>5. handled' = [handled EXCEPT ![r.id] = r.value] /\ store' = store
  BY DEF OnReply
<1> QED
  BY <1>1, <1>2, <1>4, <1>5 DEF CacheTypes

(* A step changes one stream, or each of them by itself, or adds some.      *)
LEMMA StreamChanged ==
  ASSUME streams \in Seq(Stream), NEW k \in DOMAIN streams, NEW st \in Stream,
         st.id = streams[k].id, st.idx = streams[k].idx,
         streams' = [streams EXCEPT ![k] = st]
  PROVE  /\ SameStreams /\ DOMAIN streams' = DOMAIN streams /\ Len(streams') = Len(streams)
         /\ streams'[k] = st /\ \A j \in DOMAIN streams : j # k => streams'[j] = streams[j]
<1>1. /\ streams' \in Seq(Stream) /\ DOMAIN streams' = DOMAIN streams
      /\ streams'[k] = st /\ \A j \in DOMAIN streams : j # k => streams'[j] = streams[j]
  OBVIOUS
<1>2. Len(streams') = Len(streams) /\ Len(streams) \in Nat
  BY <1>1
<1> QED
  BY <1>1, <1>2 DEF SameStreams

LEMMA StreamsChanged ==
  ASSUME streams \in Seq(Stream), DOMAIN streams' = DOMAIN streams,
         streams' = [k \in DOMAIN streams |-> streams'[k]],
         \A k \in DOMAIN streams :
           streams'[k] \in Stream /\ streams'[k].id = streams[k].id /\ streams'[k].idx = streams[k].idx
  PROVE  SameStreams /\ Len(streams') = Len(streams)
<1>1. Len(streams) \in Nat /\ DOMAIN streams = 1..Len(streams)
  OBVIOUS
<1>2. streams' \in [1..Len(streams) -> Stream]
  BY <1>1
<1>3. streams' \in Seq(Stream)
  BY <1>1, <1>2
<1>4. Len(streams') = Len(streams)
  BY <1>1, <1>3
<1> QED
  BY <1>1, <1>3, <1>4 DEF SameStreams

LEMMA StreamsAdded ==
  ASSUME streams \in Seq(Stream), NEW e \in Seq(Stream), streams' = streams \o e
  PROVE  /\ SameStreams /\ \A k \in DOMAIN streams : streams'[k] = streams[k]
         /\ \A i \in DOMAIN e : Len(streams) + i \in DOMAIN streams' /\ streams'[Len(streams) + i] = e[i]
<1>1. /\ streams' \in Seq(Stream) /\ Len(streams') = Len(streams) + Len(e)
      /\ \A i \in 1..(Len(streams) + Len(e)) :
           streams'[i] = IF i <= Len(streams) THEN streams[i] ELSE e[i - Len(streams)]
  BY ConcatProperties
<1>2. /\ Len(streams) \in Nat /\ Len(e) \in Nat /\ DOMAIN streams = 1..Len(streams)
      /\ DOMAIN e = 1..Len(e) /\ DOMAIN streams' = 1..(Len(streams) + Len(e))
  BY <1>1
<1>3. \A k \in DOMAIN streams : k \in DOMAIN streams' /\ streams'[k] = streams[k]
  BY <1>1, <1>2
<1>4. \A i \in DOMAIN e : Len(streams) + i \in DOMAIN streams' /\ streams'[Len(streams) + i] = e[i]
  <2>1. \A i \in 1..Len(e) : /\ Len(streams) + i \in 1..(Len(streams) + Len(e))
                             /\ ~ (Len(streams) + i <= Len(streams)) /\ (Len(streams) + i) - Len(streams) = i
    BY <1>2
  <2> QED
    BY <2>1, <1>1, <1>2
<1>5. Len(streams) <= Len(streams')
  BY <1>1, <1>2
<1> QED
  BY <1>1, <1>3, <1>4, <1>5 DEF SameStreams

(* What is done to one stream leaves it a stream of the same sensor.        *)
LEMMA StreamUpdates ==
  ASSUME NEW st \in Stream
  PROVE  /\ LET new == [st EXCEPT !.open = TRUE, !.spoke = FALSE]
            IN  /\ new \in Stream /\ new.id = st.id /\ new.idx = st.idx
                /\ new.open = TRUE /\ new.spoke = FALSE /\ new.pipe = st.pipe
         /\ /\ Closed(st) \in Stream /\ Closed(st).id = st.id /\ Closed(st).idx = st.idx
            /\ Closed(st).open = FALSE /\ Closed(st).spoke = st.spoke /\ Closed(st).pipe = << >>
         /\ st.pipe # << >> => LET new == [st EXCEPT !.pipe = Tail(@)]
                              IN  /\ new \in Stream /\ new.id = st.id /\ new.idx = st.idx
                                  /\ new.open = st.open /\ new.spoke = st.spoke
                                  /\ new.pipe = Tail(st.pipe) /\ Head(st.pipe) \in Values
<1>1. st.pipe \in Seq(Values)
  BY DEF Stream
<1>3. st.pipe # << >> => Tail(st.pipe) \in Seq(Values) /\ Head(st.pipe) \in Values
  BY <1>1, HeadTailProperties
<1>4. << >> \in Seq(Values)
  OBVIOUS
<1> QED
  BY <1>3, <1>4 DEF Stream, Closed

LEMMA StreamTold ==
  ASSUME NEW st \in Stream, NEW v \in Values
  PROVE  /\ LET new == [st EXCEPT !.pipe = Append(@, v)]
            IN  /\ new \in Stream /\ new.id = st.id /\ new.idx = st.idx
                /\ new.open = st.open /\ new.spoke = st.spoke /\ new.pipe = Append(st.pipe, v)
         /\ LET new == [st EXCEPT !.pipe = Append(@, v), !.spoke = TRUE]
            IN  /\ new \in Stream /\ new.id = st.id /\ new.idx = st.idx
                /\ new.open = st.open /\ new.spoke = TRUE /\ new.pipe = Append(st.pipe, v)
<1>1. st.pipe \in Seq(Values)
  BY DEF Stream
<1>2. Append(st.pipe, v) \in Seq(Values)
  BY <1>1, AppendProperties
<1> QED
  BY <1>2 DEF Stream

(* At first there is no browser.                                            *)
LEMMA InitViewTypes == ViewInit => ViewTypes
<1> SUFFICES ASSUME ViewInit PROVE ViewTypes
  OBVIOUS
<1>1. commands \in Seq(Sent)
  BY DEF ViewInit, Init, Sent
<1>2. BackTypes
  BY <1>1, BackendConstants DEF ViewInit, Init, BackTypes, CacheTypes, Nothing
<1>3. FrontTypes
  BY DEF ViewInit, FrontTypes
<1> QED
  BY <1>2, <1>3 DEF ViewTypes

(* Where the listener's GET is sent and the list is asked for, where rows   *)
(* are written, and where a callback runs.                                  *)
LEMMA StepBackTypes ==
  ASSUME ViewTypes, [ViewNext]_viewVars
  PROVE  BackTypes'
<1> USE DEF backend, world, process, database
<1>0. BackTypes /\ CacheTypes /\ streams \in Seq(Stream) /\ None \notin Values
  BY BackendConstants DEF ViewTypes, BackTypes, FrontTypes
<1>1. ASSUME NEW s \in Sensors, Change(s) \/ Publish(s), Unseen PROVE BackTypes'
  <2>1. CacheTypes' /\ alive' \in BOOLEAN /\ info' \subseteq Sensors /\ visits' \in Nat
    BY <1>0, <1>1 DEF Change, Publish, Unseen, BackTypes, CacheTypes
  <2>2. writes' \in Seq(Query) /\ data' \in [Sensors -> Values \cup {None}]
    BY <1>0, <1>1 DEF Change, Publish, BackTypes
  <2>3. level' \in [Sensors -> Values]
    BY <1>0, <1>1 DEF Change, Publish, BackTypes
  <2>4. inbox' \in Seq(Message)
    <3>1. [id |-> s, value |-> level[s]] \in Message
      BY <1>0 DEF Message, BackTypes
    <3>2. inbox \in Seq(Message)
      BY <1>0 DEF BackTypes
    <3>3. Append(inbox, [id |-> s, value |-> level[s]]) \in Seq(Message)
      BY <3>1, <3>2, AppendElements
    <3> QED
      BY <1>1, <3>2, <3>3 DEF Change, Publish
  <2> QED
    BY <2>1, <2>2, <2>3, <2>4 DEF BackTypes
<1>2. ASSUME ServeCommand, visits' = visits PROVE BackTypes'
  <2>1. CacheTypes'
    BY <1>0, <1>2, ServeTypes
  <2> QED
    BY <1>0, <1>2, <2>1 DEF BackTypes, ServeCommand
<1>3. ASSUME OnMessage, visits' = visits PROVE BackTypes'
  <2>1. Head(inbox) \in Message /\ inbox' \in Seq(Message)
    BY <1>0, <1>3, HeadTail DEF OnMessage, BackTypes
  <2>2. [op |-> "get", id |-> Head(inbox).id, value |-> Head(inbox).value] \in Sent
    BY <2>1 DEF Message, Sent
  <2>3. commands' \in Seq(Sent)
    BY <1>0, <1>3, <2>2, AppendElements DEF OnMessage, CacheTypes
  <2> QED
    BY <1>0, <1>3, <2>1, <2>3 DEF OnMessage, BackTypes, CacheTypes
<1>4. ASSUME Start, visits' = visits PROVE BackTypes'
  <2>1. commands' \in Seq(Sent)
    BY <1>4 DEF Start, Sent
  <2> QED
    BY <1>0, <1>4, <2>1 DEF Start, BackTypes, CacheTypes
<1>5. ASSUME MessageReply PROVE BackTypes'
  <2> DEFINE r == Head(replies)
             ops == IF r.found = None THEN NewEvent ELSE IF r.found # r.value THEN OldEvent ELSE << >>
             e == Statements(ops, r)
  <2>0. OnReply /\ r.value # None
    BY <1>5 DEF MessageReply
  <2>1. CacheTypes' /\ r \in Got
    BY <1>0, <2>0, ReplyTypes
  <2>2. r \in Reply
    BY <2>0, <2>1 DEF Got, Reply
  <2>3. e \in Seq(Write)
    BY <2>2, EventWrites
  <2>4. writes' = writes \o e
    BY <2>0 DEF OnReply
  <2> HIDE DEF e
  <2>5. e \in Seq(Query)
    <3>1. Write \subseteq Query
      BY DEF Query
    <3> QED
      BY <2>3, <3>1
  <2>6. writes' \in Seq(Query)
    BY <1>0, <2>4, <2>5, ConcatProperties DEF BackTypes
  <2>7. UNCHANGED <<level, alive, inbox, info, data, visits>>
    BY <2>0, <1>5 DEF OnReply, MessageReply
  <2> QED
    BY <1>0, <2>1, <2>6, <2>7 DEF BackTypes
<1>6. ASSUME ListenerReply PROVE BackTypes'
  <2>1. replies' \in Seq(Got)
    BY <1>0, <1>6, HeadTail DEF ListenerReply, CacheTypes
  <2> QED
    BY <1>0, <1>6, <2>1 DEF ListenerReply, BackTypes, CacheTypes
<1>7. ASSUME NEW k \in DOMAIN streams, Connect(k) PROVE BackTypes'
  <2>0. streams[k] \in Stream
    BY <1>0
  <2>1. streams[k].id \in Sensors
    BY <2>0 DEF Stream
  <2>2. [op |-> "get", id |-> streams[k].id, value |-> None] \in Sent
    BY <2>1 DEF Sent
  <2>3. commands' \in Seq(Sent)
    BY <1>0, <1>7, <2>2, AppendElements DEF Connect, CacheTypes
  <2> QED
    BY <1>0, <1>7, <2>3 DEF Connect, BackTypes, CacheTypes
<1>8. ASSUME Perish PROVE BackTypes'
  <2>1. handled' \in [Sensors -> Values \cup {None}] /\ alive' \in BOOLEAN
    BY <1>8 DEF Perish, Die, Nothing
  <2>2. inbox' = << >> /\ commands' = << >> /\ replies' = << >> /\ writes' = << >>
    BY <1>8 DEF Perish, Die
  <2>3. UNCHANGED <<level, store, info, data, visits>>
    BY <1>8 DEF Perish, Die
  <2>4. inbox' \in Seq(Message) /\ commands' \in Seq(Sent) /\ replies' \in Seq(Got) /\ writes' \in Seq(Query)
    BY <2>2
  <2> QED
    BY <1>0, <2>1, <2>3, <2>4 DEF BackTypes, CacheTypes
<1>9. ASSUME RunStatement, visits' = visits PROVE BackTypes'
  <2>1. Head(writes) \in Query /\ writes' \in Seq(Query)
    BY <1>0, <1>9, HeadTail DEF RunStatement, BackTypes
  <2>2. info' \subseteq Sensors /\ data' \in [Sensors -> Values \cup {None}]
    BY <1>0, <1>9, <2>1 DEF RunStatement, Write, Query, BackTypes
  <2>3. UNCHANGED <<level, alive, inbox, commands, replies, handled, store>>
    BY <1>9 DEF RunStatement
  <2> QED
    BY <1>0, <1>9, <2>1, <2>2, <2>3 DEF BackTypes, CacheTypes
<1>10. ASSUME Visit PROVE BackTypes'
  <2>1. visits' \in Nat
    BY <1>0, <1>10 DEF Visit, BackTypes
  <2>2. [op |-> "select", id |-> None, value |-> visits'] \in Query
    BY <2>1 DEF Query
  <2>3. writes' \in Seq(Query)
    BY <1>0, <1>10, <2>2, AppendElements DEF Visit, BackTypes
  <2> QED
    BY <1>0, <1>10, <2>1, <2>3 DEF Visit, BackTypes, CacheTypes
<1>11. ASSUME Obey PROVE BackTypes'
  <2>1. Head(orders) \in [id : Sensors, level : Values]
    BY <1>11, HeadTail DEF Obey, ViewTypes, FrontTypes
  <2>2. level' \in [Sensors -> Values]
    BY <1>0, <1>11, <2>1 DEF Obey, BackTypes
  <2>3. UNCHANGED <<alive, process, store, database, visits>>
    BY <1>11 DEF Obey
  <2> QED
    BY <1>0, <2>2, <2>3 DEF BackTypes, CacheTypes
<1>12. ASSUME UNCHANGED <<backend, visits>> PROVE BackTypes'
  BY <1>0, <1>12 DEF BackTypes, CacheTypes
<1>13. /\ UNCHANGED viewVars => UNCHANGED <<backend, visits>>
       /\ \A k \in DOMAIN streams : Drop(k) \/ Deliver(k) => UNCHANGED <<backend, visits>>
       /\ \A l \in listings : Show(l) => UNCHANGED <<backend, visits>>
       /\ \A i \in DOMAIN page : Click(i) => UNCHANGED <<backend, visits>>
       /\ \A r \in requests : Act(r) => UNCHANGED <<backend, visits>>
       /\ \A a \in answers : Answered(a) => UNCHANGED <<backend, visits>>
  BY DEF viewVars, Drop, Deliver, Show, Click, Act, Answered
<1>14. CASE Unseen
  <2>1. visits' = visits
    BY <1>14 DEF Unseen
  <2> QED
    BY <2>1, <1>14, <1>1, <1>2, <1>3, <1>4 DEF Unseen
<1>15. CASE Statement \/ GetAllSensors
  BY <1>15, <1>9 DEF Statement, GetAllSensors
<1> QED
  BY <1>5, <1>6, <1>7, <1>8, <1>10, <1>11, <1>12, <1>13, <1>14, <1>15 DEF ViewNext

(* The event of a message goes to the streams of its sensor.                *)
LEMMA EmittedStreams ==
  ASSUME streams \in Seq(Stream), NEW s, NEW v \in Values, streams' = Emitted(s, v)
  PROVE  /\ SameStreams /\ Len(streams') = Len(streams) /\ DOMAIN streams' = DOMAIN streams
         /\ \A k \in DOMAIN streams :
              /\ k \in Listeners(s) => /\ streams'[k].open = streams[k].open /\ streams'[k].spoke = TRUE
                                       /\ streams'[k].pipe = Append(streams[k].pipe, v)
              /\ k \notin Listeners(s) => streams'[k] = streams[k]
<1>1. /\ DOMAIN streams' = DOMAIN streams
      /\ \A k \in DOMAIN streams :
           streams'[k] = IF k \in Listeners(s)
                         THEN [streams[k] EXCEPT !.pipe = Append(@, v), !.spoke = TRUE] ELSE streams[k]
      /\ streams' = [k \in DOMAIN streams |-> streams'[k]]
  BY DEF Emitted
<1>2. ASSUME NEW k \in DOMAIN streams
      PROVE  /\ streams'[k] \in Stream /\ streams'[k].id = streams[k].id /\ streams'[k].idx = streams[k].idx
             /\ k \in Listeners(s) => /\ streams'[k].open = streams[k].open /\ streams'[k].spoke = TRUE
                                      /\ streams'[k].pipe = Append(streams[k].pipe, v)
             /\ k \notin Listeners(s) => streams'[k] = streams[k]
  <2>1. streams[k] \in Stream
    OBVIOUS
  <2>2. LET new == [streams[k] EXCEPT !.pipe = Append(@, v), !.spoke = TRUE]
        IN  /\ new \in Stream /\ new.id = streams[k].id /\ new.idx = streams[k].idx
            /\ new.open = streams[k].open /\ new.spoke = TRUE
            /\ new.pipe = Append(streams[k].pipe, v)
    BY <2>1, StreamTold
  <2> QED
    BY <2>1, <2>2, <1>1
<1>3. SameStreams /\ Len(streams') = Len(streams)
  BY <1>1, <1>2, StreamsChanged
<1> QED
  BY <1>1, <1>2, <1>3

(* The process dies and closes all streams.                                 *)
LEMMA ClosedStreams ==
  ASSUME streams \in Seq(Stream), streams' = [k \in DOMAIN streams |-> Closed(streams[k])]
  PROVE  /\ SameStreams /\ Len(streams') = Len(streams) /\ DOMAIN streams' = DOMAIN streams
         /\ \A k \in DOMAIN streams : streams'[k].open = FALSE /\ streams'[k].pipe = << >>
<1>1. /\ DOMAIN streams' = DOMAIN streams /\ streams' = [k \in DOMAIN streams |-> streams'[k]]
      /\ \A k \in DOMAIN streams : streams'[k] = Closed(streams[k])
  OBVIOUS
<1>2. ASSUME NEW k \in DOMAIN streams
      PROVE  /\ streams'[k] \in Stream /\ streams'[k].id = streams[k].id /\ streams'[k].idx = streams[k].idx
             /\ streams'[k].open = FALSE /\ streams'[k].pipe = << >>
  <2>1. streams[k] \in Stream
    OBVIOUS
  <2> QED
    BY <2>1, <1>1, StreamUpdates
<1>3. SameStreams /\ Len(streams') = Len(streams)
  BY <1>1, <1>2, StreamsChanged
<1> QED
  BY <1>1, <1>2, <1>3

(* The callback of a listener writes to its stream what Redis had.          *)
LEMMA AnsweredStream ==
  ASSUME ViewTypes, Matched, ListenerReply
  PROVE  LET k == Head(asked)
             v == Head(replies).found
         IN  /\ SameStreams /\ Len(streams') = Len(streams) /\ DOMAIN streams' = DOMAIN streams
             /\ k \in 0..Len(streams) /\ (k # 0 => k \in DOMAIN streams)
             /\ v \in Values \cup {None}
             /\ k # 0 /\ v # None =>
                  /\ streams'[k].open = streams[k].open /\ streams'[k].spoke = streams[k].spoke
                  /\ streams'[k].pipe = Append(streams[k].pipe, v)
                  /\ \A j \in DOMAIN streams : j # k => streams'[j] = streams[j]
             /\ k = 0 \/ v = None => streams' = streams
<1> DEFINE k == Head(asked)
           v == Head(replies).found
<1>0. replies # << >> /\ Head(replies).value = None
  BY DEF ListenerReply
<1>1. k \in 0..Len(streams)
  BY <1>0, SomeoneAsked
<1>2. streams \in Seq(Stream) /\ Len(streams) \in Nat /\ DOMAIN streams = 1..Len(streams)
  BY DEF ViewTypes, FrontTypes
<1>3. k # 0 => k \in DOMAIN streams
  BY <1>1, <1>2
<1>4. v \in Values \cup {None}
  <2>1. Head(replies) \in Got
    BY <1>0, HeadTail DEF ViewTypes, BackTypes, CacheTypes
  <2> QED
    BY <2>1 DEF Got
<1>5. CASE k = 0 \/ v = None
  <2>1. streams' = streams
    BY <1>5 DEF ListenerReply
  <2> QED
    BY <1>1, <1>2, <1>3, <1>4, <1>5, <2>1 DEF SameStreams
<1>6. CASE k # 0 /\ v # None
  <2> DEFINE st == [streams[k] EXCEPT !.pipe = Append(@, v)]
  <2>1. streams[k] \in Stream
    BY <1>2, <1>3, <1>6
  <2>2. /\ st \in Stream /\ st.id = streams[k].id /\ st.idx = streams[k].idx
        /\ st.open = streams[k].open /\ st.spoke = streams[k].spoke
        /\ st.pipe = Append(streams[k].pipe, v)
    BY <2>1, <1>4, <1>6, StreamTold
  <2>3. streams' = [streams EXCEPT ![k] = st]
    BY <1>6 DEF ListenerReply
  <2> HIDE DEF st, k, v
  <2>4. /\ SameStreams /\ DOMAIN streams' = DOMAIN streams /\ Len(streams') = Len(streams)
        /\ streams'[k] = st /\ \A j \in DOMAIN streams : j # k => streams'[j] = streams[j]
    BY <1>2, <1>3, <1>6, <2>2, <2>3, StreamChanged
  <2> QED
    BY <1>1, <1>3, <1>4, <1>6, <2>2, <2>4 DEF k, v
<1> QED
  BY <1>5, <1>6

(* One stream is connected, is dropped, or delivers.                        *)
LEMMA OneStream ==
  ASSUME ViewTypes, NEW k \in DOMAIN streams, Connect(k) \/ Drop(k) \/ Deliver(k)
  PROVE  /\ SameStreams /\ Len(streams') = Len(streams) /\ DOMAIN streams' = DOMAIN streams
         /\ \A j \in DOMAIN streams : j # k => streams'[j] = streams[j]
         /\ Connect(k) => /\ streams'[k].open = TRUE /\ streams'[k].spoke = FALSE
                          /\ streams'[k].pipe = streams[k].pipe
         /\ Drop(k) => streams'[k].open = FALSE /\ streams'[k].pipe = << >>
         /\ Deliver(k) => /\ streams'[k].open = streams[k].open /\ streams'[k].spoke = streams[k].spoke
                          /\ streams'[k].pipe = Tail(streams[k].pipe)
                          /\ Head(streams[k].pipe) \in Values
<1>0. streams \in Seq(Stream)
  BY DEF ViewTypes, FrontTypes
<1>1. streams[k] \in Stream
  BY <1>0
<1>2. ASSUME Connect(k)
      PROVE  /\ SameStreams /\ Len(streams') = Len(streams) /\ DOMAIN streams' = DOMAIN streams
             /\ \A j \in DOMAIN streams : j # k => streams'[j] = streams[j]
             /\ streams'[k].open = TRUE /\ streams'[k].spoke = FALSE
             /\ streams'[k].pipe = streams[k].pipe
  <2> DEFINE st == [streams[k] EXCEPT !.open = TRUE, !.spoke = FALSE]
  <2>1. /\ st \in Stream /\ st.id = streams[k].id /\ st.idx = streams[k].idx
        /\ st.open = TRUE /\ st.spoke = FALSE /\ st.pipe = streams[k].pipe
    BY <1>1, StreamUpdates
  <2>2. streams' = [streams EXCEPT ![k] = st]
    BY <1>0, <1>2 DEF Connect
  <2> HIDE DEF st
  <2> QED
    BY <1>0, <2>1, <2>2, StreamChanged
<1>3. ASSUME Drop(k)
      PROVE  /\ SameStreams /\ Len(streams') = Len(streams) /\ DOMAIN streams' = DOMAIN streams
             /\ \A j \in DOMAIN streams : j # k => streams'[j] = streams[j]
             /\ streams'[k].open = FALSE /\ streams'[k].pipe = << >>
  <2> DEFINE st == Closed(streams[k])
  <2>1. st \in Stream /\ st.id = streams[k].id /\ st.idx = streams[k].idx /\ st.open = FALSE /\ st.pipe = << >>
    BY <1>1, StreamUpdates
  <2>2. streams' = [streams EXCEPT ![k] = st]
    BY <1>3 DEF Drop
  <2> HIDE DEF st
  <2> QED
    BY <1>0, <2>1, <2>2, StreamChanged
<1>4. ASSUME Deliver(k)
      PROVE  /\ SameStreams /\ Len(streams') = Len(streams) /\ DOMAIN streams' = DOMAIN streams
             /\ \A j \in DOMAIN streams : j # k => streams'[j] = streams[j]
             /\ streams'[k].open = streams[k].open /\ streams'[k].spoke = streams[k].spoke
             /\ streams'[k].pipe = Tail(streams[k].pipe) /\ Head(streams[k].pipe) \in Values
  <2> DEFINE st == [streams[k] EXCEPT !.pipe = Tail(@)]
  <2>1. /\ st \in Stream /\ st.id = streams[k].id /\ st.idx = streams[k].idx
        /\ st.open = streams[k].open /\ st.spoke = streams[k].spoke
        /\ st.pipe = Tail(streams[k].pipe) /\ Head(streams[k].pipe) \in Values
    BY <1>1, <1>4, StreamUpdates DEF Deliver
  <2>2. streams' = [streams EXCEPT ![k] = st]
    BY <1>4 DEF Deliver
  <2> HIDE DEF st
  <2> QED
    BY <1>0, <2>1, <2>2, StreamChanged
<1> QED
  BY <1>2, <1>3, <1>4

(* A list opens its streams behind the others.                              *)
LEMMA ShownStreams ==
  ASSUME ViewTypes, NEW l \in listings, Show(l)
  PROVE  /\ l.sensors \in Shows /\ SameStreams
         /\ \A k \in DOMAIN streams : streams'[k] = streams[k]
         /\ \A i \in DOMAIN l.sensors :
              /\ Len(streams) + i \in DOMAIN streams'
              /\ streams'[Len(streams) + i] = Source(i, l.sensors[i].id)
         /\ DOMAIN streams' = 1..(Len(streams) + Len(l.sensors))
<1> DEFINE e == [i \in DOMAIN l.sensors |-> Source(i, l.sensors[i].id)]
<1>0. streams \in Seq(Stream) /\ l.sensors \in Shows
  BY DEF ViewTypes, FrontTypes
<1>1. DOMAIN l.sensors = 1..Len(l.sensors) /\ Len(l.sensors) \in Nat
  BY <1>0 DEF Shows
<1>2. \A i \in DOMAIN l.sensors : l.sensors[i].id \in Sensors
  <2> DEFINE T == [id : Sensors, value : Values]
             q == l.sensors
  <2>1. q \in Seq(T)
    BY <1>0 DEF Shows
  <2> HIDE DEF T, q
  <2>2. \A i \in DOMAIN q : q[i] \in T
    BY <2>1
  <2> QED
    BY <2>2 DEF T, q
<1>3. << >> \in Seq(Values)
  OBVIOUS
<1>4. \A i \in 1..Len(l.sensors) : Source(i, l.sensors[i].id) \in Stream
  BY <1>1, <1>2, <1>3 DEF Source, Stream
<1>5. e \in Seq(Stream) /\ DOMAIN e = DOMAIN l.sensors /\ Len(e) = Len(l.sensors)
  BY <1>1, <1>4
<1>6. streams' = streams \o e
  BY DEF Show
<1>7. \A i \in DOMAIN l.sensors : e[i] = Source(i, l.sensors[i].id)
  OBVIOUS
<1> HIDE DEF e
<1>8. /\ SameStreams /\ \A k \in DOMAIN streams : streams'[k] = streams[k]
      /\ \A i \in DOMAIN e : Len(streams) + i \in DOMAIN streams' /\ streams'[Len(streams) + i] = e[i]
  BY <1>0, <1>5, <1>6, StreamsAdded
<1>9. DOMAIN streams' = 1..(Len(streams) + Len(l.sensors))
  <2>1. streams' \in Seq(Stream) /\ Len(streams') = Len(streams) + Len(e)
    BY <1>0, <1>5, <1>6, ConcatProperties
  <2> QED
    BY <1>5, <2>1
<1> QED
  BY <1>0, <1>5, <1>7, <1>8, <1>9

(* A stream stays one of the same sensor for the same entry.                *)
LEMMA StepStreams ==
  ASSUME ViewTypes, Matched, [ViewNext]_viewVars
  PROVE  SameStreams
<1>0. streams \in Seq(Stream)
  BY DEF ViewTypes, FrontTypes
<1>1. ASSUME streams' = streams PROVE SameStreams
  <2>1. Len(streams) \in Nat
    BY <1>0
  <2> QED
    BY <1>0, <1>1, <2>1 DEF SameStreams
<1>2. ASSUME MessageReply PROVE SameStreams
  <2>1. Head(replies).value \in Values
    <3>1. Head(replies) \in Got
      BY <1>2, HeadTail DEF MessageReply, ViewTypes, BackTypes, CacheTypes
    <3> QED
      BY <3>1, <1>2 DEF MessageReply, Got
  <2>2. streams' = streams \/ streams' = Emitted(Head(replies).id, Head(replies).value)
    BY <1>2 DEF MessageReply
  <2> QED
    BY <2>1, <2>2, <1>0, <1>1, EmittedStreams
<1>3. ASSUME ListenerReply PROVE SameStreams
  BY <1>3, AnsweredStream
<1>4. ASSUME NEW k \in DOMAIN streams, Connect(k) \/ Drop(k) \/ Deliver(k) PROVE SameStreams
  BY <1>4, OneStream
<1>5. ASSUME Perish PROVE SameStreams
  BY <1>0, <1>5, ClosedStreams DEF Perish
<1>6. ASSUME NEW l \in listings, Show(l) PROVE SameStreams
  BY <1>6, ShownStreams
<1>7. /\ UNCHANGED viewVars \/ Unseen \/ Statement \/ GetAllSensors \/ Visit \/ Obey => streams' = streams
      /\ \A i \in DOMAIN page : Click(i) => streams' = streams
      /\ \A r \in requests : Act(r) => streams' = streams
      /\ \A a \in answers : Answered(a) => streams' = streams
  BY DEF viewVars, live, Unseen, Statement, GetAllSensors, Visit, Obey, Click, Act, Answered
<1> QED
  BY <1>1, <1>2, <1>3, <1>4, <1>5, <1>6, <1>7 DEF ViewNext

(* The list of the sensors that have a value, in the order of their rows.   *)
LEMMA JoinedList ==
  ASSUME ViewTypes
  PROVE  Joined \in Shows
<1> DEFINE P == {i \in DOMAIN rows : data[rows[i]] # None}
           both == Subsequence(rows, P)
<1>0. rows \in Seq(Sensors) /\ data \in [Sensors -> Values \cup {None}]
  BY DEF ViewTypes, BackTypes, FrontTypes
<1>1. P \in SUBSET (DOMAIN rows) /\ \A i \in P : data[rows[i]] # None
  OBVIOUS
<1> HIDE DEF P
<1>2. /\ both \in Seq(Sensors) /\ Len(both) = Cardinality(P)
      /\ \A m \in 1..Cardinality(P) : \E i \in P : Rank(P, i) = m /\ both[m] = rows[i]
  BY <1>0, <1>1, SubsequenceElements
<1> HIDE DEF both
<1>3. DOMAIN both = 1..Len(both) /\ Len(both) \in Nat
  BY <1>2
<1>4. \A m \in DOMAIN both : both[m] \in Sensors /\ data[both[m]] \in Values
  BY <1>0, <1>1, <1>2, <1>3
<1>5. [i \in DOMAIN both |-> [id |-> both[i], value |-> data[both[i]]]] \in Shows
  BY <1>3, <1>4 DEF Shows
<1> QED
  BY <1>5 DEF Joined, both, P

LEMMA StepFrontTypes ==
  ASSUME ViewTypes, Matched, [ViewNext]_viewVars
  PROVE  FrontTypes'
<1> USE DEF backend, live, toggles
<1>0. BackTypes /\ FrontTypes
  BY DEF ViewTypes
<1>1. rows' \in Seq(Sensors)
  <2>0. rows \in Seq(Sensors)
    BY <1>0 DEF FrontTypes
  <2>1. CASE Statement
    <3>1. Head(writes) \in Query
      BY <1>0, <2>1, HeadTail DEF Statement, RunStatement, BackTypes
    <3>2. Head(writes).id \in Sensors
      BY <2>1, <3>1 DEF Query, Write, Statement
    <3>3. Append(rows, Head(writes).id) \in Seq(Sensors)
      BY <2>0, <3>2, AppendElements
    <3> QED
      BY <2>0, <2>1, <3>3 DEF Statement
  <2>2. CASE ~ Statement
    <3>1. rows' = rows
      BY <2>2 DEF ViewNext, viewVars, Unseen, MessageReply, ListenerReply, Perish, GetAllSensors, Visit,
                  Connect, Drop, Deliver, Show, Click, Act, Answered, Obey
    <3> QED
      BY <2>0, <3>1
  <2> QED
    BY <2>1, <2>2
<1>2. page' \in Seq(Entry)
  <2>0. page \in Seq(Entry) /\ DOMAIN page = 1..Len(page) /\ Len(page) \in Nat
    BY <1>0 DEF FrontTypes
  <2>1. ASSUME NEW l \in listings, Show(l) PROVE page' \in Seq(Entry)
    <3>1. [id : Sensors, value : Values] \subseteq Entry
      BY DEF Entry
    <3>2. l.sensors \in Seq([id : Sensors, value : Values])
      BY <2>1, ShownStreams DEF Shows
    <3>3. l.sensors \in Seq(Entry)
      BY <3>1, <3>2, SeqWider
    <3> QED
      BY <3>3, <2>1 DEF Show
  <2>2. ASSUME NEW k \in DOMAIN streams, Deliver(k) PROVE page' \in Seq(Entry)
    <3>1. Head(streams[k].pipe) \in Values
      BY <2>2, OneStream
    <3>2. \A i \in 1..Len(page) : page[i] \in Entry
      BY <2>0
    <3>3. \A i \in 1..Len(page) :
            (IF i = streams[k].idx THEN [page[i] EXCEPT !.value = Head(streams[k].pipe)] ELSE page[i]) \in Entry
      BY <3>1, <3>2 DEF Entry
    <3>4. page' = [i \in 1..Len(page) |->
            IF i = streams[k].idx THEN [page[i] EXCEPT !.value = Head(streams[k].pipe)] ELSE page[i]]
      BY <2>0, <2>2 DEF Deliver
    <3> QED
      BY <2>0, <3>3, <3>4
  <2>3. ASSUME NEW a \in answers, Answered(a) PROVE page' \in Seq(Entry)
    <3>2. \A i \in 1..Len(page) : page[i] \in Entry
      BY <2>0
    <3>3. \A i \in 1..Len(page) :
            (IF page[i].id = a.id THEN [page[i] EXCEPT !.value = Undefined] ELSE page[i]) \in Entry
      BY <3>2 DEF Entry
    <3>4. page' = [i \in 1..Len(page) |->
            IF page[i].id = a.id THEN [page[i] EXCEPT !.value = Undefined] ELSE page[i]]
      BY <2>0, <2>3 DEF Answered
    <3> QED
      BY <2>0, <3>3, <3>4
  <2>4. /\ UNCHANGED viewVars \/ Unseen \/ MessageReply \/ ListenerReply \/ Perish \/ Statement => page' = page
        /\ GetAllSensors \/ Visit \/ Obey => page' = page
        /\ \A k \in DOMAIN streams : Connect(k) \/ Drop(k) => page' = page
        /\ \A i \in DOMAIN page : Click(i) => page' = page
        /\ \A r \in requests : Act(r) => page' = page
    BY DEF viewVars, Unseen, MessageReply, ListenerReply, Perish, Statement, GetAllSensors, Visit,
           Connect, Drop, Click, Act, Obey
  <2> QED
    BY <2>0, <2>1, <2>2, <2>3, <2>4 DEF ViewNext
<1>3. \A l \in listings' : l.sensors \in Shows
  <2>1. CASE GetAllSensors
    BY <1>0, <2>1, JoinedList DEF GetAllSensors, FrontTypes
  <2>2. CASE ~ GetAllSensors
    <3>1. listings' \subseteq listings
      BY <2>2 DEF ViewNext, viewVars, Unseen, MessageReply, ListenerReply, Perish, Statement, Visit,
                  Connect, Drop, Deliver, Show, Click, Act, Answered, Obey
    <3> QED
      BY <1>0, <3>1 DEF FrontTypes
  <2> QED
    BY <2>1, <2>2
<1>4. \A r \in requests' : r.id \in Sensors /\ r.action \in Values \cup {NaN}
  <2>1. ASSUME NEW i \in DOMAIN page, Click(i)
        PROVE  \A r \in requests' : r.id \in Sensors /\ r.action \in Values \cup {NaN}
    <3>1. page[i] \in Entry
      BY <1>0 DEF FrontTypes
    <3>2. page[i].id \in Sensors /\ Toggled(page[i].value) \in Values \cup {NaN}
      BY <3>1, ViewConstants DEF Entry, Toggled
    <3> QED
      BY <1>0, <2>1, <3>2 DEF Click, FrontTypes
  <2>2. CASE ~ \E i \in DOMAIN page : Click(i)
    <3>1. requests' \subseteq requests
      BY <2>2 DEF ViewNext, viewVars, Unseen, MessageReply, ListenerReply, Perish, Statement, GetAllSensors,
                  Visit, Connect, Drop, Deliver, Show, Act, Answered, Obey
    <3> QED
      BY <1>0, <3>1 DEF FrontTypes
  <2> QED
    BY <2>1, <2>2
<1>5. orders' \in Seq([id : Sensors, level : Values])
  <2> DEFINE Order == [id : Sensors, level : Values]
  <2>0. orders \in Seq(Order)
    BY <1>0 DEF FrontTypes
  <2>1. ASSUME NEW r \in requests, Act(r) PROVE orders' \in Seq(Order)
    <3>1. r.action # NaN => [id |-> r.id, level |-> r.action] \in Order
      BY <1>0 DEF FrontTypes
    <3>2. r.action # NaN => Append(orders, [id |-> r.id, level |-> r.action]) \in Seq(Order)
      BY <2>0, <3>1, AppendElements
    <3> QED
      BY <2>0, <2>1, <3>2 DEF Act
  <2>2. ASSUME Obey PROVE orders' \in Seq(Order)
    BY <2>0, <2>2, HeadTail DEF Obey
  <2>3. CASE ~ Obey /\ ~ \E r \in requests : Act(r)
    <3>1. orders' = orders
      BY <2>3 DEF ViewNext, viewVars, Unseen, MessageReply, ListenerReply, Perish, Statement, GetAllSensors,
                  Visit, Connect, Drop, Deliver, Show, Click, Answered
    <3> QED
      BY <2>0, <3>1
  <2> QED
    BY <2>1, <2>2, <2>3
<1>6. SameStreams
  BY StepStreams
<1>7. /\ streams' \in Seq(Stream) /\ DOMAIN streams \subseteq DOMAIN streams'
      /\ 0..Len(streams) \subseteq 0..Len(streams')
  <2>1. streams \in Seq(Stream) /\ streams' \in Seq(Stream) /\ Len(streams) <= Len(streams')
    BY <1>0, <1>6 DEF FrontTypes, SameStreams
  <2>2. Len(streams) \in Nat /\ Len(streams') \in Nat
    BY <2>1
  <2> QED
    BY <2>1, <2>2, <1>6 DEF SameStreams
<1>8. asked' \in Seq(0..Len(streams'))
  <2> DEFINE K == 0..Len(streams)
  <2>0. asked \in Seq(K)
    BY <1>0 DEF FrontTypes
  <2>1. ASSUME asked' \in Seq(K) PROVE asked' \in Seq(0..Len(streams'))
    <3> HIDE DEF K
    <3>1. K \subseteq 0..Len(streams')
      BY <1>7 DEF K
    <3> QED
      BY <2>1, <3>1, SeqWider
  <2>2. ASSUME ListenerReply PROVE asked' \in Seq(K)
    BY <2>2, SomeoneAsked DEF ListenerReply
  <2>3. ASSUME NEW k \in DOMAIN streams, Connect(k) PROVE asked' \in Seq(K)
    <3>1. k \in K
      BY <1>0 DEF FrontTypes
    <3> HIDE DEF K
    <3> QED
      BY <2>0, <2>3, <3>1, AppendElements DEF Connect
  <2>4. ASSUME NEW k \in DOMAIN streams, Drop(k) PROVE asked' \in Seq(K)
    <3>1. 0 \in K
      BY <1>0 DEF FrontTypes
    <3> HIDE DEF K
    <3>2. DOMAIN asked = 1..Len(asked) /\ Len(asked) \in Nat /\ \A i \in DOMAIN asked : asked[i] \in K
      BY <2>0
    <3>3. asked' = [i \in 1..Len(asked) |-> IF asked[i] = k THEN 0 ELSE asked[i]]
      BY <2>4, <3>2 DEF Drop
    <3>4. \A i \in 1..Len(asked) : (IF asked[i] = k THEN 0 ELSE asked[i]) \in K
      BY <3>1, <3>2
    <3> QED
      BY <3>2, <3>3, <3>4
  <2>5. ASSUME Perish PROVE asked' \in Seq(K)
    BY <2>5 DEF Perish
  <2>6. /\ UNCHANGED viewVars \/ Unseen \/ MessageReply \/ Statement => asked' = asked
        /\ GetAllSensors \/ Visit \/ Obey => asked' = asked
        /\ \A k \in DOMAIN streams : Deliver(k) => asked' = asked
        /\ \A l \in listings : Show(l) => asked' = asked
        /\ \A i \in DOMAIN page : Click(i) => asked' = asked
        /\ \A r \in requests : Act(r) => asked' = asked
        /\ \A a \in answers : Answered(a) => asked' = asked
    BY DEF viewVars, Unseen, MessageReply, Statement, GetAllSensors, Visit,
           Deliver, Show, Click, Act, Answered, Obey
  <2> HIDE DEF K
  <2> QED
    BY <2>0, <2>1, <2>2, <2>3, <2>4, <2>5, <2>6 DEF ViewNext
<1>9. behind' \subseteq DOMAIN streams'
  <2>0. behind \subseteq DOMAIN streams
    BY <1>0 DEF FrontTypes
  <2>1. CASE MessageReply
    <3>1. behind' \subseteq behind \cup Listeners(Head(replies).id)
      BY <2>1 DEF MessageReply
    <3> QED
      BY <2>0, <3>1, <1>7 DEF Listeners
  <2>2. CASE ListenerReply
    <3>1. Head(asked) # 0 => Head(asked) \in DOMAIN streams
      BY <2>2, AnsweredStream
    <3> QED
      BY <2>0, <2>2, <3>1, <1>7 DEF ListenerReply
  <2>3. CASE ~ MessageReply /\ ~ ListenerReply
    <3>1. behind' \subseteq behind
      BY <2>3 DEF ViewNext, viewVars, Unseen, Perish, Statement, GetAllSensors,
                  Visit, Connect, Drop, Deliver, Show, Click, Act, Answered, Obey
    <3> QED
      BY <2>0, <3>1, <1>7
  <2> QED
    BY <2>1, <2>2, <2>3
<1> QED
  BY <1>1, <1>2, <1>3, <1>4, <1>5, <1>7, <1>8, <1>9 DEF FrontTypes

-----------------------------------------------------------------------------
(* Which stream asked, for an answer and for a GET, as the queues move.     *)
LEMMA PositionsNext ==
  ASSUME CacheTypes'
  PROVE  /\ InitialGets' = Where(commands', ListenerGet)
         /\ InitialReplies' = Where(replies', ListenerAnswer)
<1>1. \A i \in DOMAIN commands' : commands'[i] \in Sent
  BY DEF CacheTypes
<1>2. \A i \in DOMAIN replies' : replies'[i] \in Got
  BY DEF CacheTypes
<1> QED
  BY <1>1, <1>2 DEF InitialGets, InitialReplies, Where, ListenerGet, ListenerAnswer

(* Ranks lie within what was asked.                                         *)
LEMMA AskersInRange ==
  ASSUME ViewTypes, Matched
  PROVE  /\ Cardinality(InitialReplies) \in Nat /\ Cardinality(InitialGets) \in Nat
         /\ \A p \in InitialReplies : Rank(InitialReplies, p) \in 1..Cardinality(InitialReplies)
         /\ \A p \in InitialGets : Rank(InitialGets, p) \in 1..Cardinality(InitialGets)
         /\ Len(asked) = Cardinality(InitialReplies) + Cardinality(InitialGets)
         /\ asked \in Seq(0..Len(streams)) /\ DOMAIN streams = 1..Len(streams) /\ Len(streams) \in Nat
         /\ \A p \in InitialReplies :
              /\ AskerOfReply(p) \in 0..Len(streams) /\ Rank(InitialReplies, p) \in DOMAIN asked
              /\ AskerOfReply(p) # 0 => AskerOfReply(p) \in DOMAIN streams
         /\ \A p \in InitialGets :
              /\ AskerOfGet(p) \in 0..Len(streams)
              /\ Cardinality(InitialReplies) + Rank(InitialGets, p) \in DOMAIN asked
              /\ AskerOfGet(p) # 0 => AskerOfGet(p) \in DOMAIN streams
<1> DEFINE A == InitialReplies
           G == InitialGets
           K == 0..Len(streams)
<1>0. CacheTypes /\ replies \in Seq(Got) /\ commands \in Seq(Sent) /\ asked \in Seq(K)
  BY DEF ViewTypes, BackTypes, FrontTypes, CacheTypes
<1>1. A = Where(replies, ListenerAnswer) /\ G = Where(commands, ListenerGet)
  BY <1>0, Positions
<1>2. Cardinality(A) \in Nat /\ \A p \in A : Rank(A, p) \in 1..Cardinality(A)
  BY <1>0, <1>1, KeptElements
<1>3. Cardinality(G) \in Nat /\ \A p \in G : Rank(G, p) \in 1..Cardinality(G)
  BY <1>0, <1>1, KeptElements
<1>4. Len(asked) = Cardinality(A) + Cardinality(G) /\ DOMAIN asked = 1..Len(asked)
  BY <1>0 DEF Matched
<1>5. DOMAIN streams = 1..Len(streams) /\ Len(streams) \in Nat
  BY DEF ViewTypes, FrontTypes
<1>6. \A i \in DOMAIN asked : asked[i] \in K
  BY <1>0
<1>7. \A i \in K : i # 0 => i \in DOMAIN streams
  BY <1>5
<1> HIDE DEF A, G, K
<1>8. \A p \in A : Rank(A, p) \in DOMAIN asked
  BY <1>2, <1>3, <1>4
<1>9. \A p \in G : Cardinality(A) + Rank(G, p) \in DOMAIN asked
  BY <1>2, <1>3, <1>4
<1> QED
  BY <1>0, <1>2, <1>3, <1>4, <1>5, <1>6, <1>7, <1>8, <1>9 DEF A, G, K, AskerOfReply, AskerOfGet

(* Redis serves the first GET: its answer goes behind the answers.          *)
LEMMA AskersServed ==
  ASSUME ViewTypes, ServeCommand, asked' = asked
  PROVE  /\ Cardinality(InitialReplies') + Cardinality(InitialGets')
              = Cardinality(InitialReplies) + Cardinality(InitialGets)
         /\ \A p \in InitialGets' :
              /\ p + 1 \in InitialGets /\ AskerOfGet(p)' = AskerOfGet(p + 1)
              /\ commands'[p] = commands[p + 1]
         /\ \A p \in InitialReplies' :
              \/ /\ p \in InitialReplies /\ AskerOfReply(p)' = AskerOfReply(p)
                 /\ replies'[p] = replies[p]
              \/ /\ 1 \in InitialGets /\ AskerOfReply(p)' = AskerOfGet(1)
                 /\ replies'[p].id = commands[1].id /\ replies'[p].found = store[commands[1].id]
<1> DEFINE A == Where(replies, ListenerAnswer)
           G == Where(commands, ListenerGet)
           An == Where(replies', ListenerAnswer)
           Gn == Where(commands', ListenerGet)
           c == Head(commands)
           r == [id |-> c.id, value |-> c.value, found |-> store[c.id]]
           a == Cardinality(A)
           g == Cardinality(G)
           n == Len(replies)
<1>0. /\ CacheTypes /\ replies \in Seq(Got) /\ commands \in Seq(Sent) /\ commands # << >>
      /\ commands' = Tail(commands)
  BY DEF ViewTypes, BackTypes, CacheTypes, ServeCommand
<1>1. CacheTypes'
  BY <1>0, ServeTypes
<1>2. InitialReplies = A /\ InitialGets = G /\ InitialReplies' = An /\ InitialGets' = Gn
  BY <1>0, <1>1, Positions, PositionsNext
<1>3. a \in Nat /\ g \in Nat /\ n \in Nat /\ \A p \in A : p \in 1..n /\ Rank(A, p) \in 1..a
  BY <1>0, KeptElements, WhereChosen
<1>4. \A p \in G : Rank(G, p) \in 1..g
  BY <1>0, KeptElements
<1>5. c \in Sent /\ c = commands[1]
  BY <1>0, HeadTail
<1>6. /\ \A p \in Gn : /\ p + 1 \in G /\ commands'[p] = commands[p + 1]
                       /\ Rank(Gn, p) = IF c \in ListenerGet THEN Rank(G, p + 1) - 1 ELSE Rank(G, p + 1)
      /\ Cardinality(Gn) = IF c \in ListenerGet THEN g - 1 ELSE g
      /\ c \in ListenerGet => 1 \in G /\ Rank(G, 1) = 1
  <2> DEFINE t == Tail(commands)
             Gt == Where(t, ListenerGet)
  <2>1. /\ c \in ListenerGet => 1 \in G /\ Rank(G, 1) = 1
        /\ \A p \in Gt : /\ p + 1 \in G /\ t[p] = commands[p + 1]
                         /\ Rank(Gt, p) = IF c \in ListenerGet THEN Rank(G, p + 1) - 1 ELSE Rank(G, p + 1)
        /\ Cardinality(Gt) = IF c \in ListenerGet THEN g - 1 ELSE g
    <3>1. commands \in Seq(Sent) /\ commands # << >>
      BY <1>0
    <3>2. CASE c \in ListenerGet
      BY <3>1, <3>2, KeptTailTaken
    <3>3. CASE c \notin ListenerGet
      BY <3>1, <3>3, KeptTailPassed
    <3> QED
      BY <3>2, <3>3
  <2>2. t = commands'
    BY <1>0
  <2> QED
    BY <2>1, <2>2
<1>7. CASE c \in ListenerGet
  <2>1. c.op = "get" /\ c.value = None /\ c.id \in Sensors
    BY <1>5, <1>7 DEF ListenerGet, Sent, Flush
  <2>2. r \in Got /\ r \in ListenerAnswer /\ r.id = c.id /\ r.found = store[c.id]
    BY <1>0, <2>1 DEF ListenerAnswer, Got, CacheTypes
  <2>3. replies' = Append(replies, r)
    BY <2>1 DEF ServeCommand
  <2> HIDE DEF r, A, G, An, Gn, c, n
  <2>4. /\ An = Plus(A, n + 1) /\ Cardinality(An) = a + 1
        /\ \A i \in A : Rank(An, i) = Rank(A, i)
        /\ Rank(An, n + 1) = a + 1
    BY <1>0, <2>2, <2>3, KeptAppend DEF A, An, n
  <2>5. (\A i \in 1..n : replies'[i] = replies[i]) /\ replies'[n + 1] = r
    BY <1>0, <2>2, <2>3, AppendProperties DEF n
  <2>6. \A p \in Gn : asked'[Cardinality(An) + Rank(Gn, p)] = asked[a + Rank(G, p + 1)]
    <3>1. \A p \in Gn : Cardinality(An) + Rank(Gn, p) = a + Rank(G, p + 1)
      BY <1>3, <1>4, <1>6, <1>7, <2>4
    <3> QED
      BY <3>1
  <2>7. asked'[Rank(An, n + 1)] = asked[a + Rank(G, 1)]
    BY <1>6, <1>7, <2>4
  <2>8. \A p \in An : p \in A \/ p = n + 1
    BY <2>4 DEF Plus
  <2>9. Cardinality(An) + Cardinality(Gn) = a + g
    BY <1>3, <1>6, <1>7, <2>4
  <2> QED
    BY <1>2, <1>3, <1>5, <1>6, <1>7, <2>2, <2>4, <2>5, <2>6, <2>7, <2>8, <2>9 DEF AskerOfReply, AskerOfGet
<1>8. CASE c \notin ListenerGet
  <2>1. An = A /\ \A p \in A : replies'[p] = replies[p]
    <3>1. CASE c.op = "get"
      <4>1. c.value # None /\ c.id \in Sensors /\ c.value \in Values \cup {None}
        BY <1>5, <1>8, <3>1 DEF ListenerGet, Sent, Flush
      <4>2. r \in Got /\ r \notin ListenerAnswer
        BY <1>0, <4>1 DEF ListenerAnswer, Got, CacheTypes
      <4>3. replies' = Append(replies, r)
        BY <3>1 DEF ServeCommand
      <4> HIDE DEF r, c
      <4>4. An = A
        BY <1>0, <4>2, <4>3, KeptAppend
      <4>5. \A i \in 1..n : replies'[i] = replies[i]
        BY <1>0, <4>2, <4>3, AppendProperties
      <4> QED
        BY <1>3, <4>4, <4>5
    <3>2. CASE c.op # "get"
      BY <3>2 DEF ServeCommand
    <3> QED
      BY <3>1, <3>2
  <2> HIDE DEF A, G, An, Gn, c, n
  <2> QED
    BY <1>2, <1>6, <1>8, <2>1 DEF AskerOfReply, AskerOfGet
<1> QED
  BY <1>7, <1>8

(* A command that is no GET of a listener goes behind the rest.             *)
LEMMA AskersMessage ==
  ASSUME ViewTypes, CacheTypes', NEW c \in Sent, c \notin ListenerGet, commands' = Append(commands, c),
         replies' = replies, asked' = asked
  PROVE  /\ InitialReplies' = InitialReplies /\ InitialGets' = InitialGets
         /\ \A p \in InitialGets : AskerOfGet(p)' = AskerOfGet(p) /\ commands'[p] = commands[p]
         /\ \A p \in InitialReplies : AskerOfReply(p)' = AskerOfReply(p)
<1>0. CacheTypes /\ commands \in Seq(Sent)
  BY DEF ViewTypes, BackTypes, CacheTypes
<1>1. InitialReplies' = InitialReplies
  BY <1>0, Positions, PositionsNext
<1>2. InitialGets' = InitialGets
  BY <1>0, Positions, PositionsNext, KeptAppend
<1>3. \A p \in InitialGets : commands'[p] = commands[p]
  BY <1>0, AppendElements DEF InitialGets
<1> QED
  BY <1>1, <1>2, <1>3 DEF AskerOfReply, AskerOfGet

(* The answer to a message is handled: the others move up.                  *)
LEMMA AskersReply ==
  ASSUME ViewTypes, MessageReply
  PROVE  /\ Cardinality(InitialReplies') = Cardinality(InitialReplies) /\ InitialGets' = InitialGets
         /\ \A p \in InitialGets : AskerOfGet(p)' = AskerOfGet(p) /\ commands'[p] = commands[p]
         /\ \A p \in InitialReplies' :
              /\ p + 1 \in InitialReplies /\ AskerOfReply(p)' = AskerOfReply(p + 1)
              /\ replies'[p] = replies[p + 1]
<1> DEFINE r == Head(replies)
           set == [op |-> "set", id |-> r.id, value |-> r.value]
<1>0. /\ CacheTypes /\ commands \in Seq(Sent) /\ replies \in Seq(Got) /\ replies # << >>
      /\ replies' = Tail(replies) /\ commands' = Append(commands, set) /\ asked' = asked /\ OnReply
  BY DEF ViewTypes, BackTypes, CacheTypes, MessageReply, OnReply
<1>1. CacheTypes' /\ r \in Got
  BY <1>0, ReplyTypes
<1>2. set \in Sent /\ set \notin ListenerGet
  BY <1>1 DEF Got, Sent, ListenerGet
<1>3. r \notin ListenerAnswer
  BY DEF MessageReply, ListenerAnswer
<1> HIDE DEF r, set
<1>4. InitialGets' = InitialGets
  BY <1>0, <1>1, <1>2, Positions, PositionsNext, KeptAppend
<1>5. \A p \in InitialGets : commands'[p] = commands[p]
  BY <1>0, <1>2, AppendElements DEF InitialGets
<1> DEFINE A == Where(replies, ListenerAnswer)
           An == Where(replies', ListenerAnswer)
<1>6. InitialReplies = A /\ InitialReplies' = An
  BY <1>0, <1>1, Positions, PositionsNext
<1>7. /\ \A p \in An : p + 1 \in A /\ replies'[p] = replies[p + 1] /\ Rank(An, p) = Rank(A, p + 1)
      /\ Cardinality(An) = Cardinality(A)
  <2> DEFINE t == Tail(replies)
             At == Where(t, ListenerAnswer)
  <2>1. /\ \A p \in At : p + 1 \in A /\ t[p] = replies[p + 1] /\ Rank(At, p) = Rank(A, p + 1)
        /\ Cardinality(At) = Cardinality(A)
    <3>1. replies \in Seq(Got) /\ replies # << >> /\ Head(replies) \notin ListenerAnswer
      BY <1>0, <1>3 DEF r
    <3> QED
      BY <3>1, KeptTailPassed
  <2>2. t = replies'
    BY <1>0
  <2> QED
    BY <2>1, <2>2
<1> HIDE DEF A, An
<1> QED
  BY <1>0, <1>4, <1>5, <1>6, <1>7 DEF AskerOfReply, AskerOfGet

(* The callback of a listener runs: the next one is the first.              *)
LEMMA AskersAnswered ==
  ASSUME ViewTypes, Matched, ListenerReply
  PROVE  /\ Len(asked') = Cardinality(InitialReplies') + Cardinality(InitialGets')
         /\ InitialGets' = InitialGets
         /\ 1 \in InitialReplies /\ AskerOfReply(1) = Head(asked) /\ replies[1] = Head(replies)
         /\ \A p \in InitialGets : AskerOfGet(p)' = AskerOfGet(p) /\ commands'[p] = commands[p]
         /\ \A p \in InitialReplies' :
              /\ p + 1 \in InitialReplies /\ AskerOfReply(p)' = AskerOfReply(p + 1)
              /\ replies'[p] = replies[p + 1]
         /\ \A i \in DOMAIN asked' : i + 1 \in DOMAIN asked /\ asked'[i] = asked[i + 1]
         /\ \A i \in DOMAIN asked : i # 1 => i - 1 \in DOMAIN asked' /\ asked'[i - 1] = asked[i]
<1> DEFINE r == Head(replies)
           A == Where(replies, ListenerAnswer)
           An == Where(replies', ListenerAnswer)
           a == Cardinality(A)
           G == InitialGets
           K == 0..Len(streams)
<1>0. /\ CacheTypes /\ replies \in Seq(Got) /\ replies # << >> /\ r.value = None
      /\ replies' = Tail(replies) /\ commands' = commands /\ asked' = Tail(asked)
      /\ UNCHANGED <<store, handled>>
  BY DEF ViewTypes, BackTypes, CacheTypes, ListenerReply
<1>1. r \in Got /\ replies' \in Seq(Got) /\ r = replies[1]
  BY <1>0, HeadTail
<1>2. CacheTypes' /\ r \in ListenerAnswer
  BY <1>0, <1>1 DEF CacheTypes, ListenerAnswer
<1>3. /\ InitialReplies = A /\ InitialReplies' = An /\ InitialGets' = G
  BY <1>0, <1>2, Positions, PositionsNext
<1>4. /\ \A p \in An : p + 1 \in A /\ replies'[p] = replies[p + 1] /\ Rank(An, p) = Rank(A, p + 1) - 1
      /\ Cardinality(An) = a - 1 /\ 1 \in A /\ Rank(A, 1) = 1
  BY <1>0, <1>2, KeptTail
<1>5. /\ a \in Nat /\ Cardinality(G) \in Nat /\ \A p \in A : Rank(A, p) \in 1..a
      /\ \A p \in G : Rank(G, p) \in 1..Cardinality(G)
      /\ Len(asked) = a + Cardinality(G) /\ asked \in Seq(K)
      /\ \A p \in A : Rank(A, p) \in DOMAIN asked
  BY <1>3, AskersInRange
<1> HIDE DEF r, A, An, G, K
<1>6. asked # << >>
  BY <1>4, <1>5
<1>7. /\ Len(asked') = Len(asked) - 1 /\ DOMAIN asked' = 1..(Len(asked) - 1)
      /\ \A i \in 1..(Len(asked) - 1) : asked'[i] = asked[i + 1]
      /\ Head(asked) = asked[1] /\ DOMAIN asked = 1..Len(asked) /\ Len(asked) \in Nat
  <2>1. /\ Tail(asked) \in Seq(K) /\ Len(Tail(asked)) = Len(asked) - 1
        /\ \A i \in 1..Len(Tail(asked)) : Tail(asked)[i] = asked[i + 1]
    BY <1>5, <1>6, HeadTailProperties
  <2>2. Head(asked) = asked[1] /\ DOMAIN asked = 1..Len(asked) /\ Len(asked) \in Nat
    BY <1>5, <1>6
  <2> QED
    BY <2>1, <2>2, <1>0
<1>8. \A p \in An : asked'[Rank(An, p)] = asked[Rank(A, p + 1)]
  <2> SUFFICES ASSUME NEW p \in An PROVE asked'[Rank(An, p)] = asked[Rank(A, p + 1)]
    OBVIOUS
  <2>0. Rank(An, p) \in 1..(a - 1)
    <3>1. An = Where(replies', ListenerAnswer)
      BY DEF An
    <3>2. Rank(An, p) \in 1..Cardinality(An)
      BY <1>1, <3>1, KeptElements
    <3> QED
      BY <3>2, <1>4
  <2>1. Rank(An, p) \in 1..(Len(asked) - 1) /\ Rank(An, p) + 1 = Rank(A, p + 1)
    BY <2>0, <1>4, <1>5
  <2> QED
    BY <2>1, <1>7
<1>9. \A p \in G : asked'[Cardinality(An) + Rank(G, p)] = asked[a + Rank(G, p)]
  <2>1. \A p \in G : /\ Cardinality(An) + Rank(G, p) \in 1..(Len(asked) - 1)
                     /\ (Cardinality(An) + Rank(G, p)) + 1 = a + Rank(G, p)
    <3>1. a >= 1
      BY <1>4, <1>5
    <3> QED
      BY <3>1, <1>4, <1>5
  <2> QED
    BY <2>1, <1>7
<1>10. Len(asked') = Cardinality(An) + Cardinality(G)
  BY <1>4, <1>5, <1>7
<1>11. \A i \in DOMAIN asked' : i + 1 \in DOMAIN asked /\ asked'[i] = asked[i + 1]
  BY <1>7
<1>12. \A i \in DOMAIN asked : i # 1 => i - 1 \in DOMAIN asked' /\ asked'[i - 1] = asked[i]
  <2>1. \A i \in DOMAIN asked : i # 1 => i - 1 \in 1..(Len(asked) - 1) /\ (i - 1) + 1 = i
    BY <1>7
  <2> QED
    BY <2>1, <1>7
<1> QED
  BY <1>0, <1>1, <1>3, <1>4, <1>7, <1>8, <1>9, <1>10, <1>11, <1>12 DEF AskerOfReply, AskerOfGet, r, G

(* A stream that is connected asks last.                                    *)
LEMMA AskersConnected ==
  ASSUME ViewTypes, Matched, NEW k \in DOMAIN streams, Connect(k)
  PROVE  /\ Len(asked') = Cardinality(InitialReplies') + Cardinality(InitialGets')
         /\ InitialReplies' = InitialReplies /\ replies' = replies
         /\ \A p \in InitialReplies : AskerOfReply(p)' = AskerOfReply(p)
         /\ \A p \in InitialGets' :
              \/ p \in InitialGets /\ AskerOfGet(p)' = AskerOfGet(p) /\ commands'[p] = commands[p]
              \/ /\ p = Len(commands) + 1 /\ AskerOfGet(p)' = k /\ commands'[p].op = "get"
                 /\ commands'[p].id = streams[k].id
         /\ \A i \in DOMAIN asked' : (i \in DOMAIN asked /\ asked'[i] = asked[i]) \/ asked'[i] = k
         /\ \A i \in DOMAIN asked : i \in DOMAIN asked' /\ asked'[i] = asked[i]
         /\ Len(asked) + 1 \in DOMAIN asked' /\ asked'[Len(asked) + 1] = k
<1> DEFINE c == [op |-> "get", id |-> streams[k].id, value |-> None]
           A == InitialReplies
           G == Where(commands, ListenerGet)
           Gn == Where(commands', ListenerGet)
           a == Cardinality(A)
           g == Cardinality(G)
           n == Len(commands)
           K == 0..Len(streams)
<1>0. /\ CacheTypes /\ commands \in Seq(Sent) /\ replies' = replies /\ commands' = Append(commands, c)
      /\ asked' = Append(asked, k) /\ UNCHANGED <<store, handled>> /\ k \in K
  BY DEF ViewTypes, BackTypes, FrontTypes, CacheTypes, Connect
<1>1. streams[k].id \in Sensors
  <2>1. streams[k] \in Stream
    BY DEF ViewTypes, FrontTypes
  <2> QED
    BY <2>1 DEF Stream
<1>2. c \in Sent /\ c \in ListenerGet /\ c.op = "get" /\ c.id = streams[k].id
  BY <1>1 DEF Sent, ListenerGet
<1> HIDE DEF c, K
<1>3. CacheTypes'
  BY <1>0, <1>2, AppendElements DEF CacheTypes
<1>4. InitialReplies' = A /\ InitialGets = G /\ InitialGets' = Gn
  BY <1>0, <1>3, Positions, PositionsNext
<1>5. /\ a \in Nat /\ g \in Nat /\ \A p \in A : Rank(A, p) \in 1..a
      /\ \A p \in G : Rank(G, p) \in 1..g
      /\ Len(asked) = a + g /\ asked \in Seq(K)
  BY <1>4, AskersInRange DEF K
<1>6. /\ Gn = Plus(G, n + 1) /\ Cardinality(Gn) = g + 1
      /\ \A p \in G : Rank(Gn, p) = Rank(G, p)
      /\ Rank(Gn, n + 1) = g + 1
  BY <1>0, <1>2, KeptAppend
<1>7. /\ commands'[n + 1] = c /\ \A p \in G : commands'[p] = commands[p]
  <2>1. G \in SUBSET (1..n)
    BY <1>0, WhereChosen
  <2> HIDE DEF G
  <2> QED
    <3>1. commands \in Seq(Sent) /\ c \in Sent
      BY <1>0, <1>2
    <3>2. Append(commands, c)[n + 1] = c /\ \A i \in 1..n : Append(commands, c)[i] = commands[i]
      BY <3>1, AppendProperties
    <3> QED
      BY <2>1, <3>2, <1>0
<1>8. /\ Len(asked') = Len(asked) + 1 /\ asked'[Len(asked) + 1] = k /\ DOMAIN asked = 1..Len(asked)
      /\ \A i \in 1..Len(asked) : asked'[i] = asked[i]
      /\ DOMAIN asked' = 1..(Len(asked) + 1) /\ Len(asked) \in Nat
  BY <1>0, <1>5, AppendProperties
<1> HIDE DEF A, G, Gn, n
<1>9. \A p \in A : asked'[Rank(A, p)] = asked[Rank(A, p)]
  <2>1. \A p \in A : Rank(A, p) \in 1..Len(asked)
    BY <1>5
  <2> QED
    BY <2>1, <1>8
<1>10. \A p \in G : asked'[a + Rank(Gn, p)] = asked[a + Rank(G, p)]
  <2>1. \A p \in G : a + Rank(G, p) \in 1..Len(asked)
    BY <1>5
  <2> QED
    BY <2>1, <1>6, <1>8
<1>11. asked'[a + Rank(Gn, n + 1)] = k
  <2>1. a + Rank(Gn, n + 1) = Len(asked) + 1
    BY <1>5, <1>6
  <2> QED
    BY <2>1, <1>8
<1>12. \A p \in Gn : p \in G \/ p = n + 1
  BY <1>6 DEF Plus
<1>13. Len(asked') = a + Cardinality(Gn)
  BY <1>5, <1>6, <1>8
<1>14. /\ \A i \in DOMAIN asked' : (i \in DOMAIN asked /\ asked'[i] = asked[i]) \/ asked'[i] = k
       /\ \A i \in DOMAIN asked : i \in DOMAIN asked' /\ asked'[i] = asked[i]
       /\ Len(asked) + 1 \in DOMAIN asked'
  BY <1>8
<1> QED
  BY <1>0, <1>2, <1>4, <1>7, <1>8, <1>9, <1>10, <1>11, <1>12, <1>13, <1>14 DEF AskerOfReply, AskerOfGet, A, n

(* No step lets an answer find a stream of another sensor.                  *)
LEMMA InitMatched == ViewInit => Matched
<1> SUFFICES ASSUME ViewInit PROVE Matched
  OBVIOUS
<1>1. commands = <<Flush>> /\ DOMAIN commands = 1..1 /\ commands[1].op = "flush" /\ replies = << >> /\ asked = << >>
  BY DEF ViewInit, Init, Flush
<1>2. InitialReplies = {} /\ InitialGets = {}
  BY <1>1 DEF InitialReplies, InitialGets
<1>3. Cardinality(InitialReplies) = 0 /\ Cardinality(InitialGets) = 0
  BY <1>2, FS_EmptySet
<1> QED
  BY <1>1, <1>2, <1>3 DEF Matched

LEMMA StepMatched ==
  ASSUME ViewTypes, Matched, FlushFirst, [ViewNext]_viewVars
  PROVE  Matched'
<1> USE DEF backend, process, live
<1> DEFINE a == Cardinality(InitialReplies)
           g == Cardinality(InitialGets)
<1>0. CacheTypes /\ CacheTypes' /\ streams \in Seq(Stream)
  BY StepBackTypes DEF ViewTypes, BackTypes, FrontTypes
<1>1. /\ a \in Nat /\ g \in Nat /\ Len(asked) = a + g
      /\ \A p \in InitialReplies : AskerOfReply(p) # 0 => AskerOfReply(p) \in DOMAIN streams
      /\ \A p \in InitialGets : AskerOfGet(p) # 0 => AskerOfGet(p) \in DOMAIN streams
  BY AskersInRange
<1>2. /\ SameStreams
      /\ \A k \in DOMAIN streams : streams'[k].id = streams[k].id
  BY StepStreams DEF SameStreams
<1> HIDE DEF a, g
<1>3. ASSUME UNCHANGED <<commands, replies, asked>> PROVE Matched'
  <2>1. /\ InitialReplies' = InitialReplies /\ InitialGets' = InitialGets
        /\ \A p : AskerOfReply(p)' = AskerOfReply(p) /\ AskerOfGet(p)' = AskerOfGet(p)
    BY <1>3 DEF InitialReplies, InitialGets, AskerOfReply, AskerOfGet
  <2> QED
    BY <2>1, <1>1, <1>2, <1>3 DEF Matched
<1>4. ASSUME NEW c \in Sent, c \notin ListenerGet, commands' = Append(commands, c), UNCHANGED <<replies, asked>>
      PROVE  Matched'
  <2>1. /\ InitialReplies' = InitialReplies /\ InitialGets' = InitialGets
        /\ \A p \in InitialGets : AskerOfGet(p)' = AskerOfGet(p) /\ commands'[p] = commands[p]
        /\ \A p \in InitialReplies : AskerOfReply(p)' = AskerOfReply(p)
    BY <1>0, <1>4, AskersMessage
  <2> QED
    BY <2>1, <1>1, <1>2, <1>4 DEF Matched
<1>5. ASSUME ServeCommand, asked' = asked PROVE Matched'
  <2>1. /\ Cardinality(InitialReplies') + Cardinality(InitialGets') = a + g
        /\ \A p \in InitialGets' :
             /\ p + 1 \in InitialGets /\ AskerOfGet(p)' = AskerOfGet(p + 1)
             /\ commands'[p] = commands[p + 1]
        /\ \A p \in InitialReplies' :
             \/ /\ p \in InitialReplies /\ AskerOfReply(p)' = AskerOfReply(p)
                /\ replies'[p] = replies[p]
             \/ /\ 1 \in InitialGets /\ AskerOfReply(p)' = AskerOfGet(1)
                /\ replies'[p].id = commands[1].id
    BY <1>5, AskersServed DEF a, g
  <2> QED
    BY <2>1, <1>1, <1>2, <1>5 DEF Matched
<1>6. ASSUME MessageReply PROVE Matched'
  <2>1. /\ Cardinality(InitialReplies') = Cardinality(InitialReplies) /\ InitialGets' = InitialGets
        /\ \A p \in InitialGets : AskerOfGet(p)' = AskerOfGet(p) /\ commands'[p] = commands[p]
        /\ \A p \in InitialReplies' :
             /\ p + 1 \in InitialReplies /\ AskerOfReply(p)' = AskerOfReply(p + 1)
             /\ replies'[p] = replies[p + 1]
    BY <1>6, AskersReply
  <2>2. asked' = asked
    BY <1>6 DEF MessageReply
  <2> QED
    BY <2>1, <2>2, <1>1, <1>2 DEF Matched
<1>7. ASSUME ListenerReply PROVE Matched'
  <2>1. /\ Len(asked') = Cardinality(InitialReplies') + Cardinality(InitialGets')
        /\ InitialGets' = InitialGets
        /\ \A p \in InitialGets : AskerOfGet(p)' = AskerOfGet(p) /\ commands'[p] = commands[p]
        /\ \A p \in InitialReplies' :
             /\ p + 1 \in InitialReplies /\ AskerOfReply(p)' = AskerOfReply(p + 1)
             /\ replies'[p] = replies[p + 1]
    BY <1>7, AskersAnswered
  <2> QED
    BY <2>1, <1>1, <1>2 DEF Matched
<1>8. ASSUME NEW k \in DOMAIN streams, Connect(k) PROVE Matched'
  <2>1. /\ Len(asked') = Cardinality(InitialReplies') + Cardinality(InitialGets')
        /\ InitialReplies' = InitialReplies /\ replies' = replies
        /\ \A p \in InitialReplies : AskerOfReply(p)' = AskerOfReply(p)
        /\ \A p \in InitialGets' :
             \/ p \in InitialGets /\ AskerOfGet(p)' = AskerOfGet(p) /\ commands'[p] = commands[p]
             \/ AskerOfGet(p)' = k /\ commands'[p].id = streams[k].id
    BY <1>8, AskersConnected
  <2> QED
    BY <2>1, <1>1, <1>2 DEF Matched
<1>9. ASSUME NEW k \in DOMAIN streams, Drop(k) PROVE Matched'
  <2>1. /\ InitialReplies' = InitialReplies /\ InitialGets' = InitialGets
        /\ UNCHANGED <<commands, replies>>
    BY <1>9 DEF Drop, InitialReplies, InitialGets
  <2>2. asked' = [i \in DOMAIN asked |-> IF asked[i] = k THEN 0 ELSE asked[i]]
    BY <1>9 DEF Drop
  <2>3. Len(asked') = Len(asked)
    <3>1. asked \in Seq(0..Len(streams))
      BY DEF ViewTypes, FrontTypes
    <3>2. DOMAIN asked = 1..Len(asked) /\ Len(asked) \in Nat
      BY <3>1
    <3> QED
      BY <3>2, <2>2
  <2>4. /\ \A p \in InitialReplies : Rank(InitialReplies, p) \in DOMAIN asked
        /\ \A p \in InitialGets : Cardinality(InitialReplies) + Rank(InitialGets, p) \in DOMAIN asked
    BY AskersInRange
  <2>5. /\ \A p \in InitialReplies : AskerOfReply(p)' = IF AskerOfReply(p) = k THEN 0 ELSE AskerOfReply(p)
        /\ \A p \in InitialGets : AskerOfGet(p)' = IF AskerOfGet(p) = k THEN 0 ELSE AskerOfGet(p)
    BY <2>1, <2>2, <2>4 DEF AskerOfReply, AskerOfGet
  <2> QED
    BY <2>1, <2>3, <2>5, <1>1, <1>2 DEF Matched
<1>10. ASSUME Perish PROVE Matched'
  <2>1. InitialReplies' = {} /\ InitialGets' = {} /\ asked' = << >>
    BY <1>10 DEF Perish, Die, InitialReplies, InitialGets
  <2>2. Cardinality(InitialReplies') = 0 /\ Cardinality(InitialGets') = 0
    BY <2>1, FS_EmptySet
  <2> QED
    BY <2>1, <2>2 DEF Matched
<1>11. ASSUME Start, asked' = asked PROVE Matched'
  <2>1. commands = << >> /\ replies = << >> /\ replies' = << >> /\ commands' = <<Flush>>
    BY <1>11 DEF FlushFirst, Start
  <2>2. DOMAIN commands' = 1..1 /\ commands'[1].op = "flush"
    BY <2>1 DEF Flush
  <2>3. InitialReplies = {} /\ InitialGets = {} /\ InitialReplies' = {} /\ InitialGets' = {}
    BY <2>1, <2>2 DEF InitialReplies, InitialGets
  <2> QED
    BY <2>3, <1>11, FS_EmptySet DEF Matched
<1>12. ASSUME OnMessage, asked' = asked PROVE Matched'
  <2> DEFINE c == [op |-> "get", id |-> Head(inbox).id, value |-> Head(inbox).value]
  <2>1. Head(inbox) \in Message
    BY <1>12, HeadTail DEF OnMessage, ViewTypes, BackTypes
  <2>2. c \in Sent /\ c \notin ListenerGet
    BY <2>1, BackendConstants DEF Message, Sent, ListenerGet
  <2>3. commands' = Append(commands, c) /\ replies' = replies
    BY <1>12 DEF OnMessage
  <2> HIDE DEF c
  <2> QED
    BY <2>2, <2>3, <1>4, <1>12
<1>13. ASSUME Unseen PROVE Matched'
  <2>1. asked' = asked
    BY <1>13 DEF Unseen
  <2>2. \A s \in Sensors : Change(s) \/ Publish(s) => UNCHANGED <<commands, replies>>
    BY DEF Change, Publish
  <2> QED
    BY <2>1, <2>2, <1>3, <1>5, <1>11, <1>12, <1>13 DEF Unseen
<1>14. /\ UNCHANGED viewVars \/ Statement \/ GetAllSensors \/ Visit \/ Obey => UNCHANGED <<commands, replies, asked>>
       /\ \A k \in DOMAIN streams : Deliver(k) => UNCHANGED <<commands, replies, asked>>
       /\ \A l \in listings : Show(l) => UNCHANGED <<commands, replies, asked>>
       /\ \A i \in DOMAIN page : Click(i) => UNCHANGED <<commands, replies, asked>>
       /\ \A r \in requests : Act(r) => UNCHANGED <<commands, replies, asked>>
       /\ \A n \in answers : Answered(n) => UNCHANGED <<commands, replies, asked>>
  BY DEF viewVars, Statement, RunStatement, GetAllSensors, Visit, Deliver, Show, Click, Act, Answered, Obey
<1> QED
  BY <1>3, <1>6, <1>7, <1>8, <1>9, <1>10, <1>13, <1>14 DEF ViewNext

(* Redis is cleared before it is sent anything, also with listeners.        *)
LEMMA InitFlushFirst == ViewInit => FlushFirst
<1> SUFFICES ASSUME ViewInit PROVE FlushFirst
  OBVIOUS
<1>1. DOMAIN commands = 1..1 /\ replies = << >> /\ alive
  BY DEF ViewInit, Init, Flush
<1> QED
  BY <1>1 DEF FlushFirst

LEMMA StepFlushFirst ==
  ASSUME ViewTypes, FlushFirst, ~ alive => inbox = << >>, [ViewNext]_viewVars
  PROVE  FlushFirst' /\ (~ alive' => inbox' = << >>)
<1> USE DEF backend, process
<1>0. commands \in Seq(Sent) /\ replies \in Seq(Got) /\ inbox \in Seq(Message) /\ streams \in Seq(Stream)
  BY DEF ViewTypes, BackTypes, FrontTypes, CacheTypes
<1>1. ASSUME UNCHANGED <<commands, replies, alive>>, inbox' = inbox \/ alive
      PROVE  FlushFirst' /\ (~ alive' => inbox' = << >>)
  BY <1>1 DEF FlushFirst, Flushing
<1>2. ASSUME NEW c \in Sent, c.op # "flush", commands' = Append(commands, c), alive, alive' = alive,
             replies' = replies \/ replies # << >>
      PROVE  FlushFirst' /\ (~ alive' => inbox' = << >>)
  <2>1. \A i \in DOMAIN commands' : (i \in DOMAIN commands /\ commands'[i] = commands[i]) \/ commands'[i] = c
    BY <1>0, <1>2, AppendElements
  <2>2. \A i \in DOMAIN commands' : commands'[i].op = "flush" => i = 1
    BY <2>1, <1>2 DEF FlushFirst
  <2>3. Flushing' => replies' = << >>
    <3>1. Flushing' => Flushing
      BY <2>1, <1>2 DEF Flushing
    <3> QED
      BY <3>1, <1>2 DEF FlushFirst
  <2> QED
    BY <2>2, <2>3, <1>2 DEF FlushFirst
<1>3. ASSUME ServeCommand PROVE FlushFirst' /\ (~ alive' => inbox' = << >>)
  <2>1. \A i \in DOMAIN commands' : i + 1 \in DOMAIN commands /\ commands'[i] = commands[i + 1] /\ i \in Nat \ {0}
    BY <1>0, <1>3, HeadTail DEF ServeCommand
  <2>2. \A i \in DOMAIN commands' : commands'[i].op # "flush"
    <3>1. \A i \in DOMAIN commands' : i + 1 # 1
      BY <2>1
    <3> QED
      BY <2>1, <3>1 DEF FlushFirst
  <2>3. alive /\ alive'
    BY <1>3 DEF ServeCommand, FlushFirst
  <2> QED
    BY <2>2, <2>3 DEF FlushFirst, Flushing
<1>4. ASSUME OnMessage PROVE FlushFirst' /\ (~ alive' => inbox' = << >>)
  <2> DEFINE c == [op |-> "get", id |-> Head(inbox).id, value |-> Head(inbox).value]
  <2>1. Head(inbox) \in Message
    BY <1>0, <1>4, HeadTail DEF OnMessage
  <2>2. c \in Sent /\ c.op # "flush"
    BY <2>1 DEF Message, Sent
  <2>3. commands' = Append(commands, c) /\ replies' = replies /\ alive /\ alive' = alive
    BY <1>4 DEF OnMessage
  <2> HIDE DEF c
  <2> QED
    BY <2>2, <2>3, <1>2
<1>5. ASSUME MessageReply PROVE FlushFirst' /\ (~ alive' => inbox' = << >>)
  <2> DEFINE c == [op |-> "set", id |-> Head(replies).id, value |-> Head(replies).value]
  <2>1. Head(replies) \in Got
    BY <1>0, <1>5, HeadTail DEF MessageReply
  <2>2. c \in Sent /\ c.op # "flush"
    BY <2>1 DEF Got, Sent
  <2>3. commands' = Append(commands, c) /\ alive /\ alive' = alive /\ replies # << >> /\ replies' = Tail(replies)
    BY <1>5 DEF MessageReply, OnReply, FlushFirst
  <2> HIDE DEF c
  <2> QED
    BY <2>2, <2>3, <1>2
<1>6. ASSUME ListenerReply PROVE FlushFirst' /\ (~ alive' => inbox' = << >>)
  <2>1. alive /\ ~ Flushing /\ UNCHANGED <<alive, commands>>
    BY <1>6 DEF ListenerReply, FlushFirst
  <2> QED
    BY <2>1 DEF FlushFirst, Flushing
<1>7. ASSUME NEW k \in DOMAIN streams, Connect(k) PROVE FlushFirst' /\ (~ alive' => inbox' = << >>)
  <2> DEFINE c == [op |-> "get", id |-> streams[k].id, value |-> None]
  <2>1. streams[k] \in Stream
    BY <1>0
  <2>2. c \in Sent /\ c.op # "flush"
    BY <2>1 DEF Stream, Sent
  <2>3. commands' = Append(commands, c) /\ replies' = replies /\ alive /\ alive' = alive
    BY <1>7 DEF Connect
  <2> HIDE DEF c
  <2> QED
    BY <2>2, <2>3, <1>2
<1>8. ASSUME Perish PROVE FlushFirst' /\ (~ alive' => inbox' = << >>)
  BY <1>8 DEF Perish, Die, FlushFirst, Flushing
<1>9. ASSUME Start PROVE FlushFirst' /\ (~ alive' => inbox' = << >>)
  <2>1. DOMAIN commands' = 1..1 /\ alive' /\ replies' = << >>
    BY <1>9 DEF Start, FlushFirst, Flush
  <2> QED
    BY <2>1 DEF FlushFirst
<1>10. ASSUME NEW s \in Sensors, Change(s) \/ Publish(s)
       PROVE  UNCHANGED <<commands, replies, alive>> /\ (inbox' = inbox \/ alive)
  BY <1>10 DEF Change, Publish
<1>11. /\ UNCHANGED viewVars \/ Statement \/ GetAllSensors \/ Visit \/ Obey => UNCHANGED <<commands, replies, alive, inbox>>
       /\ \A k \in DOMAIN streams : Drop(k) \/ Deliver(k) => UNCHANGED <<commands, replies, alive, inbox>>
       /\ \A l \in listings : Show(l) => UNCHANGED <<commands, replies, alive, inbox>>
       /\ \A i \in DOMAIN page : Click(i) => UNCHANGED <<commands, replies, alive, inbox>>
       /\ \A r \in requests : Act(r) => UNCHANGED <<commands, replies, alive, inbox>>
       /\ \A n \in answers : Answered(n) => UNCHANGED <<commands, replies, alive, inbox>>
  BY DEF viewVars, Statement, RunStatement, GetAllSensors, Visit, Drop, Deliver, Show, Click, Act, Answered, Obey
<1>12. Unseen => FlushFirst' /\ (~ alive' => inbox' = << >>)
  BY <1>1, <1>3, <1>4, <1>9, <1>10 DEF Unseen
<1> QED
  BY <1>1, <1>5, <1>6, <1>7, <1>8, <1>11, <1>12 DEF ViewNext

(* Redis holds what the messages handled say, as it does alone.             *)
LEMMA AppendCached ==
  ASSUME ViewTypes, Cached, NEW c \in Sent, commands' = Append(commands, c), c.op = "get",
         UNCHANGED <<alive, store, handled>>
  PROVE  Cached'
<1>0. CacheTypes /\ commands \in Seq(Sent)
  BY DEF ViewTypes, BackTypes, CacheTypes
<1>1. Flushing' = Flushing
  <2>1. \A i \in DOMAIN commands : i \in DOMAIN commands' /\ commands'[i] = commands[i]
    BY <1>0, AppendElements
  <2>2. \A i \in DOMAIN commands' : (i \in DOMAIN commands /\ commands'[i] = commands[i]) \/ commands'[i] = c
    BY <1>0, AppendElements
  <2> QED
    BY <2>1, <2>2 DEF Flushing
<1>2. ASSUME alive, NEW s \in Sensors
      PROVE  LastSet(s)' \/ (Unset(s)' /\ (~ Flushing' => store'[s] = handled'[s]))
  <2>1. LastSet(s) \/ (Unset(s) /\ (~ Flushing => store[s] = handled[s]))
    BY <1>2 DEF Cached
  <2> QED
    BY <2>1, <1>0, BehindCached
<1> QED
  BY <1>1, <1>2 DEF Cached

LEMMA StepViewCached ==
  ASSUME ViewTypes, FlushFirst, Cached, [ViewNext]_viewVars
  PROVE  Cached'
<1> USE DEF backend, process
<1>0. CacheTypes /\ inbox \in Seq(Message) /\ streams \in Seq(Stream)
  BY DEF ViewTypes, BackTypes, FrontTypes
<1>1. ASSUME UNCHANGED <<alive, commands, store, handled>> PROVE Cached'
  BY <1>1 DEF Cached, LastSet, Unset, SetOf, Flushing
<1>2. ASSUME OnMessage PROVE Cached'
  <2> DEFINE c == [op |-> "get", id |-> Head(inbox).id, value |-> Head(inbox).value]
  <2>1. Head(inbox) \in Message
    BY <1>0, <1>2, HeadTail DEF OnMessage
  <2>2. c \in Sent /\ c.op = "get"
    BY <2>1 DEF Message, Sent
  <2>3. commands' = Append(commands, c) /\ UNCHANGED <<alive, store, handled>>
    BY <1>2 DEF OnMessage
  <2> HIDE DEF c
  <2> QED
    BY <2>2, <2>3, AppendCached
<1>3. ASSUME NEW k \in DOMAIN streams, Connect(k) PROVE Cached'
  <2> DEFINE c == [op |-> "get", id |-> streams[k].id, value |-> None]
  <2>1. streams[k] \in Stream
    BY <1>0
  <2>2. c \in Sent /\ c.op = "get"
    BY <2>1 DEF Stream, Sent
  <2>3. commands' = Append(commands, c) /\ UNCHANGED <<alive, store, handled>>
    BY <1>3 DEF Connect
  <2> HIDE DEF c
  <2> QED
    BY <2>2, <2>3, AppendCached
<1>4. ASSUME Perish PROVE Cached'
  BY <1>4 DEF Perish, Die, Cached
<1>5. ASSUME Start PROVE Cached'
  <2>1. DOMAIN commands' = 1..1 /\ commands'[1] = Flush /\ Flush.op = "flush"
    BY <1>5 DEF Start, Flush
  <2>2. Flushing' /\ \A s \in Sensors : Unset(s)'
    BY <2>1 DEF Flushing, Unset, SetOf
  <2>3. handled' = Nothing
    BY <1>5 DEF Start, Cached
  <2> QED
    BY <2>2, <2>3 DEF Cached, Nothing
<1>6. ServeCommand \/ MessageReply => Cached'
  BY <1>0, ServeCached, ReplyCached DEF MessageReply
<1>7. ASSUME NEW s \in Sensors, Change(s) \/ Publish(s) PROVE UNCHANGED <<alive, commands, store, handled>>
  BY <1>7 DEF Change, Publish
<1>8. /\ UNCHANGED viewVars \/ Statement \/ GetAllSensors => UNCHANGED <<alive, commands, store, handled>>
      /\ ListenerReply \/ Visit \/ Obey => UNCHANGED <<alive, commands, store, handled>>
      /\ \A k \in DOMAIN streams : Drop(k) \/ Deliver(k) => UNCHANGED <<alive, commands, store, handled>>
      /\ \A l \in listings : Show(l) => UNCHANGED <<alive, commands, store, handled>>
      /\ \A i \in DOMAIN page : Click(i) => UNCHANGED <<alive, commands, store, handled>>
      /\ \A r \in requests : Act(r) => UNCHANGED <<alive, commands, store, handled>>
      /\ \A n \in answers : Answered(n) => UNCHANGED <<alive, commands, store, handled>>
  BY DEF viewVars, Statement, RunStatement, GetAllSensors, ListenerReply, Visit, Drop, Deliver, Show, Click, Act,
         Answered, Obey
<1>9. Unseen => Cached'
  BY <1>1, <1>2, <1>5, <1>6, <1>7 DEF Unseen
<1> QED
  BY <1>1, <1>3, <1>4, <1>6, <1>8, <1>9 DEF ViewNext

-----------------------------------------------------------------------------
(* Only an open stream waits for an answer, a closed one has lost what it   *)
(* held, and with the process all are closed.                               *)
Connections ==
  /\ \A n \in DOMAIN asked : asked[n] # 0 => streams[asked[n]].open
  /\ \A k \in DOMAIN streams : ~ streams[k].open => streams[k].pipe = << >>
  /\ ~ alive => /\ asked = << >> /\ inbox = << >>
                /\ \A k \in DOMAIN streams : ~ streams[k].open

LEMMA StepConnections ==
  ASSUME ViewTypes, Matched, FlushFirst, Connections, [ViewNext]_viewVars
  PROVE  Connections'
<1> USE DEF backend, process, live
<1>0. /\ streams \in Seq(Stream) /\ DOMAIN streams = 1..Len(streams) /\ Len(streams) \in Nat
      /\ asked \in Seq(0..Len(streams))
  BY DEF ViewTypes, FrontTypes
<1>1. \A n \in DOMAIN asked : asked[n] # 0 => asked[n] \in DOMAIN streams
  <2>1. \A n \in DOMAIN asked : asked[n] \in 0..Len(streams)
    BY <1>0
  <2> QED
    BY <2>1, <1>0
<1>2. ~ alive' => inbox' = << >>
  BY StepFlushFirst DEF Connections
<1>3. ASSUME UNCHANGED <<asked, streams>>, alive' = alive \/ alive'
      PROVE  Connections'
  BY <1>2, <1>3 DEF Connections
<1>4. ASSUME MessageReply PROVE Connections'
  <2>1. alive' /\ asked' = asked
    BY <1>4 DEF MessageReply, OnReply, FlushFirst
  <2>2. CASE streams' = streams
    BY <2>1, <2>2 DEF Connections
  <2>3. CASE streams' = Emitted(Head(replies).id, Head(replies).value)
    <3>1. Head(replies).value \in Values
      <4>1. Head(replies) \in Got
        BY <1>4, HeadTail DEF MessageReply, ViewTypes, BackTypes, CacheTypes
      <4> QED
        BY <4>1, <1>4 DEF MessageReply, Got
    <3>2. /\ DOMAIN streams' = DOMAIN streams
          /\ \A k \in DOMAIN streams :
               /\ k \in Listeners(Head(replies).id) => streams'[k].open = streams[k].open
               /\ k \notin Listeners(Head(replies).id) => streams'[k] = streams[k]
      BY <1>0, <2>3, <3>1, EmittedStreams
    <3>3. \A k \in Listeners(Head(replies).id) : streams[k].open
      BY DEF Listeners
    <3> QED
      BY <2>1, <3>2, <3>3, <1>1 DEF Connections
  <2> QED
    BY <2>2, <2>3, <1>4 DEF MessageReply
<1>5. ASSUME ListenerReply PROVE Connections'
  <2> DEFINE k == Head(asked)
             v == Head(replies).found
  <2>1. alive'
    BY <1>5 DEF ListenerReply, FlushFirst
  <2>2. \A i \in DOMAIN asked' : i + 1 \in DOMAIN asked /\ asked'[i] = asked[i + 1]
    BY <1>5, AskersAnswered
  <2>3. 1 \in DOMAIN asked /\ asked[1] = k
    BY <1>0, <1>5, SomeoneAsked, HeadTail DEF ListenerReply
  <2>4. /\ DOMAIN streams' = DOMAIN streams
        /\ k # 0 /\ v # None => /\ streams'[k].open = streams[k].open
                                /\ \A j \in DOMAIN streams : j # k => streams'[j] = streams[j]
        /\ k = 0 \/ v = None => streams' = streams
    BY <1>5, AnsweredStream
  <2> HIDE DEF k, v
  <2>5. k # 0 => streams[k].open
    BY <2>3 DEF Connections
  <2>6. \A j \in DOMAIN streams : /\ streams'[j].open = streams[j].open
                                  /\ ~ streams[j].open => streams'[j] = streams[j]
    BY <2>4, <2>5
  <2>7. \A n \in DOMAIN asked' : asked'[n] # 0 => streams'[asked'[n]].open
    BY <2>2, <2>6, <1>1 DEF Connections
  <2>8. \A j \in DOMAIN streams' : ~ streams'[j].open => streams'[j].pipe = << >>
    BY <2>4, <2>6 DEF Connections
  <2> QED
    BY <2>1, <2>7, <2>8 DEF Connections
<1>6. ASSUME NEW k \in DOMAIN streams, Connect(k) PROVE Connections'
  <2>1. alive'
    BY <1>6 DEF Connect
  <2>2. /\ DOMAIN streams' = DOMAIN streams /\ streams'[k].open
        /\ \A j \in DOMAIN streams : j # k => streams'[j] = streams[j]
    BY <1>6, OneStream
  <2>3. \A i \in DOMAIN asked' : (i \in DOMAIN asked /\ asked'[i] = asked[i]) \/ asked'[i] = k
    BY <1>6, AskersConnected
  <2> QED
    BY <2>1, <2>2, <2>3, <1>1 DEF Connections
<1>7. ASSUME NEW k \in DOMAIN streams, Drop(k) PROVE Connections'
  <2>1. alive' = alive /\ asked' = [i \in DOMAIN asked |-> IF asked[i] = k THEN 0 ELSE asked[i]]
    BY <1>7 DEF Drop
  <2>2. /\ DOMAIN streams' = DOMAIN streams /\ streams'[k].open = FALSE /\ streams'[k].pipe = << >>
        /\ \A j \in DOMAIN streams : j # k => streams'[j] = streams[j]
    BY <1>7, OneStream
  <2>3. streams[k].open
    BY <1>7 DEF Drop
  <2>4. alive
    BY <2>3 DEF Connections
  <2> QED
    BY <2>1, <2>2, <2>4, <1>1 DEF Connections
<1>8. ASSUME NEW k \in DOMAIN streams, Deliver(k) PROVE Connections'
  <2>1. UNCHANGED <<alive, asked, inbox>>
    BY <1>8 DEF Deliver
  <2>2. /\ DOMAIN streams' = DOMAIN streams /\ streams'[k].open = streams[k].open
        /\ \A j \in DOMAIN streams : j # k => streams'[j] = streams[j]
    BY <1>8, OneStream
  <2>3. streams[k].pipe # << >>
    BY <1>8 DEF Deliver
  <2> QED
    BY <2>1, <2>2, <2>3, <1>1 DEF Connections
<1>9. ASSUME Perish PROVE Connections'
  <2>1. /\ DOMAIN streams' = DOMAIN streams
        /\ \A k \in DOMAIN streams : streams'[k].open = FALSE /\ streams'[k].pipe = << >>
    BY <1>0, <1>9, ClosedStreams DEF Perish
  <2>2. asked' = << >> /\ inbox' = << >>
    BY <1>9 DEF Perish, Die
  <2> QED
    BY <2>1, <2>2 DEF Connections
<1>10. ASSUME NEW l \in listings, Show(l) PROVE Connections'
  <2>1. UNCHANGED <<alive, asked, inbox>>
    BY <1>10 DEF Show
  <2>2. /\ \A k \in DOMAIN streams : k \in DOMAIN streams' /\ streams'[k] = streams[k]
        /\ \A i \in DOMAIN l.sensors : streams'[Len(streams) + i] = Source(i, l.sensors[i].id)
        /\ DOMAIN streams' = 1..(Len(streams) + Len(l.sensors)) /\ l.sensors \in Shows
    BY <1>10, ShownStreams DEF SameStreams
  <2>3. \A k \in DOMAIN streams' :
          k \in DOMAIN streams \/ (streams'[k].open = FALSE /\ streams'[k].pipe = << >>)
    <3> SUFFICES ASSUME NEW k \in DOMAIN streams', k \notin DOMAIN streams
                 PROVE  streams'[k].open = FALSE /\ streams'[k].pipe = << >>
      OBVIOUS
    <3>1. DOMAIN l.sensors = 1..Len(l.sensors) /\ Len(l.sensors) \in Nat
      BY <2>2 DEF Shows
    <3>2. k - Len(streams) \in DOMAIN l.sensors /\ k = Len(streams) + (k - Len(streams))
      BY <3>1, <2>2, <1>0
    <3>3. streams'[k] = Source(k - Len(streams), l.sensors[k - Len(streams)].id)
      BY <3>2, <2>2
    <3> QED
      BY <3>3 DEF Source
  <2> QED
    BY <2>1, <2>2, <2>3, <1>1 DEF Connections
<1>11. /\ UNCHANGED viewVars \/ Statement \/ GetAllSensors => UNCHANGED <<alive, asked, streams>>
       /\ Visit \/ Obey => UNCHANGED <<alive, asked, streams>>
       /\ \A i \in DOMAIN page : Click(i) => UNCHANGED <<alive, asked, streams>>
       /\ \A r \in requests : Act(r) => UNCHANGED <<alive, asked, streams>>
       /\ \A n \in answers : Answered(n) => UNCHANGED <<alive, asked, streams>>
  BY DEF viewVars, Statement, RunStatement, GetAllSensors, Visit, Click, Act, Answered, Obey
<1>12. Unseen => UNCHANGED <<asked, streams>> /\ (alive' = alive \/ alive')
  BY DEF Unseen, Change, Publish, ServeCommand, OnMessage, Start
<1> QED
  BY <1>3, <1>4, <1>5, <1>6, <1>7, <1>8, <1>9, <1>10, <1>11, <1>12 DEF ViewNext

-----------------------------------------------------------------------------
(* What holds of the queues and the connections.                            *)
ViewBase == ViewTypes /\ Matched /\ FlushFirst /\ Connections /\ Cached

LEMMA InitViewBase == ViewInit => ViewBase
<1> SUFFICES ASSUME ViewInit PROVE ViewBase
  OBVIOUS
<1>1. ViewTypes /\ Matched /\ FlushFirst
  BY InitViewTypes, InitMatched, InitFlushFirst
<1>2. Connections
  BY DEF ViewInit, Init, Connections
<1>3. Cached
  BY InitCached DEF ViewInit
<1> QED
  BY <1>1, <1>2, <1>3 DEF ViewBase

LEMMA StepViewBase == ViewBase /\ [ViewNext]_viewVars => ViewBase'
<1> SUFFICES ASSUME ViewBase, [ViewNext]_viewVars PROVE ViewBase'
  OBVIOUS
<1>1. ViewTypes /\ Matched /\ FlushFirst /\ Connections /\ Cached
  BY DEF ViewBase
<1>2. BackTypes' /\ FrontTypes'
  BY <1>1, StepBackTypes, StepFrontTypes
<1>3. Matched' /\ Connections' /\ Cached'
  BY <1>1, StepMatched, StepConnections, StepViewCached
<1>4. FlushFirst'
  BY <1>1, StepFlushFirst DEF Connections
<1> QED
  BY <1>2, <1>3, <1>4 DEF ViewBase, ViewTypes

LEMMA MatchedWaiting == ViewTypes /\ Matched => InitialsMatch
<1> SUFFICES ASSUME ViewTypes, Matched PROVE InitialsMatch
  OBVIOUS
<1> DEFINE A == InitialReplies
           G == InitialGets
           KA == Subsequence(replies, A)
           KG == Subsequence(commands, G)
           a == Cardinality(A)
           g == Cardinality(G)
<1>0. replies \in Seq(Got) /\ commands \in Seq(Sent) /\ CacheTypes
  BY DEF ViewTypes, BackTypes, CacheTypes
<1>1. A = Where(replies, ListenerAnswer) /\ G = Where(commands, ListenerGet)
  BY <1>0, Positions
<1>2. KA = Kept(replies, ListenerAnswer) /\ KG = Kept(commands, ListenerGet)
  BY <1>1 DEF Kept
<1> HIDE DEF KA, KG, A, G
<1>3. /\ KA \in Seq(Got) /\ Len(KA) = a /\ a \in Nat
      /\ \A m \in 1..a : \E p \in A : Rank(A, p) = m /\ KA[m] = replies[p]
  BY <1>0, <1>1, <1>2, KeptElements
<1>4. /\ KG \in Seq(Sent) /\ Len(KG) = g /\ g \in Nat
      /\ \A m \in 1..g : \E p \in G : Rank(G, p) = m /\ KG[m] = commands[p]
  BY <1>0, <1>1, <1>2, KeptElements
<1> DEFINE W == KA \o KG
<1>5. /\ Len(W) = a + g /\ \A i \in 1..a : W[i] = KA[i]
      /\ \A i \in 1..g : W[a + i] = KG[i]
  <2>1. KA \in Seq(Got \cup Sent) /\ KG \in Seq(Got \cup Sent)
    <3> DEFINE U == Got \cup Sent
    <3>1. Got \subseteq U /\ Sent \subseteq U
      OBVIOUS
    <3> HIDE DEF U
    <3>2. KA \in Seq(U) /\ KG \in Seq(U)
      BY <3>1, <1>3, <1>4, SeqWider
    <3> QED
      BY <3>2 DEF U
  <2>2. /\ Len(W) = Len(KA) + Len(KG) /\ \A i \in 1..Len(KA) : W[i] = KA[i]
        /\ \A i \in 1..Len(KG) : W[Len(KA) + i] = KG[i]
    <3> DEFINE U == Got \cup Sent
    <3>1. KA \in Seq(U) /\ KG \in Seq(U)
      BY <2>1
    <3> HIDE DEF U
    <3>2. DOMAIN KA = 1..Len(KA) /\ Len(KA) \in Nat /\ DOMAIN KG = 1..Len(KG) /\ Len(KG) \in Nat
      BY <3>1
    <3>3. /\ Len(KA \o KG) = Len(KA) + Len(KG)
          /\ \A i \in 1..(Len(KA) + Len(KG)) :
               (KA \o KG)[i] = IF i <= Len(KA) THEN KA[i] ELSE KG[i - Len(KA)]
      BY <3>1, ConcatProperties
    <3>4. \A i \in 1..Len(KG) : /\ Len(KA) + i \in 1..(Len(KA) + Len(KG)) /\ ~ (Len(KA) + i <= Len(KA))
                               /\ (Len(KA) + i) - Len(KA) = i
      BY <3>2
    <3>5. \A i \in 1..Len(KA) : i \in 1..(Len(KA) + Len(KG)) /\ i <= Len(KA)
      BY <3>2
    <3> QED
      BY <3>3, <3>4, <3>5
  <2> HIDE DEF W
  <2> QED
    BY <2>2, <1>3, <1>4
<1>6. Len(asked) = a + g /\ DOMAIN asked = 1..(a + g)
  <2>1. Len(asked) = a + g
    BY DEF Matched, A, G
  <2>2. asked \in Seq(0..Len(streams))
    BY DEF ViewTypes, FrontTypes
  <2> QED
    BY <2>1, <2>2
<1> HIDE DEF W, a, g
<1>7. ASSUME NEW i \in DOMAIN asked, asked[i] # 0
      PROVE  streams[asked[i]].id = W[i].id
  <2>1. CASE i \in 1..a
    <3>1. PICK p \in A : Rank(A, p) = i /\ KA[i] = replies[p]
      BY <2>1, <1>3
    <3>2. AskerOfReply(p) = asked[i]
      BY <3>1 DEF AskerOfReply, A
    <3> QED
      BY <3>1, <3>2, <2>1, <1>5, <1>7 DEF Matched, A
  <2>2. CASE i \notin 1..a
    <3>0. i - a \in 1..g /\ a + (i - a) = i
      BY <2>2, <1>3, <1>4, <1>6
    <3>1. PICK p \in G : Rank(G, p) = i - a /\ KG[i - a] = commands[p]
      BY <3>0, <1>4
    <3>2. AskerOfGet(p) = asked[i]
      BY <3>0, <3>1 DEF AskerOfGet, A, G, a
    <3>3. W[i] = KG[i - a]
      BY <3>0, <1>5
    <3> QED
      BY <3>1, <3>2, <3>3, <1>7 DEF Matched, G
  <2> QED
    BY <2>1, <2>2
<1>8. W = Subsequence(replies, InitialReplies) \o Subsequence(commands, InitialGets)
  BY DEF W, KA, KG, A, G
<1> QED
  BY <1>5, <1>6, <1>7, <1>8 DEF InitialsMatch

(* Whatever connections fail and whatever messages are answered in between, *)
(* the initial value Redis answers goes to a stream of the sensor that was  *)
(* asked for, or to none.                                                   *)
THEOREM InitialsAlwaysMatch == ViewSpec => []InitialsMatch
<1>1. ViewBase => InitialsMatch
  BY MatchedWaiting DEF ViewBase
<1>2. ViewSpec => []ViewBase
  BY InitViewBase, StepViewBase, PTL DEF ViewSpec
<1> QED
  BY <1>1, <1>2, PTL

-----------------------------------------------------------------------------
(* What a GET at a position will find, as the commands ahead of it say.     *)
Finds(p, s, v) ==
  \/ \E i \in DOMAIN commands :
       /\ i < p /\ SetOf(i, s) /\ commands[i].value = v
       /\ \A j \in DOMAIN commands : i < j /\ j < p => ~ SetOf(j, s)
  \/ /\ \A i \in DOMAIN commands : i < p => ~ SetOf(i, s)
     /\ IF \E i \in DOMAIN commands : i < p /\ commands[i].op = "flush" THEN v = None ELSE store[s] = v

(* A command behind it changes nothing, and Redis comes nearer.             *)
LEMMA FindsAppend ==
  ASSUME commands \in Seq(Sent), NEW c \in Sent, commands' = Append(commands, c), store' = store,
         NEW p \in DOMAIN commands, NEW s, NEW v, Finds(p, s, v)
  PROVE  Finds(p, s, v)'
<1>1. /\ DOMAIN commands = 1..Len(commands) /\ DOMAIN commands' = 1..(Len(commands) + 1)
      /\ Len(commands) \in Nat
      /\ \A i \in 1..Len(commands) : commands'[i] = commands[i]
  BY AppendProperties, LenProperties
<1>2. \A i \in DOMAIN commands' : i < p => i \in DOMAIN commands /\ commands'[i] = commands[i]
  BY <1>1
<1>3. \A i \in DOMAIN commands : i \in DOMAIN commands' /\ commands'[i] = commands[i]
  BY <1>1
<1>4. CASE \E i \in DOMAIN commands :
             /\ i < p /\ SetOf(i, s) /\ commands[i].value = v
             /\ \A j \in DOMAIN commands : i < j /\ j < p => ~ SetOf(j, s)
  BY <1>2, <1>3, <1>4 DEF Finds, SetOf
<1>5. CASE /\ \A i \in DOMAIN commands : i < p => ~ SetOf(i, s)
           /\ IF \E i \in DOMAIN commands : i < p /\ commands[i].op = "flush" THEN v = None ELSE store[s] = v
  <2>1. \A i \in DOMAIN commands' : i < p => ~ (commands'[i].op = "set" /\ commands'[i].id = s)
    BY <1>2, <1>5 DEF SetOf
  <2>2. (\E i \in DOMAIN commands' : i < p /\ commands'[i].op = "flush")
          <=> \E i \in DOMAIN commands : i < p /\ commands[i].op = "flush"
    BY <1>2, <1>3
  <2> QED
    BY <2>1, <2>2, <1>5 DEF Finds, SetOf
<1> QED
  BY <1>4, <1>5 DEF Finds

LEMMA FindsServed ==
  ASSUME CacheTypes, FlushFirst, ServeCommand, NEW p \in DOMAIN commands', NEW s \in Sensors, NEW v,
         Finds(p + 1, s, v)
  PROVE  Finds(p, s, v)'
<1> DEFINE c == commands[1]
<1>0. commands \in Seq(Sent) /\ commands # << >> /\ commands' = Tail(commands)
  BY DEF CacheTypes, ServeCommand
<1>1. c \in Sent /\ c = Head(commands) /\ 1 \in DOMAIN commands
  BY <1>0, HeadTail
<1>2. \A i \in DOMAIN commands' : i + 1 \in DOMAIN commands /\ commands'[i] = commands[i + 1] /\ i \in Nat \ {0}
  BY <1>0, HeadTail
<1>3. \A i \in DOMAIN commands : i # 1 => i - 1 \in DOMAIN commands' /\ commands'[i - 1] = commands[i]
  BY <1>0, HeadTail
<1>9. \A i \in DOMAIN commands : i \in Nat
  BY <1>0, LenProperties
<1>4. p \in Nat \ {0}
  BY <1>2
<1>5. \A i \in DOMAIN commands' : commands'[i].op # "flush"
  <2>1. \A i \in DOMAIN commands' : i + 1 # 1
    BY <1>2
  <2> QED
    BY <2>1, <1>2 DEF FlushFirst
<1>6. ASSUME NEW i \in DOMAIN commands, i < p + 1, SetOf(i, s), commands[i].value = v,
             \A j \in DOMAIN commands : i < j /\ j < p + 1 => ~ SetOf(j, s)
      PROVE  Finds(p, s, v)'
  <2>1. CASE i = 1
    <3>1. store' = [store EXCEPT ![c.id] = c.value] /\ c.id = s /\ c.value = v
      BY <2>1, <1>1, <1>6 DEF ServeCommand, SetOf
    <3>2. store'[s] = v
      BY <3>1 DEF CacheTypes
    <3>3. \A j \in DOMAIN commands' : j < p => 1 < j + 1 /\ j + 1 < p + 1
      BY <1>2, <1>4
    <3>4. \A j \in DOMAIN commands' : j < p => ~ (commands'[j].op = "set" /\ commands'[j].id = s)
      BY <2>1, <3>3, <1>2, <1>6 DEF SetOf
    <3> QED
      BY <3>2, <3>4, <1>5 DEF Finds, SetOf
  <2>2. CASE i # 1
    <3>0. i \in Nat
      BY <1>9, <1>6
    <3>1. i - 1 \in DOMAIN commands' /\ commands'[i - 1] = commands[i]
      BY <2>2, <1>3, <1>6
    <3>4. i - 1 < p
      BY <3>0, <1>4, <1>6
    <3>2. \A j \in DOMAIN commands' : i - 1 < j /\ j < p => i < j + 1 /\ j + 1 < p + 1
      <4>1. \A j \in Nat : i - 1 < j /\ j < p => i < j + 1 /\ j + 1 < p + 1
        BY <3>0, <1>4
      <4>2. \A j \in DOMAIN commands' : j \in Nat
        BY <1>2
      <4> QED
        BY <4>1, <4>2
    <3>3. \A j \in DOMAIN commands' : i - 1 < j /\ j < p => ~ (commands'[j].op = "set" /\ commands'[j].id = s)
      BY <3>2, <1>2, <1>6 DEF SetOf
    <3> QED
      BY <3>1, <3>3, <3>4, <1>6 DEF Finds, SetOf
  <2> QED
    BY <2>1, <2>2
<1>7. ASSUME \A i \in DOMAIN commands : i < p + 1 => ~ SetOf(i, s),
             IF \E i \in DOMAIN commands : i < p + 1 /\ commands[i].op = "flush" THEN v = None ELSE store[s] = v
      PROVE  Finds(p, s, v)'
  <2>1. \A j \in DOMAIN commands' : j < p => ~ (commands'[j].op = "set" /\ commands'[j].id = s)
    <3>1. \A j \in DOMAIN commands' : j < p => j + 1 < p + 1
      BY <1>2, <1>4
    <3> QED
      BY <3>1, <1>2, <1>7 DEF SetOf
  <2>2. 1 < p + 1
    BY <1>4
  <2>3. store'[s] = v
    <3>1. CASE c.op = "flush"
      <4>1. store' = Nothing /\ v = None
        BY <3>1, <2>2, <1>1, <1>7 DEF ServeCommand
      <4> QED
        BY <4>1 DEF Nothing
    <3>2. CASE c.op # "flush"
      <4>1. ~ \E i \in DOMAIN commands : i < p + 1 /\ commands[i].op = "flush"
        BY <3>2 DEF FlushFirst
      <4>2. store[s] = v
        BY <4>1, <1>7
      <4>3. CASE c.op = "set"
        <5>1. c.id # s /\ c.id \in Sensors
          BY <4>3, <2>2, <1>1, <1>7 DEF SetOf, Sent, Flush
        <5> QED
          BY <4>2, <4>3, <5>1, <1>1 DEF ServeCommand, CacheTypes
      <4>4. CASE c.op = "get"
        BY <4>2, <4>4, <1>1 DEF ServeCommand
      <4> QED
        BY <3>2, <4>3, <4>4, <1>1 DEF Sent, Flush
    <3> QED
      BY <3>1, <3>2
  <2> QED
    BY <2>1, <2>3, <1>5 DEF Finds, SetOf
<1> QED
  BY <1>6, <1>7 DEF Finds

LEMMA FindsFirst ==
  ASSUME commands \in Seq(Sent), NEW s, NEW v, Finds(1, s, v)
  PROVE  store[s] = v
<1>1. \A i \in DOMAIN commands : ~ (i < 1)
  OBVIOUS
<1> QED
  BY <1>1 DEF Finds

(* The GET of a listener put behind the rest will find the last message.    *)
LEMMA FindsLast ==
  ASSUME CacheTypes, Cached, alive, NEW c \in Sent, commands' = Append(commands, c), store' = store,
         NEW n, n = Len(commands) + 1, NEW s \in Sensors, NEW v, v = handled[s]
  PROVE  Finds(n, s, v)'
<1>1. /\ DOMAIN commands = 1..Len(commands) /\ DOMAIN commands' = 1..(Len(commands) + 1)
      /\ Len(commands) \in Nat
      /\ \A i \in 1..Len(commands) : commands'[i] = commands[i]
  BY AppendProperties, LenProperties DEF CacheTypes
<1>2. \A i \in DOMAIN commands' : i < n => i \in DOMAIN commands /\ commands'[i] = commands[i]
  BY <1>1
<1>3. \A i \in DOMAIN commands : i \in DOMAIN commands' /\ commands'[i] = commands[i] /\ i < n
  BY <1>1
<1>4. CASE LastSet(s)
  <2> PICK i \in DOMAIN commands :
        /\ SetOf(i, s) /\ commands[i].value = handled[s]
        /\ \A j \in DOMAIN commands : j > i => ~ SetOf(j, s)
    BY <1>4 DEF LastSet
  <2>1. \A j \in DOMAIN commands' : i < j /\ j < n => ~ (commands'[j].op = "set" /\ commands'[j].id = s)
    BY <1>2 DEF SetOf
  <2> QED
    BY <2>1, <1>3 DEF Finds, SetOf
<1>5. CASE Unset(s) /\ (~ Flushing => store[s] = handled[s])
  <2>1. \A j \in DOMAIN commands' : j < n => ~ (commands'[j].op = "set" /\ commands'[j].id = s)
    BY <1>2, <1>5 DEF Unset, SetOf
  <2>2. CASE Flushing
    <3>1. v = None
      BY <2>2 DEF Cached, Nothing
    <3>2. \E i \in DOMAIN commands' : i < n /\ commands'[i].op = "flush"
      BY <2>2, <1>3 DEF Flushing
    <3> QED
      BY <2>1, <3>1, <3>2 DEF Finds, SetOf
  <2>3. CASE ~ Flushing
    <3>1. store'[s] = v
      BY <2>3, <1>5
    <3>2. ~ \E i \in DOMAIN commands' : i < n /\ commands'[i].op = "flush"
      BY <2>3, <1>2 DEF Flushing
    <3> QED
      BY <2>1, <3>1, <3>2 DEF Finds, SetOf
  <2> QED
    BY <2>2, <2>3
<1> QED
  BY <1>4, <1>5 DEF Cached

-----------------------------------------------------------------------------
(* The initial value of a stream that was told nothing, and missed nothing, *)
(* since it connected is the last value handled, whether it is answered or  *)
(* is to be found.                                                          *)
Fresh(k) == k # 0 /\ ~ streams[k].spoke /\ k \notin behind

InitialsRight ==
  /\ \A p \in InitialReplies : Fresh(AskerOfReply(p)) => replies[p].found = handled[replies[p].id]
  /\ \A p \in InitialGets :
       Fresh(AskerOfGet(p)) => Finds(p, commands[p].id, handled[commands[p].id])

(* What an asker asked for, and that it listens.                            *)
LEMMA AskersListen ==
  ASSUME ViewTypes, Matched, Connections
  PROVE  /\ \A p \in InitialReplies :
              /\ p \in DOMAIN replies /\ replies[p].id \in Sensors
              /\ AskerOfReply(p) # 0 => /\ AskerOfReply(p) \in DOMAIN streams
                                        /\ AskerOfReply(p) \in Listeners(replies[p].id)
         /\ \A p \in InitialGets :
              /\ p \in DOMAIN commands /\ commands[p].id \in Sensors
              /\ AskerOfGet(p) # 0 => /\ AskerOfGet(p) \in DOMAIN streams
                                      /\ AskerOfGet(p) \in Listeners(commands[p].id)
<1>1. /\ \A p \in InitialReplies : p \in DOMAIN replies /\ replies[p] \in Got
      /\ \A p \in InitialGets : p \in DOMAIN commands /\ commands[p] \in Sent /\ commands[p].op = "get"
  BY DEF InitialReplies, InitialGets, ViewTypes, BackTypes, CacheTypes
<1>2. /\ \A p \in InitialReplies : replies[p].id \in Sensors
      /\ \A p \in InitialGets : commands[p].id \in Sensors
  BY <1>1 DEF Got, Sent, Flush
<1>3. /\ \A p \in InitialReplies : AskerOfReply(p) # 0 => streams[AskerOfReply(p)].open
      /\ \A p \in InitialGets : AskerOfGet(p) # 0 => streams[AskerOfGet(p)].open
  BY AskersInRange DEF Connections, AskerOfReply, AskerOfGet
<1> QED
  BY <1>1, <1>2, <1>3, AskersInRange DEF Matched, Listeners

(* An event reaches the askers too, or they miss it.                        *)
LEMMA ReplyFresh ==
  ASSUME ViewTypes, MessageReply
  PROVE  /\ \A k \in DOMAIN streams : Fresh(k)' => Fresh(k)
         /\ \A s \in Sensors : \A k \in Listeners(s) : Fresh(k)' => handled'[s] = handled[s]
<1> DEFINE r == Head(replies)
<1>1. r \in Got /\ r.value # None
  BY HeadTail DEF MessageReply, ViewTypes, BackTypes, CacheTypes
<1>2. r.id \in Sensors /\ r.value \in Values
  BY <1>1 DEF Got
<1>3. handled' = [handled EXCEPT ![r.id] = r.value] /\ handled \in [Sensors -> Values \cup {None}]
  BY DEF MessageReply, OnReply, ViewTypes, BackTypes, CacheTypes
<1>4. CASE r.found \notin {None, r.value}
  <2>1. streams' = Emitted(r.id, r.value) /\ behind' = behind \ Listeners(r.id)
    BY <1>4 DEF MessageReply
  <2>2. \A k \in DOMAIN streams : /\ k \in Listeners(r.id) => streams'[k].spoke = TRUE
                                  /\ k \notin Listeners(r.id) => streams'[k] = streams[k]
    BY <2>1, <1>2, EmittedStreams DEF ViewTypes, FrontTypes
  <2>3. \A k \in Listeners(r.id) : k \in DOMAIN streams /\ ~ Fresh(k)'
    BY <2>2 DEF Fresh, Listeners
  <2>4. \A k \in DOMAIN streams \ Listeners(r.id) : Fresh(k)' => Fresh(k)
    BY <2>1, <2>2 DEF Fresh
  <2>5. \A s \in Sensors : s # r.id => handled'[s] = handled[s]
    BY <1>3
  <2> QED
    BY <2>3, <2>4, <2>5
<1>5. CASE ~ (r.found \notin {None, r.value})
  <2>1. streams' = streams /\ behind' = IF r.value # handled[r.id] THEN behind \cup Listeners(r.id) ELSE behind
    BY <1>5 DEF MessageReply
  <2>2. \A k \in DOMAIN streams : Fresh(k)' => Fresh(k)
    BY <2>1 DEF Fresh
  <2>3. ASSUME NEW s \in Sensors, NEW k \in Listeners(s), Fresh(k)'
        PROVE  handled'[s] = handled[s]
    <3>1. CASE s # r.id
      BY <3>1, <1>3
    <3>2. CASE s = r.id
      <4>1. k \notin behind'
        BY <2>3 DEF Fresh
      <4>2. r.value = handled[r.id]
        BY <4>1, <3>2, <2>1, <2>3
      <4> QED
        BY <4>2, <3>2, <1>2, <1>3
    <3> QED
      BY <3>1, <3>2
  <2> QED
    BY <2>2, <2>3
<1> QED
  BY <1>4, <1>5

LEMMA InitInitials == ViewInit => InitialsRight
<1> SUFFICES ASSUME ViewInit PROVE InitialsRight
  OBVIOUS
<1>1. DOMAIN commands = 1..1 /\ commands[1].op = "flush" /\ replies = << >>
  BY DEF ViewInit, Init, Flush
<1> QED
  BY <1>1 DEF InitialsRight, InitialReplies, InitialGets

(* A callback of a message puts a SET behind the GETs under way.            *)
LEMMA ReplyInitials ==
  ASSUME ViewBase, InitialsRight, MessageReply
  PROVE  InitialsRight'
<1>0. ViewTypes /\ Matched /\ Connections /\ CacheTypes
  BY DEF ViewBase, ViewTypes, BackTypes
<1> DEFINE r == Head(replies)
           c == [op |-> "set", id |-> r.id, value |-> r.value]
<1>1. r \in Got /\ r.value # None
  BY <1>0, HeadTail DEF MessageReply, CacheTypes
<1>2. c \in Sent /\ commands' = Append(commands, c) /\ store' = store
  BY <1>1 DEF Got, Sent, MessageReply, OnReply
<1> HIDE DEF c, r
<1>3. /\ InitialGets' = InitialGets
      /\ \A p \in InitialGets : AskerOfGet(p)' = AskerOfGet(p) /\ commands'[p] = commands[p]
      /\ \A p \in InitialReplies' :
           /\ p + 1 \in InitialReplies /\ AskerOfReply(p)' = AskerOfReply(p + 1)
           /\ replies'[p] = replies[p + 1]
  BY <1>0, AskersReply
<1>4. /\ \A k \in DOMAIN streams : Fresh(k)' => Fresh(k)
      /\ \A s \in Sensors : \A k \in Listeners(s) : Fresh(k)' => handled'[s] = handled[s]
  BY <1>0, ReplyFresh
<1>5. ASSUME NEW p \in InitialReplies', Fresh(AskerOfReply(p))'
      PROVE  replies'[p].found = handled'[replies'[p].id]
  <2> PICK k : k = AskerOfReply(p + 1)
    OBVIOUS
  <2> PICK s : s = replies[p + 1].id
    OBVIOUS
  <2>1. AskerOfReply(p)' = k /\ replies'[p] = replies[p + 1] /\ p + 1 \in InitialReplies
    BY <1>3
  <2>2. Fresh(k)' /\ k # 0
    BY <1>5, <2>1 DEF Fresh
  <2>3. k \in DOMAIN streams /\ k \in Listeners(s) /\ s \in Sensors
    BY <1>0, <2>1, <2>2, AskersListen
  <2>4. Fresh(k) /\ handled'[s] = handled[s]
    BY <2>2, <2>3, <1>4
  <2>5. replies[p + 1].found = handled[s]
    BY <2>1, <2>4 DEF InitialsRight
  <2> QED
    BY <2>1, <2>4, <2>5
<1>6. ASSUME NEW p \in InitialGets', Fresh(AskerOfGet(p))'
      PROVE  Finds(p, commands[p].id, handled[commands[p].id])'
  <2> PICK k : k = AskerOfGet(p)
    OBVIOUS
  <2> PICK s : s = commands[p].id
    OBVIOUS
  <2> PICK v : v = handled[s]
    OBVIOUS
  <2>1. AskerOfGet(p)' = k /\ commands'[p] = commands[p] /\ p \in InitialGets
    BY <1>3
  <2>2. Fresh(k)' /\ k # 0
    BY <1>6, <2>1 DEF Fresh
  <2>3. k \in DOMAIN streams /\ k \in Listeners(s) /\ s \in Sensors /\ p \in DOMAIN commands
    BY <1>0, <2>1, <2>2, AskersListen
  <2>4. Fresh(k) /\ handled'[s] = handled[s]
    BY <2>2, <2>3, <1>4
  <2>5. Finds(p, s, v)
    BY <2>1, <2>4 DEF InitialsRight
  <2>6. Finds(p, s, v)'
    BY <2>3, <2>5, <1>0, <1>2, FindsAppend DEF CacheTypes
  <2>7. s = commands'[p].id /\ v = handled'[s]
    BY <2>1, <2>4
  <2> QED
    BY <2>6, <2>7
<1> QED
  BY <1>5, <1>6 DEF InitialsRight

(* Redis answers with what the GET was to find.                             *)
LEMMA ServeInitials ==
  ASSUME ViewBase, InitialsRight, ServeCommand, UNCHANGED <<asked, streams, behind>>
  PROVE  InitialsRight'
<1>0. ViewTypes /\ Matched /\ Connections /\ CacheTypes /\ FlushFirst
  BY DEF ViewBase, ViewTypes, BackTypes
<1>1. /\ \A p \in InitialGets' :
           /\ p + 1 \in InitialGets /\ AskerOfGet(p)' = AskerOfGet(p + 1)
           /\ commands'[p] = commands[p + 1]
      /\ \A p \in InitialReplies' :
           \/ /\ p \in InitialReplies /\ AskerOfReply(p)' = AskerOfReply(p)
              /\ replies'[p] = replies[p]
           \/ /\ 1 \in InitialGets /\ AskerOfReply(p)' = AskerOfGet(1)
              /\ replies'[p].id = commands[1].id /\ replies'[p].found = store[commands[1].id]
  BY <1>0, AskersServed
<1>2. handled' = handled /\ \A k : Fresh(k)' <=> Fresh(k)
  BY DEF ServeCommand, Fresh
<1>3. ASSUME NEW p \in InitialReplies', Fresh(AskerOfReply(p))'
      PROVE  replies'[p].found = handled'[replies'[p].id]
  <2>1. CASE p \in InitialReplies /\ AskerOfReply(p)' = AskerOfReply(p) /\ replies'[p] = replies[p]
    <3>1. Fresh(AskerOfReply(p))
      BY <2>1, <1>3, <1>2 DEF Fresh
    <3> QED
      BY <3>1, <2>1, <1>2 DEF InitialsRight
  <2>2. CASE /\ 1 \in InitialGets /\ AskerOfReply(p)' = AskerOfGet(1)
             /\ replies'[p].id = commands[1].id /\ replies'[p].found = store[commands[1].id]
    <3>1. Fresh(AskerOfGet(1))
      BY <2>2, <1>3, <1>2 DEF Fresh
    <3>2. Finds(1, commands[1].id, handled[commands[1].id])
      BY <3>1, <2>2 DEF InitialsRight
    <3> PICK s : s = commands[1].id
      OBVIOUS
    <3> PICK v : v = handled[s]
      OBVIOUS
    <3>3. store[s] = v
      BY <3>2, <1>0, FindsFirst DEF CacheTypes
    <3> QED
      BY <3>3, <2>2, <1>2
  <2> QED
    BY <2>1, <2>2, <1>1
<1>4. ASSUME NEW p \in InitialGets', Fresh(AskerOfGet(p))'
      PROVE  Finds(p, commands[p].id, handled[commands[p].id])'
  <2> PICK s : s = commands[p + 1].id
    OBVIOUS
  <2> PICK v : v = handled[s]
    OBVIOUS
  <2>1. p + 1 \in InitialGets /\ AskerOfGet(p)' = AskerOfGet(p + 1) /\ commands'[p] = commands[p + 1]
    BY <1>1
  <2>2. Fresh(AskerOfGet(p + 1))
    BY <2>1, <1>4, <1>2 DEF Fresh
  <2>3. Finds(p + 1, s, v)
    BY <2>1, <2>2 DEF InitialsRight
  <2>4. p \in DOMAIN commands' /\ s \in Sensors
    BY <1>0, <2>1, AskersListen DEF InitialGets
  <2>5. Finds(p, s, v)'
    BY <2>3, <2>4, <1>0, FindsServed
  <2>6. s = commands'[p].id /\ v = handled'[s]
    BY <2>1, <1>2
  <2> QED
    BY <2>5, <2>6
<1> QED
  BY <1>3, <1>4 DEF InitialsRight

(* A step that keeps the queue to Redis; and a GET of a message behind.     *)
LEMMA SameInitials ==
  ASSUME ViewBase, InitialsRight, UNCHANGED <<replies, commands, asked, store, handled>>,
         \A k \in DOMAIN streams : Fresh(k)' => Fresh(k)
  PROVE  InitialsRight'
<1>0. ViewTypes /\ Matched /\ Connections
  BY DEF ViewBase
<1>1. /\ InitialReplies' = InitialReplies /\ InitialGets' = InitialGets
      /\ \A p : AskerOfReply(p)' = AskerOfReply(p) /\ AskerOfGet(p)' = AskerOfGet(p)
  BY DEF InitialReplies, InitialGets, AskerOfReply, AskerOfGet
<1>2. ASSUME NEW p \in InitialReplies', Fresh(AskerOfReply(p))'
      PROVE  replies'[p].found = handled'[replies'[p].id]
  <2> PICK k : k = AskerOfReply(p)
    OBVIOUS
  <2>1. Fresh(k)' /\ k # 0
    BY <1>1, <1>2 DEF Fresh
  <2>2. k \in DOMAIN streams
    BY <2>1, <1>0, <1>1, AskersListen
  <2> QED
    BY <2>1, <2>2, <1>1 DEF InitialsRight
<1>3. ASSUME NEW p \in InitialGets', Fresh(AskerOfGet(p))'
      PROVE  Finds(p, commands[p].id, handled[commands[p].id])'
  <2> PICK k : k = AskerOfGet(p)
    OBVIOUS
  <2>1. Fresh(k)' /\ k # 0
    BY <1>1, <1>3 DEF Fresh
  <2>2. k \in DOMAIN streams
    BY <2>1, <1>0, <1>1, AskersListen
  <2>3. Finds(p, commands[p].id, handled[commands[p].id])
    BY <2>1, <2>2, <1>1 DEF InitialsRight
  <2> QED
    BY <2>3 DEF Finds, SetOf
<1> QED
  BY <1>2, <1>3 DEF InitialsRight

LEMMA MessageInitials ==
  ASSUME ViewBase, InitialsRight, CacheTypes', OnMessage, UNCHANGED <<asked, streams, behind>>
  PROVE  InitialsRight'
<1>0. ViewTypes /\ Matched /\ Connections /\ CacheTypes
  BY DEF ViewBase, ViewTypes, BackTypes
<1> DEFINE c == [op |-> "get", id |-> Head(inbox).id, value |-> Head(inbox).value]
<1>1. Head(inbox) \in Message
  BY <1>0, HeadTail DEF OnMessage, ViewTypes, BackTypes
<1>2. c \in Sent /\ c \notin ListenerGet
  BY <1>1, BackendConstants DEF Message, Sent, ListenerGet
<1>3. commands' = Append(commands, c) /\ UNCHANGED <<replies, store, handled>>
  BY DEF OnMessage
<1> HIDE DEF c
<1>4. /\ InitialReplies' = InitialReplies /\ InitialGets' = InitialGets
      /\ \A p \in InitialGets : AskerOfGet(p)' = AskerOfGet(p) /\ commands'[p] = commands[p]
      /\ \A p \in InitialReplies : AskerOfReply(p)' = AskerOfReply(p)
  BY <1>0, <1>2, <1>3, AskersMessage
<1>5. \A k : Fresh(k)' <=> Fresh(k)
  BY DEF Fresh
<1>6. ASSUME NEW p \in InitialReplies', Fresh(AskerOfReply(p))'
      PROVE  replies'[p].found = handled'[replies'[p].id]
  <2>1. Fresh(AskerOfReply(p))
    BY <1>4, <1>5, <1>6 DEF Fresh
  <2> QED
    BY <2>1, <1>3, <1>4 DEF InitialsRight
<1>7. ASSUME NEW p \in InitialGets', Fresh(AskerOfGet(p))'
      PROVE  Finds(p, commands[p].id, handled[commands[p].id])'
  <2> PICK s : s = commands[p].id
    OBVIOUS
  <2> PICK v : v = handled[s]
    OBVIOUS
  <2>1. Fresh(AskerOfGet(p))
    BY <1>4, <1>5, <1>7 DEF Fresh
  <2>2. Finds(p, s, v) /\ p \in DOMAIN commands
    BY <2>1, <1>4 DEF InitialsRight, InitialGets
  <2>3. Finds(p, s, v)'
    BY <2>2, <1>0, <1>2, <1>3, FindsAppend DEF CacheTypes
  <2>4. s = commands'[p].id /\ v = handled'[s]
    BY <1>3, <1>4
  <2> QED
    BY <2>3, <2>4
<1> QED
  BY <1>6, <1>7 DEF InitialsRight

LEMMA AnsweredInitials ==
  ASSUME ViewBase, InitialsRight, ListenerReply
  PROVE  InitialsRight'
<1>0. ViewTypes /\ Matched /\ Connections
  BY DEF ViewBase
<1>1. /\ InitialGets' = InitialGets
      /\ \A p \in InitialGets : AskerOfGet(p)' = AskerOfGet(p) /\ commands'[p] = commands[p]
      /\ \A p \in InitialReplies' :
           /\ p + 1 \in InitialReplies /\ AskerOfReply(p)' = AskerOfReply(p + 1)
           /\ replies'[p] = replies[p + 1]
  BY <1>0, AskersAnswered
<1>2. UNCHANGED <<commands, store, handled>>
  BY DEF ListenerReply
<1>3. \A k \in DOMAIN streams : Fresh(k)' => Fresh(k)
  <2> PICK j : j = Head(asked)
    OBVIOUS
  <2>1. behind \subseteq behind'
    BY DEF ListenerReply
  <2>2. /\ \A k \in DOMAIN streams : k # j => streams'[k] = streams[k] \/ streams' = streams
        /\ j \in DOMAIN streams => streams'[j].spoke = streams[j].spoke
    BY <1>0, AnsweredStream
  <2> QED
    BY <2>1, <2>2 DEF Fresh
<1>4. ASSUME NEW p \in InitialReplies', Fresh(AskerOfReply(p))'
      PROVE  replies'[p].found = handled'[replies'[p].id]
  <2> PICK k : k = AskerOfReply(p + 1)
    OBVIOUS
  <2>1. AskerOfReply(p)' = k /\ replies'[p] = replies[p + 1] /\ p + 1 \in InitialReplies
    BY <1>1
  <2>2. Fresh(k)' /\ k # 0
    BY <1>4, <2>1 DEF Fresh
  <2>3. k \in DOMAIN streams
    BY <1>0, <2>1, <2>2, AskersListen
  <2> QED
    BY <2>1, <2>2, <2>3, <1>2, <1>3 DEF InitialsRight
<1>5. ASSUME NEW p \in InitialGets', Fresh(AskerOfGet(p))'
      PROVE  Finds(p, commands[p].id, handled[commands[p].id])'
  <2> PICK k : k = AskerOfGet(p)
    OBVIOUS
  <2>1. Fresh(k)' /\ k # 0
    BY <1>1, <1>5 DEF Fresh
  <2>2. k \in DOMAIN streams
    BY <2>1, <1>0, <1>1, AskersListen
  <2>3. Finds(p, commands[p].id, handled[commands[p].id])
    BY <2>1, <2>2, <1>1, <1>3 DEF InitialsRight
  <2> QED
    BY <2>3, <1>2 DEF Finds, SetOf
<1> QED
  BY <1>4, <1>5 DEF InitialsRight

(* The GET of a stream that connects stands behind all SETs under way; the  *)
(* stream has no other, since only open ones wait for an answer.            *)
LEMMA ConnectInitials ==
  ASSUME ViewBase, InitialsRight, NEW k \in DOMAIN streams, Connect(k)
  PROVE  InitialsRight'
<1>0. ViewTypes /\ Matched /\ Connections /\ CacheTypes /\ Cached
  BY DEF ViewBase, ViewTypes, BackTypes
<1> DEFINE c == [op |-> "get", id |-> streams[k].id, value |-> None]
<1>1. streams[k] \in Stream
  BY <1>0 DEF ViewTypes, FrontTypes
<1>2. c \in Sent /\ commands' = Append(commands, c) /\ streams[k].id \in Sensors
  BY <1>1 DEF Stream, Sent, Connect
<1> HIDE DEF c
<1>3. /\ InitialReplies' = InitialReplies /\ replies' = replies
      /\ \A p \in InitialReplies : AskerOfReply(p)' = AskerOfReply(p)
      /\ \A p \in InitialGets' :
           \/ p \in InitialGets /\ AskerOfGet(p)' = AskerOfGet(p) /\ commands'[p] = commands[p]
           \/ /\ p = Len(commands) + 1 /\ AskerOfGet(p)' = k /\ commands'[p].op = "get"
              /\ commands'[p].id = streams[k].id
  BY <1>0, AskersConnected
<1>4. UNCHANGED <<store, handled>> /\ alive /\ ~ streams[k].open
  BY DEF Connect
<1>5. \A j \in DOMAIN streams : streams[j].open /\ Fresh(j)' => Fresh(j)
  <2>1. behind' = behind \ {k}
    BY DEF Connect
  <2>2. \A j \in DOMAIN streams : j # k => streams'[j] = streams[j]
    BY <1>0, OneStream
  <2> QED
    BY <2>1, <2>2, <1>4 DEF Fresh
<1>6. ASSUME NEW p \in InitialReplies', Fresh(AskerOfReply(p))'
      PROVE  replies'[p].found = handled'[replies'[p].id]
  <2> PICK j : j = AskerOfReply(p)
    OBVIOUS
  <2>1. Fresh(j)' /\ j # 0
    BY <1>3, <1>6 DEF Fresh
  <2>2. j \in DOMAIN streams /\ streams[j].open
    BY <2>1, <1>0, <1>3, AskersListen DEF Listeners
  <2> QED
    BY <2>1, <2>2, <1>3, <1>4, <1>5 DEF InitialsRight
<1>7. ASSUME NEW p \in InitialGets', Fresh(AskerOfGet(p))'
      PROVE  Finds(p, commands[p].id, handled[commands[p].id])'
  <2>1. CASE p \in InitialGets /\ AskerOfGet(p)' = AskerOfGet(p) /\ commands'[p] = commands[p]
    <3> PICK j : j = AskerOfGet(p)
      OBVIOUS
    <3> PICK s : s = commands[p].id
      OBVIOUS
    <3> PICK v : v = handled[s]
      OBVIOUS
    <3>1. Fresh(j)' /\ j # 0
      BY <2>1, <1>7 DEF Fresh
    <3>2. j \in DOMAIN streams /\ streams[j].open
      BY <3>1, <2>1, <1>0, AskersListen DEF Listeners
    <3>3. Finds(p, s, v) /\ p \in DOMAIN commands
      BY <3>1, <3>2, <2>1, <1>5 DEF InitialsRight, InitialGets
    <3>4. Finds(p, s, v)'
      BY <3>3, <1>0, <1>2, <1>4, FindsAppend DEF CacheTypes
    <3>5. s = commands'[p].id /\ v = handled'[s]
      BY <2>1, <1>4
    <3> QED
      BY <3>4, <3>5
  <2>2. CASE p = Len(commands) + 1 /\ commands'[p].id = streams[k].id
    <3> PICK s \in Sensors : s = streams[k].id
      BY <1>2
    <3> PICK v : v = handled[s]
      OBVIOUS
    <3>1. Finds(p, s, v)'
      BY <2>2, <1>0, <1>2, <1>4, FindsLast
    <3>2. s = commands'[p].id /\ v = handled'[s]
      BY <2>2, <1>4
    <3> QED
      BY <3>1, <3>2
  <2> QED
    BY <2>1, <2>2, <1>3
<1> QED
  BY <1>6, <1>7 DEF InitialsRight

LEMMA DropInitials ==
  ASSUME ViewBase, InitialsRight, NEW k \in DOMAIN streams, Drop(k)
  PROVE  InitialsRight'
<1> USE DEF backend, process
<1>0. ViewTypes /\ Matched /\ Connections
  BY DEF ViewBase
<1>1. /\ InitialReplies' = InitialReplies /\ InitialGets' = InitialGets
      /\ UNCHANGED <<commands, replies, store, handled, behind>>
  BY DEF Drop, InitialReplies, InitialGets
<1>2. asked' = [i \in DOMAIN asked |-> IF asked[i] = k THEN 0 ELSE asked[i]]
  BY DEF Drop
<1>3. /\ \A p \in InitialReplies : AskerOfReply(p)' # 0 => AskerOfReply(p)' = AskerOfReply(p) /\ AskerOfReply(p) # k
      /\ \A p \in InitialGets : AskerOfGet(p)' # 0 => AskerOfGet(p)' = AskerOfGet(p) /\ AskerOfGet(p) # k
  <2>1. /\ \A p \in InitialReplies : Rank(InitialReplies, p) \in DOMAIN asked
        /\ \A p \in InitialGets : Cardinality(InitialReplies) + Rank(InitialGets, p) \in DOMAIN asked
    BY <1>0, AskersInRange
  <2> QED
    BY <1>1, <1>2, <2>1 DEF AskerOfReply, AskerOfGet
<1>4. \A j \in DOMAIN streams : j # k /\ Fresh(j)' => Fresh(j)
  BY <1>0, <1>1, OneStream DEF Fresh
<1>5. ASSUME NEW p \in InitialReplies', Fresh(AskerOfReply(p))'
      PROVE  replies'[p].found = handled'[replies'[p].id]
  <2> PICK j : j = AskerOfReply(p)'
    OBVIOUS
  <2>1. Fresh(j)' /\ j # 0
    BY <1>5 DEF Fresh
  <2>2. j = AskerOfReply(p) /\ j # k /\ j \in DOMAIN streams /\ p \in InitialReplies
    BY <2>1, <1>0, <1>1, <1>3, AskersListen
  <2> QED
    BY <2>1, <2>2, <1>1, <1>4 DEF InitialsRight
<1>6. ASSUME NEW p \in InitialGets', Fresh(AskerOfGet(p))'
      PROVE  Finds(p, commands[p].id, handled[commands[p].id])'
  <2> PICK j : j = AskerOfGet(p)'
    OBVIOUS
  <2>1. Fresh(j)' /\ j # 0
    BY <1>6 DEF Fresh
  <2>2. j = AskerOfGet(p) /\ j # k /\ j \in DOMAIN streams /\ p \in InitialGets
    BY <2>1, <1>0, <1>1, <1>3, AskersListen
  <2>3. Finds(p, commands[p].id, handled[commands[p].id])
    BY <2>1, <2>2, <1>4 DEF InitialsRight
  <2> QED
    BY <2>3, <1>1 DEF Finds, SetOf
<1> QED
  BY <1>5, <1>6 DEF InitialsRight

LEMMA StepInitials ==
  ASSUME ViewBase, InitialsRight, [ViewNext]_viewVars
  PROVE  InitialsRight'
<1> USE DEF backend, process, live
<1>0. /\ ViewTypes /\ Matched /\ Connections /\ FlushFirst /\ CacheTypes'
      /\ streams \in Seq(Stream) /\ DOMAIN streams = 1..Len(streams) /\ Len(streams) \in Nat
  <2>1. ViewTypes /\ Matched /\ Connections /\ FlushFirst
    BY DEF ViewBase
  <2>2. BackTypes'
    BY <2>1, StepBackTypes
  <2> QED
    BY <2>1, <2>2 DEF ViewTypes, BackTypes, FrontTypes
<1>1. ASSUME UNCHANGED <<replies, commands, asked, store, handled, streams, behind>> PROVE InitialsRight'
  <2>1. \A k \in DOMAIN streams : Fresh(k)' => Fresh(k)
    BY <1>1 DEF Fresh
  <2> QED
    BY <2>1, <1>1, SameInitials
<1>2. ASSUME Perish PROVE InitialsRight'
  <2>1. InitialReplies' = {} /\ InitialGets' = {}
    BY <1>2 DEF Perish, Die, InitialReplies, InitialGets
  <2> QED
    BY <2>1 DEF InitialsRight
<1>3. ASSUME Start PROVE InitialsRight'
  <2>1. commands = << >> /\ replies = << >> /\ replies' = << >> /\ commands' = <<Flush>>
    BY <1>3, <1>0 DEF FlushFirst, Start
  <2>2. DOMAIN commands' = 1..1 /\ commands'[1].op = "flush"
    BY <2>1 DEF Flush
  <2>3. InitialReplies' = {} /\ InitialGets' = {}
    BY <2>1, <2>2 DEF InitialReplies, InitialGets
  <2> QED
    BY <2>3 DEF InitialsRight
<1>4. ASSUME NEW k \in DOMAIN streams, Deliver(k) PROVE InitialsRight'
  <2>1. UNCHANGED <<replies, commands, asked, store, handled, behind>>
    BY <1>4 DEF Deliver
  <2>2. \A j \in DOMAIN streams : streams'[j].spoke = streams[j].spoke
    BY <1>0, <1>4, OneStream
  <2>3. \A j \in DOMAIN streams : Fresh(j)' => Fresh(j)
    BY <2>1, <2>2 DEF Fresh
  <2> QED
    BY <2>1, <2>3, SameInitials
<1>5. ASSUME NEW l \in listings, Show(l) PROVE InitialsRight'
  <2>1. UNCHANGED <<replies, commands, asked, store, handled, behind>>
    BY <1>5 DEF Show
  <2>2. \A j \in DOMAIN streams : streams'[j] = streams[j]
    BY <1>0, <1>5, ShownStreams
  <2>3. \A j \in DOMAIN streams : Fresh(j)' => Fresh(j)
    BY <2>1, <2>2 DEF Fresh
  <2> QED
    BY <2>1, <2>3, SameInitials
<1>6. ASSUME Unseen PROVE InitialsRight'
  <2>1. UNCHANGED <<asked, streams, behind>>
    BY <1>6 DEF Unseen
  <2>2. \A s \in Sensors : Change(s) \/ Publish(s) => UNCHANGED <<commands, replies, store, handled>>
    BY DEF Change, Publish
  <2> QED
    BY <2>1, <2>2, <1>0, <1>1, <1>3, <1>6, ServeInitials, MessageInitials DEF Unseen
<1>7. /\ UNCHANGED viewVars \/ Statement \/ GetAllSensors \/ Visit \/ Obey
          => UNCHANGED <<replies, commands, asked, store, handled, streams, behind>>
      /\ \A i \in DOMAIN page :
           Click(i) => UNCHANGED <<replies, commands, asked, store, handled, streams, behind>>
      /\ \A r \in requests : Act(r) => UNCHANGED <<replies, commands, asked, store, handled, streams, behind>>
      /\ \A n \in answers : Answered(n) => UNCHANGED <<replies, commands, asked, store, handled, streams, behind>>
  BY DEF viewVars, Statement, RunStatement, GetAllSensors, Visit, Click, Act, Answered, Obey
<1> QED
  BY <1>1, <1>2, <1>4, <1>5, <1>6, <1>7, ReplyInitials, AnsweredInitials, ConnectInitials, DropInitials DEF ViewNext

-----------------------------------------------------------------------------
(* A connection that was not told the last value since it was made waits    *)
(* for the answer to its own GET, unless nothing was handled or it missed   *)
(* a NEW sensor.                                                            *)
AsksFor(k) == \E n \in DOMAIN asked : asked[n] = k

Waits(k) ==
  \/ k \in behind \/ handled[streams[k].id] = None
  \/ ~ streams[k].spoke /\ AsksFor(k)

Waiting == \A k \in untold : k \in DOMAIN streams /\ streams[k].open /\ Waits(k)

(* A step that leaves the streams that are untold, and what they wait for.  *)
LEMMA SameWaiting ==
  ASSUME Waiting, untold' \subseteq untold, behind \subseteq behind', SameStreams, handled' = handled,
         \A k \in untold' : /\ streams'[k].open = streams[k].open
                            /\ streams'[k].spoke = streams[k].spoke
                            /\ (AsksFor(k) => AsksFor(k)')
  PROVE  Waiting'
<1> SUFFICES ASSUME NEW k \in untold' PROVE k \in DOMAIN streams' /\ streams'[k].open /\ Waits(k)'
  BY DEF Waiting
<1>1. k \in DOMAIN streams /\ streams[k].open /\ Waits(k)
  BY DEF Waiting
<1>2. k \in DOMAIN streams' /\ streams'[k].id = streams[k].id
  BY <1>1 DEF SameStreams
<1> QED
  BY <1>1, <1>2 DEF Waits

(* An event tells them; a value that is none leaves them behind.            *)
LEMMA MessageWaiting ==
  ASSUME ViewBase, Waiting, MessageReply
  PROVE  Waiting'
<1> DEFINE r == Head(replies)
           L == Listeners(r.id)
<1>0. ViewTypes /\ CacheTypes /\ streams \in Seq(Stream)
  BY DEF ViewBase, ViewTypes, BackTypes, FrontTypes
<1>1. r.id \in Sensors /\ r.value \in Values
  <2>1. r \in Got /\ r.value # None
    BY <1>0, HeadTail DEF MessageReply, CacheTypes
  <2> QED
    BY <2>1 DEF Got
<1>2. /\ handled' = [handled EXCEPT ![r.id] = r.value] /\ handled \in [Sensors -> Values \cup {None}]
      /\ asked' = asked
  BY <1>0 DEF MessageReply, OnReply, CacheTypes
<1>3. \A k \in DOMAIN streams : k \in L <=> streams[k].open /\ streams[k].id = r.id
  BY DEF Listeners
<1>4. CASE r.found \notin {None, r.value}
  <2>1. streams' = Emitted(r.id, r.value) /\ behind' = behind \ L /\ untold' = untold \ L
    BY <1>4 DEF MessageReply
  <2>2. /\ DOMAIN streams' = DOMAIN streams
        /\ \A k \in DOMAIN streams : k \notin L => streams'[k] = streams[k]
    BY <1>0, <1>1, <2>1, EmittedStreams
  <2> HIDE DEF r, L
  <2> SUFFICES ASSUME NEW k \in untold' PROVE k \in DOMAIN streams' /\ streams'[k].open /\ Waits(k)'
    BY DEF Waiting
  <2>3. k \in DOMAIN streams /\ streams[k].open /\ Waits(k) /\ k \notin L
    BY <2>1 DEF Waiting
  <2>4. handled'[streams[k].id] = handled[streams[k].id]
    BY <2>3, <1>2, <1>3
  <2> QED
    BY <2>1, <2>2, <2>3, <2>4, <1>2 DEF Waits, AsksFor
<1>5. CASE ~ (r.found \notin {None, r.value})
  <2>1. /\ streams' = streams /\ untold' = untold
        /\ behind' = IF r.value # handled[r.id] THEN behind \cup L ELSE behind
    BY <1>5 DEF MessageReply
  <2> HIDE DEF r, L
  <2> SUFFICES ASSUME NEW k \in untold' PROVE k \in DOMAIN streams' /\ streams'[k].open /\ Waits(k)'
    BY DEF Waiting
  <2>2. k \in DOMAIN streams /\ streams[k].open /\ Waits(k)
    BY <2>1 DEF Waiting
  <2>3. k \in behind' \/ handled'[streams[k].id] = handled[streams[k].id]
    BY <2>1, <2>2, <1>1, <1>2, <1>3
  <2> QED
    BY <2>1, <2>2, <2>3, <1>2 DEF Waits, AsksFor
<1> QED
  BY <1>4, <1>5

(* The answer to its GET tells it the last value, or it missed something.   *)
LEMMA AnsweredWaiting ==
  ASSUME ViewBase, InitialsRight, Waiting, ListenerReply
  PROVE  Waiting'
<1>0. ViewTypes /\ Matched /\ streams \in Seq(Stream)
  BY DEF ViewBase, ViewTypes, FrontTypes
<1> PICK k : k = Head(asked)
  OBVIOUS
<1> PICK v : v = Head(replies).found
  OBVIOUS
<1>1. /\ SameStreams /\ DOMAIN streams' = DOMAIN streams
      /\ k # 0 /\ v # None =>
           /\ streams'[k].open = streams[k].open /\ streams'[k].spoke = streams[k].spoke
           /\ \A j \in DOMAIN streams : j # k => streams'[j] = streams[j]
      /\ k = 0 \/ v = None => streams' = streams
  BY <1>0, AnsweredStream
<1>2. /\ \A i \in DOMAIN asked : i # 1 => i - 1 \in DOMAIN asked' /\ asked'[i - 1] = asked[i]
      /\ 1 \in InitialReplies /\ AskerOfReply(1) = k /\ replies[1].found = v
  BY <1>0, AskersAnswered
<1>3. /\ handled' = handled /\ behind \subseteq behind' /\ untold' \subseteq untold
      /\ k # 0 /\ v # None /\ v = handled[streams[k].id] => k \notin untold'
  BY DEF ListenerReply
<1>4. asked[1] = k
  BY <1>0, SomeoneAsked, HeadTail DEF ListenerReply, ViewTypes, FrontTypes
<1> SUFFICES ASSUME NEW j \in untold' PROVE j \in DOMAIN streams' /\ streams'[j].open /\ Waits(j)'
  BY DEF Waiting
<1>5. j \in DOMAIN streams /\ streams[j].open /\ Waits(j) /\ j # 0
  BY <1>0, <1>3 DEF Waiting
<1>6. /\ j \in DOMAIN streams' /\ streams'[j].id = streams[j].id
      /\ streams'[j].open = streams[j].open /\ streams'[j].spoke = streams[j].spoke
  BY <1>1, <1>5 DEF SameStreams
<1>7. CASE j # k
  <2>1. AsksFor(j) => AsksFor(j)'
    BY <1>2, <1>4, <1>7 DEF AsksFor
  <2> QED
    BY <2>1, <1>3, <1>5, <1>6 DEF Waits
<1>8. CASE j = k
  <2>1. replies[1].id = streams[k].id
    BY <1>0, <1>2, <1>5, <1>8 DEF Matched
  <2>2. Fresh(k) => v = handled[streams[k].id]
    BY <2>1, <1>2 DEF InitialsRight
  <2>3. v = handled[streams[k].id] => v = None
    BY <1>3, <1>5, <1>8
  <2>4. Fresh(k) => handled[streams[k].id] = None
    BY <2>2, <2>3
  <2>5. k \in behind \/ handled[streams[k].id] = None
    BY <2>4, <1>5, <1>8 DEF Fresh, Waits
  <2> QED
    BY <2>5, <1>3, <1>5, <1>6, <1>8 DEF Waits
<1> QED
  BY <1>7, <1>8

LEMMA StepWaiting ==
  ASSUME ViewBase, InitialsRight, Waiting, [ViewNext]_viewVars
  PROVE  Waiting'
<1> USE DEF backend, process, live
<1>0. ViewTypes /\ Matched /\ SameStreams
  BY StepStreams DEF ViewBase
<1>1. ASSUME UNCHANGED <<untold, behind, streams, handled, asked>> PROVE Waiting'
  BY <1>0, <1>1, SameWaiting DEF AsksFor
<1>2. ASSUME NEW k \in DOMAIN streams, Connect(k) PROVE Waiting'
  <2>1. behind' = behind \ {k} /\ untold' = untold \cup {k} /\ handled' = handled /\ ~ streams[k].open
    BY <1>2 DEF Connect
  <2>2. /\ DOMAIN streams' = DOMAIN streams /\ streams'[k].open = TRUE /\ streams'[k].spoke = FALSE
        /\ \A j \in DOMAIN streams : j # k => streams'[j] = streams[j]
    BY <1>0, <1>2, OneStream
  <2>3. /\ \A i \in DOMAIN asked : i \in DOMAIN asked' /\ asked'[i] = asked[i]
        /\ Len(asked) + 1 \in DOMAIN asked' /\ asked'[Len(asked) + 1] = k
    BY <1>0, <1>2, AskersConnected
  <2>4. AsksFor(k)' /\ \A j : AsksFor(j) => AsksFor(j)'
    BY <2>3 DEF AsksFor
  <2>5. \A j \in untold : j \in DOMAIN streams /\ streams[j].open /\ Waits(j) /\ j # k
    BY <2>1 DEF Waiting
  <2>6. \A j \in untold : Waits(j)'
    BY <2>1, <2>2, <2>4, <2>5 DEF Waits
  <2>7. Waits(k)'
    BY <2>2, <2>4 DEF Waits
  <2> QED
    BY <2>1, <2>2, <2>5, <2>6, <2>7 DEF Waiting
<1>3. ASSUME NEW k \in DOMAIN streams, Drop(k) PROVE Waiting'
  <2>1. /\ behind' = behind /\ untold' = untold \ {k} /\ handled' = handled
        /\ asked' = [i \in DOMAIN asked |-> IF asked[i] = k THEN 0 ELSE asked[i]]
    BY <1>3 DEF Drop
  <2>2. \A j \in DOMAIN streams : j # k => streams'[j] = streams[j]
    BY <1>0, <1>3, OneStream
  <2>3. \A j : j # k /\ AsksFor(j) => AsksFor(j)'
    BY <2>1 DEF AsksFor
  <2>4. \A j \in untold' : j # k /\ j \in DOMAIN streams
    BY <2>1 DEF Waiting
  <2>5. \A j \in untold' : /\ streams'[j].open = streams[j].open
                           /\ streams'[j].spoke = streams[j].spoke
                           /\ (AsksFor(j) => AsksFor(j)')
    BY <2>2, <2>3, <2>4
  <2> QED
    BY <2>1, <2>5, <1>0, SameWaiting
<1>4. ASSUME NEW k \in DOMAIN streams, Deliver(k) PROVE Waiting'
  <2>1. UNCHANGED <<behind, untold, handled, asked>>
    BY <1>4 DEF Deliver
  <2>2. \A j \in DOMAIN streams : streams'[j].open = streams[j].open /\ streams'[j].spoke = streams[j].spoke
    BY <1>0, <1>4, OneStream
  <2>3. \A j \in untold' : j \in DOMAIN streams /\ (AsksFor(j) => AsksFor(j)')
    BY <2>1 DEF Waiting, AsksFor
  <2>4. \A j \in untold' : /\ streams'[j].open = streams[j].open
                           /\ streams'[j].spoke = streams[j].spoke
                           /\ (AsksFor(j) => AsksFor(j)')
    BY <2>2, <2>3
  <2> QED
    BY <2>1, <2>4, <1>0, SameWaiting
<1>5. ASSUME NEW l \in listings, Show(l) PROVE Waiting'
  <2>1. UNCHANGED <<behind, untold, handled, asked>>
    BY <1>5 DEF Show
  <2>2. \A j \in DOMAIN streams : streams'[j] = streams[j]
    BY <1>0, <1>5, ShownStreams
  <2>3. \A j \in untold' : j \in DOMAIN streams /\ (AsksFor(j) => AsksFor(j)')
    BY <2>1 DEF Waiting, AsksFor
  <2>4. \A j \in untold' : /\ streams'[j].open = streams[j].open
                           /\ streams'[j].spoke = streams[j].spoke
                           /\ (AsksFor(j) => AsksFor(j)')
    BY <2>2, <2>3
  <2> QED
    BY <2>1, <2>4, <1>0, SameWaiting
<1>6. ASSUME Perish PROVE Waiting'
  BY <1>6 DEF Perish, Waiting
<1>7. /\ UNCHANGED viewVars \/ Unseen \/ Statement \/ GetAllSensors \/ Visit \/ Obey
          => UNCHANGED <<untold, behind, streams, handled, asked>>
      /\ \A i \in DOMAIN page : Click(i) => UNCHANGED <<untold, behind, streams, handled, asked>>
      /\ \A r \in requests : Act(r) => UNCHANGED <<untold, behind, streams, handled, asked>>
      /\ \A n \in answers : Answered(n) => UNCHANGED <<untold, behind, streams, handled, asked>>
  BY DEF viewVars, Unseen, Change, Publish, ServeCommand, OnMessage, Start, Statement, RunStatement,
         GetAllSensors, Visit, Click, Act, Answered, Obey
<1> QED
  BY <1>1, <1>2, <1>3, <1>4, <1>5, <1>6, <1>7, MessageWaiting, AnsweredWaiting DEF ViewNext

ViewTold == ViewBase /\ InitialsRight /\ Waiting

LEMMA AlwaysTold == ViewSpec => []ViewTold
<1>1. ViewInit => ViewTold
  <2>1. ViewInit => Waiting
    BY DEF ViewInit, Waiting
  <2> QED
    BY <2>1, InitViewBase, InitInitials DEF ViewTold
<1>2. ViewTold /\ [ViewNext]_viewVars => ViewTold'
  BY StepViewBase, StepInitials, StepWaiting DEF ViewTold
<1> QED
  BY <1>1, <1>2, PTL DEF ViewSpec

(* The state with the browser is well typed: a value that nobody has is     *)
(* never shown, published or sent to a stream, and what is clicked is an    *)
(* action of a sensor.                                                      *)
THEOREM ViewIsTyped == ViewSpec => []ViewTypeOK
<1>1. ViewTold => ViewTypeOK
  <2>1. ViewTold => untold \subseteq DOMAIN streams
    BY DEF ViewTold, Waiting
  <2> QED
    BY <2>1 DEF ViewTold, ViewBase, ViewTypes, FrontTypes, ViewTypeOK, Shows
<1> QED
  BY <1>1, AlwaysTold, PTL

(* Whatever the number of sensors, visits, messages, failures and deaths:   *)
(* once all is delivered no connection lacks the last value of a sensor     *)
(* that is known, unless the sensor was NEW when the connection listened.   *)
THEOREM EachConnectionTold == ViewSpec => []ConnectionTold
<1>1. ViewTold => ConnectionTold
  <2> SUFFICES ASSUME ViewTold, Settled, NEW k \in untold, k \notin behind
               PROVE  handled[streams[k].id] = None
    BY DEF ConnectionTold
  <2>1. asked = << >> /\ Waits(k)
    BY DEF ViewTold, Waiting, Settled
  <2> QED
    BY <2>1 DEF Waits, AsksFor
<1> QED
  BY <1>1, AlwaysTold, PTL

-----------------------------------------------------------------------------
(* What a stream that missed nothing holds ends with the last value; each   *)
(* entry shown has a stream; and an entry that does not show the last value *)
(* has a stream that is still to bring it, or that missed it.               *)
LastTold ==
  \A k \in DOMAIN streams :
    LET st == streams[k]
    IN  st.open /\ k \notin behind /\ st.pipe # << >> => st.pipe[Len(st.pipe)] = handled[st.id]

OfEntry(k, i) == streams[k].idx = i /\ streams[k].id = page[i].id

Sourced == \A i \in DOMAIN page : \E k \in DOMAIN streams : OfEntry(k, i)

Owes(k) ==
  \/ k \in behind \/ ~ streams[k].open \/ streams[k].pipe # << >>
  \/ ~ streams[k].spoke /\ \E n \in DOMAIN asked : asked[n] = k

Outdated(i) ==
  LET s == page[i].id
  IN  handled[s] # None /\ page[i].value \notin {handled[s], Undefined}

Shown ==
  \A i \in DOMAIN page : Outdated(i) => \E k \in DOMAIN streams : OfEntry(k, i) /\ Owes(k)

(* How the page changes.                                                    *)
LEMMA DeliveredPage ==
  ASSUME ViewTypes, NEW k \in DOMAIN streams, Deliver(k)
  PROVE  /\ DOMAIN page' = DOMAIN page
         /\ \A i \in DOMAIN page :
              /\ page'[i].id = page[i].id
              /\ i # streams[k].idx => page'[i] = page[i]
              /\ i = streams[k].idx => page'[i].value = Head(streams[k].pipe)
<1>1. page' = [i \in DOMAIN page |-> IF i = streams[k].idx
                THEN [page[i] EXCEPT !.value = Head(streams[k].pipe)] ELSE page[i]]
  BY DEF Deliver
<1>2. \A i \in DOMAIN page : page[i] \in Entry
  BY DEF ViewTypes, FrontTypes
<1> QED
  BY <1>1, <1>2 DEF Entry

LEMMA AnsweredPage ==
  ASSUME ViewTypes, NEW a \in answers, Answered(a)
  PROVE  /\ DOMAIN page' = DOMAIN page
         /\ \A i \in DOMAIN page :
              page'[i].id = page[i].id /\ (page'[i] = page[i] \/ page'[i].value = Undefined)
<1>1. page' = [i \in DOMAIN page |-> IF page[i].id = a.id
                THEN [page[i] EXCEPT !.value = Undefined] ELSE page[i]]
  BY DEF Answered
<1>2. \A i \in DOMAIN page : page[i] \in Entry
  BY DEF ViewTypes, FrontTypes
<1> QED
  BY <1>1, <1>2 DEF Entry

(* An entry of a list that is shown gets a stream of its own.               *)
LEMMA ShownEntries ==
  ASSUME ViewTypes, NEW l \in listings, Show(l)
  PROVE  \A i \in DOMAIN page' :
           /\ Len(streams) + i \in DOMAIN streams' /\ Len(streams) + i \notin DOMAIN streams
           /\ streams'[Len(streams) + i] = Source(i, page'[i].id)
<1>1. /\ l.sensors \in Shows /\ page' = l.sensors
      /\ \A i \in DOMAIN l.sensors :
           /\ Len(streams) + i \in DOMAIN streams'
           /\ streams'[Len(streams) + i] = Source(i, l.sensors[i].id)
  BY ShownStreams DEF Show
<1>2. DOMAIN page' = 1..Len(page') /\ Len(page') \in Nat
  BY <1>1 DEF Shows
<1>3. DOMAIN streams = 1..Len(streams) /\ Len(streams) \in Nat
  BY DEF ViewTypes, FrontTypes
<1>4. \A i \in DOMAIN page' : Len(streams) + i \notin DOMAIN streams
  BY <1>2, <1>3
<1> QED
  BY <1>1, <1>4

LEMMA StepSourced ==
  ASSUME ViewBase, Sourced, [ViewNext]_viewVars
  PROVE  Sourced'
<1> USE DEF live
<1>0. ViewTypes /\ Matched
  BY DEF ViewBase
<1>1. SameStreams
  BY <1>0, StepStreams
<1>2. ASSUME DOMAIN page' = DOMAIN page, \A i \in DOMAIN page : page'[i].id = page[i].id
      PROVE  Sourced'
  BY <1>1, <1>2 DEF Sourced, OfEntry, SameStreams
<1>3. ASSUME NEW l \in listings, Show(l) PROVE Sourced'
  <2>1. \A i \in DOMAIN page' : /\ Len(streams) + i \in DOMAIN streams'
                                /\ streams'[Len(streams) + i] = Source(i, page'[i].id)
    BY <1>0, <1>3, ShownEntries
  <2>2. \A i \in DOMAIN page' : \E k \in DOMAIN streams' : streams'[k].idx = i /\ streams'[k].id = page'[i].id
    <3>1. \A i, s : Source(i, s).idx = i /\ Source(i, s).id = s
      BY DEF Source
    <3> QED
      BY <2>1, <3>1
  <2> QED
    BY <2>2 DEF Sourced, OfEntry
<1>4. /\ \A k \in DOMAIN streams : Deliver(k) => Sourced'
      /\ \A a \in answers : Answered(a) => Sourced'
  BY <1>0, <1>2, DeliveredPage, AnsweredPage
<1>5. /\ UNCHANGED viewVars \/ Unseen \/ MessageReply \/ ListenerReply \/ Perish => page' = page
      /\ Statement \/ GetAllSensors \/ Visit \/ Obey => page' = page
      /\ \A k \in DOMAIN streams : Connect(k) \/ Drop(k) => page' = page
      /\ \A i \in DOMAIN page : Click(i) => page' = page
      /\ \A r \in requests : Act(r) => page' = page
  BY DEF viewVars, Unseen, MessageReply, ListenerReply, Perish, Statement, GetAllSensors, Visit, Obey,
         Connect, Drop, Click, Act
<1>6. page' = page => Sourced'
  BY <1>2
<1> QED
  BY <1>3, <1>4, <1>5, <1>6 DEF ViewNext

LEMMA StepLastTold ==
  ASSUME ViewBase, InitialsRight, LastTold, [ViewNext]_viewVars
  PROVE  LastTold'
<1> USE DEF backend, process, live
<1>0. /\ ViewTypes /\ Matched /\ Connections /\ CacheTypes
      /\ streams \in Seq(Stream) /\ DOMAIN streams = 1..Len(streams) /\ Len(streams) \in Nat
      /\ \A k \in DOMAIN streams : streams[k] \in Stream
      /\ \A k \in DOMAIN streams : streams[k].pipe \in Seq(Values) /\ streams[k].id \in Sensors
  <2>1. /\ ViewTypes /\ Matched /\ Connections /\ CacheTypes /\ streams \in Seq(Stream)
    BY DEF ViewBase, ViewTypes, BackTypes, FrontTypes
  <2>2. \A k \in DOMAIN streams : streams[k] \in Stream
    BY <2>1
  <2> QED
    BY <2>1, <2>2 DEF Stream
<1>1. ASSUME DOMAIN streams' = DOMAIN streams, handled' = handled, behind' = behind,
             \A k \in DOMAIN streams : streams'[k] = streams[k] \/ streams'[k].pipe = << >>
      PROVE  LastTold'
  BY <1>1 DEF LastTold
<1>2. ASSUME MessageReply PROVE LastTold'
  <2> DEFINE r == Head(replies)
  <2>1. r \in Got /\ r.value # None
    BY <1>0, <1>2, HeadTail DEF MessageReply, CacheTypes
  <2>2. r.id \in Sensors /\ r.value \in Values
    BY <2>1 DEF Got
  <2>3. handled' = [handled EXCEPT ![r.id] = r.value] /\ handled \in [Sensors -> Values \cup {None}]
    BY <1>0, <1>2 DEF MessageReply, OnReply, CacheTypes
  <2>4. \A k \in DOMAIN streams : k \in Listeners(r.id) <=> streams[k].open /\ streams[k].id = r.id
    BY DEF Listeners
  <2>5. CASE r.found \notin {None, r.value}
    <3>1. streams' = Emitted(r.id, r.value) /\ behind' = behind \ Listeners(r.id)
      BY <1>2, <2>5 DEF MessageReply
    <3>2. /\ DOMAIN streams' = DOMAIN streams
          /\ \A k \in DOMAIN streams :
               /\ k \in Listeners(r.id) => streams'[k].pipe = Append(streams[k].pipe, r.value)
               /\ k \notin Listeners(r.id) => streams'[k] = streams[k]
               /\ streams'[k].id = streams[k].id
      BY <1>0, <2>2, <3>1, EmittedStreams DEF SameStreams
    <3> HIDE DEF r
    <3>3. ASSUME NEW k \in DOMAIN streams, k \in Listeners(r.id)
          PROVE  streams'[k].pipe[Len(streams'[k].pipe)] = handled'[streams'[k].id]
      <4>1. streams'[k].pipe[Len(streams'[k].pipe)] = r.value
        BY <3>2, <3>3, <1>0, <2>2, AppendProperties
      <4> QED
        BY <4>1, <3>2, <3>3, <2>2, <2>3, <2>4
    <3>4. ASSUME NEW k \in DOMAIN streams, k \notin Listeners(r.id), streams[k].open
          PROVE  handled'[streams[k].id] = handled[streams[k].id] /\ (k \in behind' <=> k \in behind)
      BY <3>4, <3>1, <2>3, <2>4
    <3> QED
      BY <3>2, <3>3, <3>4 DEF LastTold
  <2>6. CASE ~ (r.found \notin {None, r.value})
    <3>1. /\ streams' = streams
          /\ behind' = IF r.value # handled[r.id] THEN behind \cup Listeners(r.id) ELSE behind
      BY <1>2, <2>6 DEF MessageReply
    <3> HIDE DEF r
    <3>2. ASSUME NEW k \in DOMAIN streams, streams[k].open, k \notin behind'
          PROVE  k \notin behind /\ handled'[streams[k].id] = handled[streams[k].id]
      BY <3>1, <3>2, <2>2, <2>3, <2>4
    <3> QED
      BY <3>1, <3>2 DEF LastTold
  <2> QED
    BY <2>5, <2>6
<1>3. ASSUME ListenerReply PROVE LastTold'
  <2> PICK k : k = Head(asked)
    OBVIOUS
  <2> PICK v : v = Head(replies).found
    OBVIOUS
  <2>1. /\ SameStreams /\ DOMAIN streams' = DOMAIN streams /\ (k # 0 => k \in DOMAIN streams)
        /\ v \in Values \cup {None}
        /\ k # 0 /\ v # None =>
             /\ streams'[k].pipe = Append(streams[k].pipe, v)
             /\ \A j \in DOMAIN streams : j # k => streams'[j] = streams[j]
        /\ k = 0 \/ v = None => streams' = streams
    BY <1>0, <1>3, AnsweredStream
  <2>2. handled' = handled
    BY <1>3 DEF ListenerReply
  <2>3. CASE k = 0 \/ v = None
    BY <2>1, <2>2, <2>3, <1>1, <1>3 DEF ListenerReply
  <2>4. CASE k # 0 /\ v # None
    <3>1. behind' = IF streams[k].spoke THEN behind \cup {k} ELSE behind
      BY <1>3, <2>4 DEF ListenerReply
    <3>2. ASSUME k \notin behind'
          PROVE  streams'[k].pipe[Len(streams'[k].pipe)] = handled'[streams'[k].id]
      <4>1. /\ 1 \in InitialReplies /\ AskerOfReply(1) = k /\ replies[1].found = v
        BY <1>0, <1>3, AskersAnswered
      <4>2. Fresh(AskerOfReply(1))
        BY <4>1, <3>1, <3>2, <2>4 DEF Fresh
      <4>3. v = handled[replies[1].id]
        BY <4>1, <4>2 DEF InitialsRight
      <4>4. replies[1].id = streams[k].id
        BY <4>1, <2>4, <1>0 DEF Matched
      <4>5. streams'[k].pipe[Len(streams'[k].pipe)] = v
        BY <2>1, <2>4, <1>0, AppendProperties
      <4> QED
        BY <4>3, <4>4, <4>5, <2>1, <2>2, <2>4 DEF SameStreams
    <3>3. \A j \in DOMAIN streams : j # k => streams'[j] = streams[j] /\ (j \in behind' <=> j \in behind)
      BY <2>1, <2>4, <3>1
    <3> QED
      BY <2>1, <2>2, <3>2, <3>3 DEF LastTold
  <2> QED
    BY <2>3, <2>4
<1>4. ASSUME NEW k \in DOMAIN streams, Connect(k) PROVE LastTold'
  <2>1. behind' = behind \ {k} /\ handled' = handled /\ ~ streams[k].open
    BY <1>4 DEF Connect
  <2>2. /\ DOMAIN streams' = DOMAIN streams /\ streams'[k].pipe = streams[k].pipe
        /\ \A j \in DOMAIN streams : j # k => streams'[j] = streams[j]
    BY <1>0, <1>4, OneStream
  <2>3. streams'[k].pipe = << >>
    BY <2>1, <2>2, <1>0 DEF Connections
  <2> QED
    BY <2>1, <2>2, <2>3 DEF LastTold
<1>5. ASSUME NEW k \in DOMAIN streams, Drop(k) PROVE LastTold'
  <2>1. behind' = behind /\ handled' = handled
    BY <1>5 DEF Drop
  <2> QED
    BY <2>1, <1>0, <1>1, <1>5, OneStream
<1>6. ASSUME NEW k \in DOMAIN streams, Deliver(k) PROVE LastTold'
  <2>1. behind' = behind /\ handled' = handled /\ streams[k].pipe # << >>
    BY <1>6 DEF Deliver
  <2>2. /\ SameStreams /\ DOMAIN streams' = DOMAIN streams /\ streams'[k].open = streams[k].open
        /\ streams'[k].pipe = Tail(streams[k].pipe)
        /\ \A j \in DOMAIN streams : j # k => streams'[j] = streams[j]
    BY <1>0, <1>6, OneStream
  <2>3. ASSUME streams'[k].pipe # << >>
        PROVE  streams'[k].pipe[Len(streams'[k].pipe)] = streams[k].pipe[Len(streams[k].pipe)]
    BY <2>1, <2>2, <2>3, <1>0, HeadTailProperties
  <2>4. streams'[k].id = streams[k].id
    BY <2>2 DEF SameStreams
  <2>5. ASSUME streams'[k].open, k \notin behind', streams'[k].pipe # << >>
        PROVE  streams'[k].pipe[Len(streams'[k].pipe)] = handled'[streams'[k].id]
    <3>1. streams[k].pipe[Len(streams[k].pipe)] = handled[streams[k].id]
      BY <2>1, <2>2, <2>5 DEF LastTold
    <3> QED
      BY <3>1, <2>1, <2>3, <2>4, <2>5
  <2> QED
    BY <2>1, <2>2, <2>5 DEF LastTold
<1>7. ASSUME Perish PROVE LastTold'
  <2>1. behind' = behind
    BY <1>7 DEF Perish
  <2>2. DOMAIN streams' = DOMAIN streams /\ \A k \in DOMAIN streams : streams'[k].pipe = << >>
    BY <1>0, <1>7, ClosedStreams DEF Perish
  <2> QED
    BY <2>2 DEF LastTold
<1>8. ASSUME NEW l \in listings, Show(l) PROVE LastTold'
  <2>1. UNCHANGED <<handled, behind>>
    BY <1>8 DEF Show
  <2>2. /\ l.sensors \in Shows /\ \A k \in DOMAIN streams : streams'[k] = streams[k]
        /\ \A i \in DOMAIN l.sensors : streams'[Len(streams) + i] = Source(i, l.sensors[i].id)
        /\ DOMAIN streams' = 1..(Len(streams) + Len(l.sensors))
    BY <1>0, <1>8, ShownStreams
  <2>3. ASSUME NEW k \in DOMAIN streams', k \notin DOMAIN streams PROVE streams'[k].pipe = << >>
    <3>1. DOMAIN l.sensors = 1..Len(l.sensors) /\ Len(l.sensors) \in Nat
      BY <2>2 DEF Shows
    <3>2. k - Len(streams) \in DOMAIN l.sensors /\ k = Len(streams) + (k - Len(streams))
      BY <3>1, <2>2, <2>3, <1>0
    <3>3. streams'[k] = Source(k - Len(streams), l.sensors[k - Len(streams)].id)
      BY <3>2, <2>2
    <3> QED
      BY <3>3 DEF Source
  <2> QED
    BY <2>1, <2>2, <2>3 DEF LastTold
<1>9. /\ UNCHANGED viewVars \/ Unseen \/ Statement \/ GetAllSensors \/ Visit \/ Obey
          => UNCHANGED <<handled, streams, behind>>
      /\ \A i \in DOMAIN page : Click(i) => UNCHANGED <<handled, streams, behind>>
      /\ \A r \in requests : Act(r) => UNCHANGED <<handled, streams, behind>>
      /\ \A n \in answers : Answered(n) => UNCHANGED <<handled, streams, behind>>
  BY DEF viewVars, Unseen, Change, Publish, ServeCommand, OnMessage, Start, Statement, RunStatement,
         GetAllSensors, Visit, Click, Act, Answered, Obey
<1> QED
  BY <1>1, <1>2, <1>3, <1>4, <1>5, <1>6, <1>7, <1>8, <1>9 DEF ViewNext

(* An entry that shows what it showed, of a sensor whose last value is the  *)
(* same, keeps the stream that owes.                                        *)
LEMMA EntryKept ==
  ASSUME Shown, SameStreams, NEW i \in DOMAIN page, page'[i].id = page[i].id, Outdated(i)',
         Outdated(i)' => Outdated(i),
         \A k \in DOMAIN streams : OfEntry(k, i) /\ Owes(k) => Owes(k)'
  PROVE  \E k \in DOMAIN streams' : OfEntry(k, i)' /\ Owes(k)'
BY DEF Shown, SameStreams, OfEntry

LEMMA ReplyShown ==
  ASSUME ViewBase, Sourced, Shown, MessageReply
  PROVE  Shown'
<1> DEFINE r == Head(replies)
<1>0. ViewTypes /\ CacheTypes /\ streams \in Seq(Stream)
  BY DEF ViewBase, ViewTypes, BackTypes, FrontTypes
<1>1. r \in Got /\ r.value # None
  BY <1>0, HeadTail DEF MessageReply, CacheTypes
<1>2. r.id \in Sensors /\ r.value \in Values
  BY <1>1 DEF Got
<1>3. handled' = [handled EXCEPT ![r.id] = r.value] /\ handled \in [Sensors -> Values \cup {None}]
  BY <1>0 DEF MessageReply, OnReply, CacheTypes
<1>4. UNCHANGED <<page, asked>>
  BY DEF MessageReply
<1>5. \A k \in DOMAIN streams : k \in Listeners(r.id) <=> streams[k].open /\ streams[k].id = r.id
  BY DEF Listeners
<1>6. CASE r.found \notin {None, r.value}
  <2>1. streams' = Emitted(r.id, r.value) /\ behind' = behind \ Listeners(r.id)
    BY <1>6 DEF MessageReply
  <2>2. /\ SameStreams /\ DOMAIN streams' = DOMAIN streams
        /\ \A k \in DOMAIN streams :
             /\ k \in Listeners(r.id) => streams'[k].pipe = Append(streams[k].pipe, r.value)
             /\ k \notin Listeners(r.id) => streams'[k] = streams[k]
    BY <1>0, <1>2, <2>1, EmittedStreams
  <2> HIDE DEF r
  <2>3. \A k \in DOMAIN streams : k \in Listeners(r.id) => Owes(k)'
    <3> SUFFICES ASSUME NEW k \in DOMAIN streams, k \in Listeners(r.id) PROVE Owes(k)'
      OBVIOUS
    <3>1. streams[k] \in Stream
      BY <1>0
    <3>2. streams[k].pipe \in Seq(Values)
      BY <3>1 DEF Stream
    <3>3. streams'[k].pipe # << >>
      BY <2>2, <3>2, <1>2, AppendProperties
    <3> QED
      BY <3>3 DEF Owes
  <2>4. \A k \in DOMAIN streams : k \notin Listeners(r.id) /\ Owes(k) => Owes(k)'
    BY <2>1, <2>2, <1>4 DEF Owes
  <2>5. ASSUME NEW i \in DOMAIN page, page[i].id = r.id
        PROVE  \E k \in DOMAIN streams' : OfEntry(k, i)' /\ Owes(k)'
    <3>1. PICK k \in DOMAIN streams : OfEntry(k, i)
      BY DEF Sourced
    <3>2. OfEntry(k, i)' /\ k \in DOMAIN streams' /\ streams[k].id = r.id
      BY <3>1, <2>2, <2>5, <1>4 DEF OfEntry, SameStreams
    <3>3. k \notin Listeners(r.id) => Owes(k)
      BY <3>2, <1>5 DEF Owes
    <3> QED
      BY <3>2, <3>3, <2>3, <2>4
  <2>6. ASSUME NEW i \in DOMAIN page, page[i].id # r.id, Outdated(i)'
        PROVE  \E k \in DOMAIN streams' : OfEntry(k, i)' /\ Owes(k)'
    <3>1. Outdated(i)
      BY <2>6, <1>3, <1>4 DEF Outdated
    <3>2. \A k \in DOMAIN streams : OfEntry(k, i) => k \notin Listeners(r.id)
      BY <2>6, <1>5 DEF OfEntry
    <3> QED
      BY <3>1, <3>2, <2>2, <2>4, <2>6, <1>4, EntryKept
  <2> QED
    BY <2>5, <2>6, <1>4 DEF Shown
<1>7. CASE ~ (r.found \notin {None, r.value})
  <2>1. /\ streams' = streams
        /\ behind' = IF r.value # handled[r.id] THEN behind \cup Listeners(r.id) ELSE behind
    BY <1>7 DEF MessageReply
  <2> HIDE DEF r
  <2>2. SameStreams
    BY <2>1, <1>0 DEF SameStreams
  <2>3. \A k \in DOMAIN streams : Owes(k) => Owes(k)'
    BY <2>1, <1>4 DEF Owes
  <2>4. CASE r.value = handled[r.id]
    <3>1. handled' = handled
      BY <2>4, <1>2, <1>3
    <3>2. \A i \in DOMAIN page : Outdated(i)' => Outdated(i)
      BY <3>1, <1>4 DEF Outdated
    <3>3. \A i \in DOMAIN page : Outdated(i)' => \E k \in DOMAIN streams' : OfEntry(k, i)' /\ Owes(k)'
      BY <3>2, <2>2, <2>3, <1>4, EntryKept
    <3> QED
      BY <3>3, <1>4 DEF Shown
  <2>5. CASE r.value # handled[r.id]
    <3>1. ASSUME NEW i \in DOMAIN page, page[i].id = r.id
          PROVE  \E k \in DOMAIN streams' : OfEntry(k, i)' /\ Owes(k)'
      <4>1. PICK k \in DOMAIN streams : OfEntry(k, i)
        BY DEF Sourced
      <4>2. OfEntry(k, i)' /\ k \in DOMAIN streams' /\ streams[k].id = r.id
        BY <4>1, <3>1, <2>1, <1>4 DEF OfEntry
      <4>3. k \in behind' \/ ~ streams'[k].open
        BY <4>2, <2>1, <2>5, <1>5
      <4> QED
        BY <4>2, <4>3 DEF Owes
    <3>2. ASSUME NEW i \in DOMAIN page, page[i].id # r.id, Outdated(i)'
          PROVE  \E k \in DOMAIN streams' : OfEntry(k, i)' /\ Owes(k)'
      <4>1. Outdated(i)
        BY <3>2, <1>3, <1>4 DEF Outdated
      <4> QED
        BY <4>1, <2>2, <2>3, <3>2, <1>4, EntryKept
    <3> QED
      BY <3>1, <3>2, <1>4 DEF Shown
  <2> QED
    BY <2>4, <2>5
<1> QED
  BY <1>6, <1>7

(* An answer without a value is the truth for a stream that missed nothing. *)
LEMMA AnsweredShown ==
  ASSUME ViewBase, InitialsRight, Shown, ListenerReply
  PROVE  Shown'
<1>0. ViewTypes /\ Matched /\ Connections /\ streams \in Seq(Stream)
  BY DEF ViewBase, ViewTypes, FrontTypes
<1> PICK k : k = Head(asked)
  OBVIOUS
<1> PICK v : v = Head(replies).found
  OBVIOUS
<1>1. /\ SameStreams /\ DOMAIN streams' = DOMAIN streams /\ (k # 0 => k \in DOMAIN streams)
      /\ v \in Values \cup {None}
      /\ k # 0 /\ v # None =>
           /\ streams'[k].pipe = Append(streams[k].pipe, v)
           /\ \A j \in DOMAIN streams : j # k => streams'[j] = streams[j]
      /\ k = 0 \/ v = None => streams' = streams
  BY <1>0, AnsweredStream
<1>2. /\ \A i \in DOMAIN asked : i # 1 => i - 1 \in DOMAIN asked' /\ asked'[i - 1] = asked[i]
      /\ 1 \in InitialReplies /\ AskerOfReply(1) = k /\ replies[1].found = v
  BY <1>0, AskersAnswered
<1>3. UNCHANGED <<page, handled>> /\ behind \subseteq behind'
  BY DEF ListenerReply
<1>4. asked[1] = k
  BY <1>0, SomeoneAsked, HeadTail DEF ListenerReply, ViewTypes, FrontTypes
<1>5. \A j \in DOMAIN streams : j # k /\ Owes(j) => Owes(j)'
  <2> SUFFICES ASSUME NEW j \in DOMAIN streams, j # k, Owes(j) PROVE Owes(j)'
    OBVIOUS
  <2>1. streams'[j] = streams[j]
    BY <1>1
  <2>2. (\E n \in DOMAIN asked : asked[n] = j) => \E n \in DOMAIN asked' : asked'[n] = j
    BY <1>2, <1>4
  <2> QED
    BY <2>1, <2>2, <1>3 DEF Owes
<1>6. ASSUME k # 0, v # None PROVE Owes(k)'
  <2>1. streams[k] \in Stream
    BY <1>0, <1>1, <1>6
  <2>2. streams[k].pipe \in Seq(Values) /\ v \in Values
    BY <2>1, <1>1, <1>6 DEF Stream
  <2>3. streams'[k].pipe # << >>
    BY <2>2, <1>1, <1>6, AppendProperties
  <2> QED
    BY <2>3 DEF Owes
<1>7. ASSUME NEW i \in DOMAIN page, k # 0, v = None, OfEntry(k, i), Outdated(i), Owes(k)
      PROVE  Owes(k)'
  <2>1. streams' = streams
    BY <1>1, <1>7
  <2>2. replies[1].id = streams[k].id
    BY <1>0, <1>2, <1>7 DEF Matched
  <2>3. ~ Fresh(k)
    <3>1. Fresh(k) => v = handled[page[i].id]
      BY <2>2, <1>2, <1>7 DEF InitialsRight, OfEntry
    <3> QED
      BY <3>1, <1>7 DEF Outdated
  <2>4. k \in behind \/ ~ streams[k].open \/ streams[k].pipe # << >>
    BY <2>3, <1>7 DEF Fresh, Owes
  <2> QED
    BY <2>1, <2>4, <1>3 DEF Owes
<1>8. \A i \in DOMAIN page : Outdated(i)' => Outdated(i)
  BY <1>3 DEF Outdated
<1>9. ASSUME NEW i \in DOMAIN page, Outdated(i), NEW j \in DOMAIN streams, OfEntry(j, i), Owes(j)
      PROVE  Owes(j)'
  <2>1. j # 0
    BY <1>0
  <2> QED
    BY <2>1, <1>5, <1>6, <1>7, <1>9
<1>10. \A i \in DOMAIN page : Outdated(i)' => \E j \in DOMAIN streams' : OfEntry(j, i)' /\ Owes(j)'
  BY <1>1, <1>3, <1>8, <1>9, EntryKept
<1> QED
  BY <1>3, <1>10 DEF Shown

(* A value that is delivered at an entry of its own sensor is the last one, *)
(* unless more is held or the stream missed it.                             *)
LEMMA DeliveredShown ==
  ASSUME ViewBase, LastTold, Shown, EventsShownAtOwn, NEW k \in DOMAIN streams, Deliver(k)
  PROVE  Shown'
<1>0. /\ ViewTypes /\ Connections /\ streams \in Seq(Stream) /\ DOMAIN streams = 1..Len(streams)
  BY DEF ViewBase, ViewTypes, FrontTypes
<1>1. UNCHANGED <<asked, behind, handled>> /\ streams[k].pipe # << >>
  BY DEF Deliver, backend, process
<1>2. /\ SameStreams /\ DOMAIN streams' = DOMAIN streams
      /\ \A j \in DOMAIN streams : j # k => streams'[j] = streams[j]
      /\ streams'[k].open = streams[k].open /\ streams'[k].pipe = Tail(streams[k].pipe)
  BY <1>0, OneStream
<1>3. /\ DOMAIN page' = DOMAIN page
      /\ \A i \in DOMAIN page :
           /\ page'[i].id = page[i].id
           /\ i # streams[k].idx => page'[i] = page[i]
           /\ i = streams[k].idx => page'[i].value = Head(streams[k].pipe)
  BY <1>0, DeliveredPage
<1>4. ASSUME NEW i \in DOMAIN page, i # streams[k].idx, Outdated(i)'
      PROVE  \E j \in DOMAIN streams' : OfEntry(j, i)' /\ Owes(j)'
  <2>1. Outdated(i)' => Outdated(i)
    BY <1>1, <1>3, <1>4 DEF Outdated
  <2>2. \A j \in DOMAIN streams : OfEntry(j, i) /\ Owes(j) => Owes(j)'
    BY <1>1, <1>2, <1>4 DEF OfEntry, Owes
  <2> QED
    BY <2>1, <2>2, <1>2, <1>3, <1>4, EntryKept
<1>5. ASSUME NEW i \in DOMAIN page, i = streams[k].idx, Outdated(i)'
      PROVE  \E j \in DOMAIN streams' : OfEntry(j, i)' /\ Owes(j)'
  <2>1. OfEntry(k, i)'
    BY <1>2, <1>3, <1>5 DEF OfEntry, SameStreams, EventsShownAtOwn
  <2>2. streams[k].open
    BY <1>0, <1>1 DEF Connections
  <2>3. page'[i].value # handled'[page'[i].id]
    BY <1>5 DEF Outdated
  <2>4. Head(streams[k].pipe) # handled[streams[k].id]
    BY <2>3, <1>1, <1>3, <1>5 DEF EventsShownAtOwn
  <2>5. k \notin behind => streams[k].pipe[Len(streams[k].pipe)] # Head(streams[k].pipe)
    BY <2>2, <2>4, <1>1 DEF LastTold
  <2>6. streams[k].pipe[Len(streams[k].pipe)] # Head(streams[k].pipe) => Tail(streams[k].pipe) # << >>
    <3>1. streams[k] \in Stream
      BY <1>0
    <3>2. streams[k].pipe \in Seq(Values)
      BY <3>1 DEF Stream
    <3>3. /\ Len(Tail(streams[k].pipe)) = Len(streams[k].pipe) - 1 /\ Len(streams[k].pipe) \in Nat
          /\ Head(streams[k].pipe) = streams[k].pipe[1]
      BY <3>2, <1>1, HeadTailProperties, HeadTail
    <3>4. ASSUME Tail(streams[k].pipe) = << >> PROVE Len(streams[k].pipe) = 1
      <4>1. Len(Tail(streams[k].pipe)) = 0
        <5>1. Tail(streams[k].pipe) \in Seq(Values)
          BY <3>2, <1>1, HeadTail
        <5> QED
          BY <3>4, <5>1, EmptySeq
      <4> QED
        BY <3>3, <4>1
    <3> QED
      BY <3>3, <3>4
  <2>7. Owes(k)'
    BY <2>5, <2>6, <1>1, <1>2 DEF Owes
  <2> QED
    BY <2>1, <2>7, <1>2
<1> QED
  BY <1>3, <1>4, <1>5 DEF Shown

LEMMA StepShown ==
  ASSUME ViewBase, InitialsRight, LastTold, Sourced, Shown, EventsShownAtOwn, [ViewNext]_viewVars
  PROVE  Shown'
<1> USE DEF backend, process, live
<1>0. ViewTypes /\ Matched /\ Connections /\ streams \in Seq(Stream) /\ SameStreams
  <2>1. ViewTypes /\ Matched /\ Connections /\ streams \in Seq(Stream)
    BY DEF ViewBase, ViewTypes, FrontTypes
  <2> QED
    BY <2>1, StepStreams
<1>1. ASSUME UNCHANGED <<handled, streams, behind, asked, page>> PROVE Shown'
  BY <1>1 DEF Shown, Outdated, OfEntry, Owes
<1>2. ASSUME NEW k \in DOMAIN streams, Connect(k) PROVE Shown'
  <2>1. UNCHANGED <<page, handled>> /\ behind' = behind \ {k}
    BY <1>2 DEF Connect
  <2>2. /\ DOMAIN streams' = DOMAIN streams /\ streams'[k].spoke = FALSE
        /\ \A j \in DOMAIN streams : j # k => streams'[j] = streams[j]
    BY <1>0, <1>2, OneStream
  <2>3. /\ \A i \in DOMAIN asked : i \in DOMAIN asked' /\ asked'[i] = asked[i]
        /\ Len(asked) + 1 \in DOMAIN asked' /\ asked'[Len(asked) + 1] = k
    BY <1>0, <1>2, AskersConnected
  <2>4. \A j \in DOMAIN streams : Owes(j) => Owes(j)'
    BY <2>1, <2>2, <2>3 DEF Owes
  <2>5. \A i \in DOMAIN page : Outdated(i)' => Outdated(i)
    BY <2>1 DEF Outdated
  <2>6. \A i \in DOMAIN page : Outdated(i)' => \E j \in DOMAIN streams' : OfEntry(j, i)' /\ Owes(j)'
    BY <2>1, <2>4, <2>5, <1>0, EntryKept
  <2> QED
    BY <2>1, <2>6 DEF Shown
<1>3. ASSUME NEW k \in DOMAIN streams, Drop(k) PROVE Shown'
  <2>1. UNCHANGED <<page, handled, behind>>
    BY <1>3 DEF Drop
  <2>2. /\ DOMAIN streams' = DOMAIN streams /\ streams'[k].open = FALSE
        /\ \A j \in DOMAIN streams : j # k => streams'[j] = streams[j]
    BY <1>0, <1>3, OneStream
  <2>3. asked' = [i \in DOMAIN asked |-> IF asked[i] = k THEN 0 ELSE asked[i]]
    BY <1>3 DEF Drop
  <2>4. \A j \in DOMAIN streams : Owes(j) => Owes(j)'
    BY <2>1, <2>2, <2>3 DEF Owes
  <2>5. \A i \in DOMAIN page : Outdated(i)' => Outdated(i)
    BY <2>1 DEF Outdated
  <2>6. \A i \in DOMAIN page : Outdated(i)' => \E j \in DOMAIN streams' : OfEntry(j, i)' /\ Owes(j)'
    BY <2>1, <2>4, <2>5, <1>0, EntryKept
  <2> QED
    BY <2>1, <2>6 DEF Shown
<1>4. ASSUME Perish PROVE Shown'
  <2>1. handled' = Nothing /\ page' = page
    BY <1>4 DEF Perish, Die
  <2>2. \A i \in DOMAIN page : page[i].id \in Sensors
    <3>1. \A i \in DOMAIN page : page[i] \in Entry
      BY <1>0 DEF ViewTypes, FrontTypes
    <3> QED
      BY <3>1 DEF Entry
  <2> QED
    BY <2>1, <2>2 DEF Shown, Outdated, Nothing
<1>5. ASSUME NEW l \in listings, Show(l) PROVE Shown'
  <2>1. \A i \in DOMAIN page' : /\ Len(streams) + i \in DOMAIN streams'
                                /\ streams'[Len(streams) + i] = Source(i, page'[i].id)
    BY <1>0, <1>5, ShownEntries
  <2>2. \A i, s : Source(i, s).idx = i /\ Source(i, s).id = s /\ Source(i, s).open = FALSE
    BY DEF Source
  <2>3. \A i \in DOMAIN page' : \E k \in DOMAIN streams' :
          streams'[k].idx = i /\ streams'[k].id = page'[i].id /\ ~ streams'[k].open
    BY <2>1, <2>2
  <2> QED
    BY <2>3 DEF Shown, OfEntry, Owes
<1>6. ASSUME NEW a \in answers, Answered(a) PROVE Shown'
  <2>1. UNCHANGED <<handled, streams, behind, asked>>
    BY <1>6 DEF Answered
  <2>2. /\ DOMAIN page' = DOMAIN page
        /\ \A i \in DOMAIN page :
             page'[i].id = page[i].id /\ (page'[i] = page[i] \/ page'[i].value = Undefined)
    BY <1>0, <1>6, AnsweredPage
  <2>3. \A i \in DOMAIN page : Outdated(i)' => Outdated(i)
    BY <2>1, <2>2 DEF Outdated
  <2>4. \A k \in DOMAIN streams : Owes(k) => Owes(k)'
    BY <2>1 DEF Owes
  <2>5. \A i \in DOMAIN page : Outdated(i)' => \E j \in DOMAIN streams' : OfEntry(j, i)' /\ Owes(j)'
    BY <2>2, <2>3, <2>4, <1>0, EntryKept
  <2> QED
    BY <2>2, <2>5 DEF Shown
<1>7. /\ UNCHANGED viewVars \/ Unseen \/ Statement \/ GetAllSensors \/ Visit \/ Obey
          => UNCHANGED <<handled, streams, behind, asked, page>>
      /\ \A i \in DOMAIN page : Click(i) => UNCHANGED <<handled, streams, behind, asked, page>>
      /\ \A r \in requests : Act(r) => UNCHANGED <<handled, streams, behind, asked, page>>
  BY DEF viewVars, Unseen, Change, Publish, ServeCommand, OnMessage, Start, Statement, RunStatement,
         GetAllSensors, Visit, Click, Act, Obey
<1> QED
  BY <1>1, <1>2, <1>3, <1>4, <1>5, <1>6, <1>7, ReplyShown, AnsweredShown, DeliveredShown DEF ViewNext

-----------------------------------------------------------------------------
ViewCurrent == ViewBase /\ InitialsRight /\ LastTold /\ Sourced /\ Shown

LEMMA InitViewCurrent == ViewInit => ViewCurrent
<1> SUFFICES ASSUME ViewInit PROVE ViewCurrent
  OBVIOUS
<1>1. page = << >> /\ streams = << >>
  BY DEF ViewInit
<1>2. LastTold /\ Sourced /\ Shown
  BY <1>1 DEF LastTold, Sourced, Shown
<1> QED
  BY <1>2, InitViewBase, InitInitials DEF ViewCurrent

LEMMA StepViewCurrent == ViewCurrent /\ EventsShownAtOwn /\ [ViewNext]_viewVars => ViewCurrent'
BY StepViewBase, StepInitials, StepLastTold, StepSourced, StepShown DEF ViewCurrent

LEMMA CurrentSettled == ViewCurrent => SettledShown
<1> SUFFICES ASSUME ViewCurrent, Settled, NEW i \in DOMAIN page,
                    handled[page[i].id] # None, Told(page[i].id)
             PROVE  page[i].value \in {handled[page[i].id], Undefined}
  BY DEF SettledShown
<1>1. \A k \in DOMAIN streams : OfEntry(k, i) => ~ Owes(k)
  BY DEF OfEntry, Owes, Settled, Told, StreamsOf
<1>2. ~ Outdated(i)
  BY <1>1 DEF ViewCurrent, Shown
<1> QED
  BY <1>2 DEF Outdated

(* As long as the entry at the index of a stream is the sensor the stream   *)
(* is of, the page comes to show the last value of each sensor it was told. *)
THEOREM OwnEventsSettle == ViewSpec /\ []EventsShownAtOwn => []SettledShown
BY InitViewCurrent, StepViewCurrent, CurrentSettled, PTL DEF ViewSpec

(* With one sensor it always is.                                            *)
THEOREM OneSensorSettles ==
  ASSUME NEW s, Sensors = {s}
  PROVE  ViewSpec => []SettledShown
<1>1. ViewBase => EventsShownAtOwn
  <2> SUFFICES ASSUME ViewBase, NEW k \in DOMAIN streams, streams[k].idx \in DOMAIN page
               PROVE  page[streams[k].idx].id = streams[k].id
    BY DEF EventsShownAtOwn
  <2>1. page[streams[k].idx] \in Entry /\ streams[k] \in Stream
    BY DEF ViewBase, ViewTypes, FrontTypes
  <2> QED
    BY <2>1 DEF Entry, Stream
<1>2. ViewSpec => []ViewBase
  BY InitViewBase, StepViewBase, PTL DEF ViewSpec
<1> QED
  BY <1>1, <1>2, OwnEventsSettle, PTL

-----------------------------------------------------------------------------
(* More sensors.  While the process does not die, the INSERT into           *)
(* sensor_data follows each row of sensor_info at once, no list is read     *)
(* between the two, and so each list has the order of the rows.             *)
PairedIn(q) ==
  \A i \in DOMAIN q :
    q[i].op = "create" => i + 1 \in DOMAIN q /\ q[i + 1].op = "insert" /\ q[i + 1].id = q[i].id

LEMMA EventPaired ==
  ASSUME NEW r \in Reply, NEW ops \in {NewEvent, OldEvent, << >>}
  PROVE  PairedIn(Statements(ops, r))
<1>1. /\ DOMAIN Statements(ops, r) = DOMAIN ops
      /\ \A i \in DOMAIN ops : Statements(ops, r)[i].op = ops[i] /\ Statements(ops, r)[i].id = r.id
  BY DEF Statements
<1>2. CASE ops = NewEvent
  <2>1. DOMAIN ops = 1..6 /\ ops[2] = "insert" /\ \A i \in 1..6 : ops[i] = "create" => i = 1
    BY <1>2 DEF NewEvent
  <2> QED
    BY <2>1, <1>1 DEF PairedIn
<1>3. CASE ops = OldEvent
  <2>1. DOMAIN ops = 1..2 /\ \A i \in 1..2 : ops[i] # "create"
    BY <1>3 DEF OldEvent
  <2> QED
    BY <2>1, <1>1 DEF PairedIn
<1>4. CASE ops = << >>
  <2>1. DOMAIN ops = {}
    BY <1>4
  <2> QED
    BY <2>1, <1>1 DEF PairedIn
<1> QED
  BY <1>2, <1>3, <1>4

LEMMA PairedConcat ==
  ASSUME NEW S, NEW q \in Seq(S), NEW e \in Seq(S), PairedIn(q), PairedIn(e)
  PROVE  PairedIn(q \o e)
<1> DEFINE n == Len(q)
           m == Len(e)
           t == q \o e
<1>1. /\ n \in Nat /\ m \in Nat /\ DOMAIN q = 1..n /\ DOMAIN e = 1..m /\ DOMAIN t = 1..(n + m)
      /\ \A i \in 1..n : t[i] = q[i]
      /\ \A i \in (n + 1)..(n + m) : t[i] = e[i - n]
  BY ConcatProperties, LenProperties
<1> HIDE DEF n, m, t
<1>2. ASSUME NEW i \in DOMAIN t, t[i].op = "create"
      PROVE  i + 1 \in DOMAIN t /\ t[i + 1].op = "insert" /\ t[i + 1].id = t[i].id
  <2>1. CASE i \in 1..n
    <3>1. i + 1 \in 1..n /\ q[i + 1].op = "insert" /\ q[i + 1].id = q[i].id
      BY <2>1, <1>1, <1>2 DEF PairedIn
    <3> QED
      BY <3>1, <2>1, <1>1
  <2>2. CASE i \notin 1..n
    <3>1. i - n \in 1..m /\ i \in (n + 1)..(n + m)
      BY <2>2, <1>1
    <3>2. (i - n) + 1 \in 1..m /\ e[(i - n) + 1].op = "insert" /\ e[(i - n) + 1].id = e[i - n].id
      BY <3>1, <1>1, <1>2 DEF PairedIn
    <3>3. i + 1 \in (n + 1)..(n + m) /\ (i + 1) - n = (i - n) + 1
      BY <3>1, <3>2, <1>1
    <3> QED
      BY <3>1, <3>2, <3>3, <1>1
  <2> QED
    BY <2>1, <2>2
<1> QED
  BY <1>2 DEF PairedIn, t

LEMMA PairedTail ==
  ASSUME NEW S, NEW q \in Seq(S), q # << >>, PairedIn(q)
  PROVE  PairedIn(Tail(q))
<1> DEFINE t == Tail(q)
<1>1. /\ \A i \in DOMAIN t : i \in Nat /\ i + 1 \in DOMAIN q /\ t[i] = q[i + 1]
      /\ \A i \in DOMAIN q : i # 1 => i - 1 \in DOMAIN t /\ t[i - 1] = q[i]
  BY HeadTail
<1> HIDE DEF t
<1>2. ASSUME NEW i \in DOMAIN t, t[i].op = "create"
      PROVE  i + 1 \in DOMAIN t /\ t[i + 1].op = "insert" /\ t[i + 1].id = t[i].id
  <2>1. (i + 1) + 1 \in DOMAIN q /\ q[(i + 1) + 1].op = "insert" /\ q[(i + 1) + 1].id = q[i + 1].id
    BY <1>1, <1>2 DEF PairedIn
  <2>2. i \in Nat /\ (i + 1) + 1 # 1 /\ ((i + 1) + 1) - 1 = i + 1
    BY <1>1
  <2> QED
    BY <2>1, <2>2, <1>1
<1> QED
  BY <1>2 DEF PairedIn, t

LEMMA PairedAppend ==
  ASSUME NEW S, NEW q \in Seq(S), NEW x \in S, x.op # "create", PairedIn(q)
  PROVE  PairedIn(Append(q, x))
<1> DEFINE t == Append(q, x)
<1>1. /\ \A i \in DOMAIN t : (i \in DOMAIN q /\ t[i] = q[i]) \/ t[i] = x
      /\ \A i \in DOMAIN q : i \in DOMAIN t /\ t[i] = q[i]
  BY AppendElements
<1> HIDE DEF t
<1>2. PairedIn(t)
  BY <1>1 DEF PairedIn
<1> QED
  BY <1>2 DEF t

RowsValued ==
  \A i \in DOMAIN rows :
    \/ data[rows[i]] # None
    \/ i = Len(rows) /\ writes # << >> /\ writes[1].op = "insert" /\ writes[1].id = rows[i]

RowOf(i, s) == i \in DOMAIN rows /\ rows[i] = s

InRows ==
  /\ \A i \in DOMAIN page : RowOf(i, page[i].id)
  /\ \A l \in listings : \A i \in DOMAIN l.sensors : RowOf(i, l.sensors[i].id)
  /\ \A k \in DOMAIN streams : RowOf(streams[k].idx, streams[k].id)

(* A list has all rows in their order.                                      *)
LEMMA ListedRows ==
  ASSUME ViewTypes, RowsValued, writes # << >>, writes[1].op = "select"
  PROVE  DOMAIN Joined = DOMAIN rows /\ \A i \in DOMAIN rows : Joined[i].id = rows[i]
<1>1. {i \in DOMAIN rows : data[rows[i]] # None} = DOMAIN rows
  BY DEF RowsValued
<1>2. rows \in Seq(Sensors)
  BY DEF ViewTypes, FrontTypes
<1>3. Subsequence(rows, DOMAIN rows) = rows
  BY <1>2, SubsequenceNoneAll
<1>4. Joined = [i \in DOMAIN rows |-> [id |-> rows[i], value |-> data[rows[i]]]]
  BY <1>1, <1>3 DEF Joined
<1> QED
  BY <1>4

(* SQLite: a row is inserted with the INSERT of its value next in line.     *)
LEMMA StatementRows ==
  ASSUME ViewTypes, PairedIn(writes), RowsValued, Statement
  PROVE  /\ PairedIn(writes)' /\ RowsValued'
         /\ \A i \in DOMAIN rows : i \in DOMAIN rows' /\ rows'[i] = rows[i]
<1> DEFINE w == Head(writes)
<1>0. /\ writes \in Seq(Query) /\ writes # << >> /\ writes' = Tail(writes)
      /\ rows \in Seq(Sensors) /\ data \in [Sensors -> Values \cup {None}]
  BY DEF ViewTypes, BackTypes, FrontTypes, Statement, RunStatement
<1>1. PairedIn(writes')
  BY <1>0, PairedTail
<1>2. w \in Query /\ w = writes[1] /\ 1 \in DOMAIN writes
  BY <1>0, HeadTail
<1>3. w.op # "select" /\ w \in Write
  BY <1>2 DEF Statement, Query
<1>4. w.id \in Sensors /\ w.value # None
  BY <1>3, BackendConstants DEF Write
<1>5. data' = IF \/ w.op = "insert" /\ data[w.id] = None
                 \/ w.op = "update" /\ data[w.id] # None
              THEN [data EXCEPT ![w.id] = w.value] ELSE data
  BY DEF Statement, RunStatement
<1>6. rows' = IF w.op = "create" /\ w.id \notin info THEN Append(rows, w.id) ELSE rows
  BY DEF Statement
<1> HIDE DEF w
<1>7. \A s \in Sensors : data[s] # None => data'[s] # None
  BY <1>0, <1>4, <1>5
<1>8. w.op = "insert" => data'[w.id] # None
  BY <1>0, <1>4, <1>5
<1>9. \A i \in DOMAIN rows : rows[i] \in Sensors
  BY <1>0
<1>10. \A i \in DOMAIN rows : data'[rows[i]] # None
  <2> SUFFICES ASSUME NEW i \in DOMAIN rows PROVE data'[rows[i]] # None
    OBVIOUS
  <2>1. CASE data[rows[i]] # None
    BY <2>1, <1>7, <1>9
  <2>2. CASE writes[1].op = "insert" /\ writes[1].id = rows[i]
    BY <2>2, <1>2, <1>8
  <2> QED
    BY <2>1, <2>2 DEF RowsValued
<1>11. CASE rows' = rows
  BY <1>1, <1>10, <1>11 DEF RowsValued
<1>12. CASE w.op = "create" /\ rows' = Append(rows, w.id)
  <2>1. /\ \A i \in DOMAIN rows' : \/ i \in DOMAIN rows /\ rows'[i] = rows[i]
                                   \/ i = Len(rows) + 1 /\ rows'[i] = w.id
        /\ \A i \in DOMAIN rows : i \in DOMAIN rows' /\ rows'[i] = rows[i]
    BY <1>0, <1>4, <1>12, AppendElements
  <2>2. Len(rows') = Len(rows) + 1
    BY <1>0, <1>4, <1>12, AppendProperties
  <2>3. 2 \in DOMAIN writes /\ writes[2].op = "insert" /\ writes[2].id = w.id
    <3>1. 1 + 1 \in DOMAIN writes /\ writes[1 + 1].op = "insert" /\ writes[1 + 1].id = writes[1].id
      BY <1>2, <1>12 DEF PairedIn
    <3>2. 1 + 1 = 2
      OBVIOUS
    <3> QED
      BY <3>1, <3>2, <1>2
  <2>4. 1 \in DOMAIN writes' /\ writes'[1] = writes[2]
    <3>1. 2 - 1 \in DOMAIN writes' /\ writes'[2 - 1] = writes[2]
      BY <2>3, <1>0, HeadTail
    <3>2. 2 - 1 = 1
      OBVIOUS
    <3> QED
      BY <3>1, <3>2
  <2>5. writes' # << >>
    BY <2>4
  <2> QED
    BY <2>1, <2>2, <2>3, <2>4, <2>5, <1>1, <1>10 DEF RowsValued
<1> QED
  BY <1>6, <1>11, <1>12

InOrder == PairedIn(writes) /\ RowsValued /\ InRows

LEMMA StepInOrder ==
  ASSUME ViewBase, InOrder, alive', [ViewNext]_viewVars
  PROVE  InOrder'
<1> USE DEF backend, process, live, database
<1>0. /\ ViewTypes /\ Matched /\ writes \in Seq(Query) /\ rows \in Seq(Sensors) /\ streams \in Seq(Stream)
      /\ PairedIn(writes) /\ RowsValued /\ InRows /\ DOMAIN streams = 1..Len(streams) /\ Len(streams) \in Nat
  BY DEF ViewBase, ViewTypes, BackTypes, FrontTypes, InOrder
<1>1. SameStreams
  BY <1>0, StepStreams
<1>2. ASSUME DOMAIN streams' = DOMAIN streams, DOMAIN page' = DOMAIN page, listings' \subseteq listings,
             \A i \in DOMAIN page : page'[i].id = page[i].id,
             \A i \in DOMAIN rows : i \in DOMAIN rows' /\ rows'[i] = rows[i]
      PROVE  InRows'
  BY <1>0, <1>1, <1>2 DEF InRows, RowOf, SameStreams
<1>3. ASSUME UNCHANGED <<data, rows>>, \A i \in DOMAIN writes : i \in DOMAIN writes' /\ writes'[i] = writes[i]
      PROVE  RowsValued'
  <2>1. writes # << >> => writes' # << >> /\ writes'[1] = writes[1]
    <3>1. writes # << >> => 1 \in DOMAIN writes
      BY <1>0, HeadTail
    <3> QED
      BY <3>1, <1>3
  <2> QED
    BY <2>1, <1>0, <1>3 DEF RowsValued
<1>4. ASSUME Statement PROVE InOrder'
  <2>1. /\ PairedIn(writes)' /\ RowsValued'
        /\ \A i \in DOMAIN rows : i \in DOMAIN rows' /\ rows'[i] = rows[i]
    BY <1>0, <1>4, StatementRows
  <2>2. UNCHANGED <<page, streams, listings>>
    BY <1>4 DEF Statement
  <2> QED
    BY <2>1, <2>2, <1>2 DEF InOrder
<1>5. ASSUME GetAllSensors PROVE InOrder'
  <2>1. /\ writes # << >> /\ writes' = Tail(writes) /\ Head(writes).op = "select" /\ data' = data
        /\ UNCHANGED <<page, streams, rows>>
        /\ listings' = listings \cup {[visit |-> Head(writes).value, sensors |-> Joined]}
    BY <1>5 DEF GetAllSensors, RunStatement
  <2>2. writes[1].op = "select"
    BY <1>0, <2>1, HeadTail
  <2>3. DOMAIN Joined = DOMAIN rows /\ \A i \in DOMAIN rows : Joined[i].id = rows[i]
    BY <1>0, <2>1, <2>2, ListedRows
  <2>4. PairedIn(writes')
    BY <1>0, <2>1, PairedTail
  <2>5. RowsValued'
    BY <1>0, <2>1, <2>2 DEF RowsValued
  <2>6. InRows'
    <3>1. \A l \in listings' : l \in listings \/ l.sensors = Joined
      BY <2>1
    <3> QED
      BY <3>1, <2>1, <2>3, <1>0 DEF InRows, RowOf
  <2> QED
    BY <2>4, <2>5, <2>6 DEF InOrder
<1>6. ASSUME MessageReply PROVE InOrder'
  <2> DEFINE r == Head(replies)
             ops == IF r.found = None THEN NewEvent ELSE IF r.found # r.value THEN OldEvent ELSE << >>
             e == Statements(ops, r)
  <2>1. r \in Got /\ r.value # None
    BY <1>0, <1>6, HeadTail DEF MessageReply, ViewTypes, BackTypes, CacheTypes
  <2>2. r \in Reply /\ ops \in {NewEvent, OldEvent, << >>}
    BY <2>1 DEF Got, Reply
  <2>3. writes' = writes \o e
    BY <1>6 DEF MessageReply, OnReply
  <2> HIDE DEF ops, r
  <2>4. e \in Seq(Write) /\ PairedIn(e)
    BY <2>2, EventWrites, EventPaired
  <2> HIDE DEF e
  <2>5. e \in Seq(Query)
    <3>1. Write \subseteq Query
      BY DEF Query
    <3> QED
      BY <2>4, <3>1, SeqWider
  <2>6. PairedIn(writes')
    BY <1>0, <2>3, <2>4, <2>5, PairedConcat
  <2>7. \A i \in DOMAIN writes : i \in DOMAIN writes' /\ writes'[i] = writes[i]
    BY <1>0, <2>3, <2>5, ConcatProperties
  <2>8. UNCHANGED <<data, rows, page, listings>>
    BY <1>6 DEF MessageReply, OnReply
  <2>9. DOMAIN streams' = DOMAIN streams
    BY <1>6 DEF MessageReply, Emitted
  <2> QED
    BY <2>6, <2>7, <2>8, <2>9, <1>2, <1>3 DEF InOrder
<1>7. ASSUME Visit PROVE InOrder'
  <2> DEFINE x == [op |-> "select", id |-> None, value |-> visits']
  <2>1. writes' = Append(writes, x) /\ x.op # "create"
    BY <1>7 DEF Visit
  <2>2. x \in Query
    <3>1. visits' \in Nat
      BY <1>0, <1>7 DEF Visit, ViewTypes, BackTypes
    <3> QED
      BY <3>1 DEF Query
  <2>3. UNCHANGED <<data, rows, page, listings, streams>>
    BY <1>7 DEF Visit
  <2> HIDE DEF x
  <2>4. PairedIn(writes') /\ \A i \in DOMAIN writes : i \in DOMAIN writes' /\ writes'[i] = writes[i]
    BY <1>0, <2>1, <2>2, PairedAppend, AppendElements
  <2> QED
    BY <2>3, <2>4, <1>2, <1>3 DEF InOrder
<1>8. ASSUME NEW l \in listings, Show(l) PROVE InOrder'
  <2>1. UNCHANGED <<writes, data, rows>> /\ page' = l.sensors /\ listings' = listings \ {l}
    BY <1>8 DEF Show
  <2>2. /\ l.sensors \in Shows /\ \A k \in DOMAIN streams : streams'[k] = streams[k]
        /\ \A i \in DOMAIN l.sensors : streams'[Len(streams) + i] = Source(i, l.sensors[i].id)
        /\ DOMAIN streams' = 1..(Len(streams) + Len(l.sensors))
    BY <1>0, <1>8, ShownStreams
  <2>3. ASSUME NEW k \in DOMAIN streams', k \notin DOMAIN streams
        PROVE  RowOf(streams'[k].idx, streams'[k].id)
    <3>1. DOMAIN l.sensors = 1..Len(l.sensors) /\ Len(l.sensors) \in Nat
      BY <2>2 DEF Shows
    <3>2. k - Len(streams) \in DOMAIN l.sensors /\ k = Len(streams) + (k - Len(streams))
      BY <3>1, <2>2, <2>3, <1>0
    <3>3. streams'[k] = Source(k - Len(streams), l.sensors[k - Len(streams)].id)
      BY <3>2, <2>2
    <3>4. RowOf(k - Len(streams), l.sensors[k - Len(streams)].id)
      BY <3>2, <1>0, <1>8 DEF InRows
    <3> QED
      BY <3>3, <3>4 DEF Source
  <2>4. InRows'
    BY <2>1, <2>2, <2>3, <1>0 DEF InRows, RowOf
  <2>5. PairedIn(writes)' /\ RowsValued'
    BY <2>1, <1>0 DEF PairedIn, RowsValued
  <2> QED
    BY <2>4, <2>5 DEF InOrder
<1>9. ASSUME UNCHANGED <<writes, data, rows, listings>>, DOMAIN streams' = DOMAIN streams,
             DOMAIN page' = DOMAIN page, \A i \in DOMAIN page : page'[i].id = page[i].id
      PROVE  InOrder'
  <2>1. PairedIn(writes)' /\ RowsValued'
    BY <1>0, <1>9 DEF PairedIn, RowsValued
  <2> QED
    BY <2>1, <1>2, <1>9 DEF InOrder
<1>10. ASSUME NEW k \in DOMAIN streams, Connect(k) \/ Drop(k) \/ Deliver(k) PROVE InOrder'
  <2>1. UNCHANGED <<writes, data, rows, listings>> /\ (page' = page \/ Deliver(k))
    BY <1>10 DEF Connect, Drop, Deliver
  <2>2. DOMAIN streams' = DOMAIN streams
    BY <1>0, <1>10, OneStream
  <2>3. DOMAIN page' = DOMAIN page /\ \A i \in DOMAIN page : page'[i].id = page[i].id
    BY <2>1, <1>0, DeliveredPage
  <2> QED
    BY <2>1, <2>2, <2>3, <1>9
<1>11. ASSUME ListenerReply PROVE InOrder'
  <2>1. UNCHANGED <<writes, data, rows, listings, page>>
    BY <1>11 DEF ListenerReply
  <2>2. DOMAIN streams' = DOMAIN streams
    BY <1>0, <1>11, AnsweredStream
  <2> QED
    BY <2>1, <2>2, <1>9
<1>12. ASSUME NEW a \in answers, Answered(a) PROVE InOrder'
  <2>1. UNCHANGED <<writes, data, rows, listings, streams>>
    BY <1>12 DEF Answered
  <2>2. DOMAIN page' = DOMAIN page /\ \A i \in DOMAIN page : page'[i].id = page[i].id
    BY <1>0, <1>12, AnsweredPage
  <2> QED
    BY <2>1, <2>2, <1>9
<1>13. ~ Perish
  BY DEF Perish, Die
<1>14. /\ UNCHANGED viewVars \/ Unseen \/ Obey => UNCHANGED <<writes, data, rows, listings, streams, page>>
       /\ \A i \in DOMAIN page : Click(i) => UNCHANGED <<writes, data, rows, listings, streams, page>>
       /\ \A r \in requests : Act(r) => UNCHANGED <<writes, data, rows, listings, streams, page>>
  BY DEF viewVars, Unseen, Change, Publish, ServeCommand, OnMessage, Start, Obey, Click, Act
<1>15. UNCHANGED <<writes, data, rows, listings, streams, page>> => InOrder'
  BY <1>9
<1> QED
  BY <1>4, <1>5, <1>6, <1>7, <1>8, <1>10, <1>11, <1>12, <1>13, <1>14, <1>15 DEF ViewNext

LEMMA InitInOrder == ViewInit => InOrder
BY DEF ViewInit, Init, InOrder, PairedIn, RowsValued, InRows

LEMMA OrderedOwn == InOrder => EventsShownAtOwn
BY DEF InOrder, InRows, RowOf, EventsShownAtOwn

(* While the process does not die, each event is shown at the entry of its  *)
(* own sensor, whichever list the page shows and whichever visit opened the *)
(* stream.                                                                  *)
THEOREM SteadyEventsShownAtOwn == ViewSpec /\ []alive => []EventsShownAtOwn
<1>1. ViewBase /\ InOrder /\ alive' /\ [ViewNext]_viewVars => InOrder'
  BY StepInOrder
<1>2. ViewSpec => []ViewBase
  BY InitViewBase, StepViewBase, PTL DEF ViewSpec
<1> QED
  BY <1>1, <1>2, InitInOrder, OrderedOwn, PTL DEF ViewSpec

(* And then the page comes to show the last value of each sensor, of any    *)
(* number of sensors.                                                       *)
THEOREM SteadySettledShown == ViewSpec /\ []alive => []SettledShown
BY SteadyEventsShownAtOwn, OwnEventsSettle, PTL

-----------------------------------------------------------------------------
(* The backend beside the browser serves as it does alone.  What is kept is *)
(* not more than there was.                                                 *)
LEMMA KeptFewer ==
  ASSUME NEW S, NEW q \in Seq(S), NEW B, NEW C
  PROVE  /\ Cardinality(Where(Kept(q, B), C)) <= Cardinality(Where(q, C))
         /\ Cardinality(Where(Kept(q, B), C)) \in Nat /\ Cardinality(Where(q, C)) \in Nat
         /\ Len(Kept(q, B)) <= Len(q) /\ Len(Kept(q, B)) \in Nat /\ Len(q) \in Nat
<1> DEFINE P == Where(q, B)
           k == Kept(q, B)
           M == Where(k, C)
           G == Where(q, C)
<1>1. /\ k \in Seq(S) /\ Len(k) = Cardinality(P) /\ Cardinality(P) \in Nat
      /\ \A m \in 1..Cardinality(P) : \E i \in P : Rank(P, i) = m /\ k[m] = q[i]
  BY KeptElements
<1>2. /\ P \in SUBSET (1..Len(q)) /\ Len(q) \in Nat /\ G \in SUBSET (1..Len(q)) /\ DOMAIN q = 1..Len(q)
  BY WhereChosen
<1>3. M \in SUBSET (1..Len(k)) /\ DOMAIN k = 1..Len(k)
  BY <1>1, WhereChosen
<1>4. \A m \in M : k[m] \in C
  BY DEF Where
<1>5. \A i \in 1..Len(q) : q[i] \in C => i \in G
  BY <1>2 DEF Where
<1> HIDE DEF P, k, M, G
<1>6. IsFiniteSet(1..Len(q)) /\ Cardinality(1..Len(q)) = Len(q)
  BY <1>2, FS_Interval
<1>7. IsFiniteSet(G) /\ Cardinality(G) \in Nat /\ Cardinality(P) <= Len(q)
  BY <1>2, <1>6, FS_Subset, FS_CardinalityType
<1> DEFINE at(m) == CHOOSE i \in P : Rank(P, i) = m /\ k[m] = q[i]
           f == [m \in M |-> at(m)]
<1>8. \A m \in M : at(m) \in P /\ Rank(P, at(m)) = m /\ k[m] = q[at(m)]
  <2> SUFFICES ASSUME NEW m \in M PROVE at(m) \in P /\ Rank(P, at(m)) = m /\ k[m] = q[at(m)]
    OBVIOUS
  <2>1. \E i \in P : Rank(P, i) = m /\ k[m] = q[i]
    BY <1>1, <1>3
  <2> QED
    BY <2>1
<1> HIDE DEF at
<1>9. f \in [M -> G]
  BY <1>2, <1>4, <1>5, <1>8
<1>10. \A m, n \in M : f[m] = f[n] => m = n
  BY <1>8
<1> HIDE DEF f
<1>11. f \in Injection(M, G)
  BY <1>9, <1>10 DEF Injection, IsInjective
<1>12. IsFiniteSet(M) /\ Cardinality(M) <= Cardinality(G)
  BY <1>7, <1>11, FS_Injection
<1>13. Cardinality(M) \in Nat
  BY <1>12, FS_CardinalityType
<1> QED
  BY <1>1, <1>2, <1>7, <1>12, <1>13 DEF P, k, M, G

(* The orders and requests come from clicks.                                *)
Counted ==
  /\ changes \in 0..MaxChanges /\ obeyed \in Nat /\ clicks \in 0..MaxClicks
  /\ IsFiniteSet(requests) /\ obeyed + Len(orders) + Cardinality(requests) <= clicks

LEMMA InitCounted == ViewInit => Counted
BY ViewConstants, BackendConstants, FS_EmptySet DEF ViewInit, Init, Counted

LEMMA StepCounted ==
  ASSUME ViewTypes, Counted, [ViewNext]_viewVars
  PROVE  Counted'
<1> USE DEF backend, toggles, world
<1>0. /\ orders \in Seq([id : Sensors, level : Values]) /\ Len(orders) \in Nat
      /\ MaxChanges \in Nat /\ MaxClicks \in Nat
      /\ Cardinality(requests) \in Nat
  BY FS_CardinalityType, ViewConstants, BackendConstants DEF ViewTypes, FrontTypes, Counted
<1>1. ASSUME UNCHANGED <<changes, obeyed, clicks, requests, orders>> PROVE Counted'
  BY <1>1 DEF Counted
<1>2. ASSUME NEW s \in Sensors, Change(s), UNCHANGED toggles, obeyed' = obeyed PROVE Counted'
  BY <1>0, <1>2 DEF Counted, Change
<1>3. ASSUME Perish PROVE Counted'
  <2>1. requests' = {} /\ UNCHANGED <<changes, obeyed, clicks, orders>>
    BY <1>3 DEF Perish, Die
  <2>2. IsFiniteSet(requests') /\ Cardinality(requests') = 0
    BY <2>1, FS_EmptySet
  <2> QED
    BY <2>1, <2>2, <1>0 DEF Counted
<1>4. ASSUME NEW i \in DOMAIN page, Click(i) PROVE Counted'
  <2> PICK r : requests' = requests \cup {r}
    BY <1>4 DEF Click
  <2>1. clicks < MaxClicks /\ clicks' = clicks + 1 /\ UNCHANGED <<changes, obeyed, orders>>
    BY <1>4 DEF Click
  <2>2. IsFiniteSet(requests') /\ Cardinality(requests') <= Cardinality(requests) + 1
    <3> DEFINE more == requests \cup {r}
    <3>1. IsFiniteSet(requests)
      BY DEF Counted
    <3>2. /\ IsFiniteSet(more)
          /\ Cardinality(more) = IF r \in requests THEN Cardinality(requests) ELSE Cardinality(requests) + 1
      BY <3>1, FS_AddElement
    <3> HIDE DEF more
    <3>3. Cardinality(more) <= Cardinality(requests) + 1
      BY <3>2, <1>0
    <3> QED
      BY <3>2, <3>3 DEF more
  <2>3. Cardinality(requests') \in Nat
    BY <2>2, FS_CardinalityType
  <2> QED
    BY <2>1, <2>2, <2>3, <1>0 DEF Counted
<1>5. ASSUME NEW r \in requests, Act(r) PROVE Counted'
  <2>1. requests' = requests \ {r} /\ UNCHANGED <<changes, obeyed, clicks>>
    BY <1>5 DEF Act
  <2>2. IsFiniteSet(requests') /\ Cardinality(requests') = Cardinality(requests) - 1
    BY <2>1, FS_RemoveElement DEF Counted
  <2>3. Len(orders') \in Nat /\ Len(orders') <= Len(orders) + 1
    <3>1. CASE r.action = NaN
      BY <3>1, <1>0, <1>5 DEF Act
    <3>2. CASE r.action # NaN
      <4>1. r.id \in Sensors /\ r.action \in Values
        BY <3>2 DEF ViewTypes, FrontTypes
      <4> DEFINE o == [id |-> r.id, level |-> r.action]
                 T == [id : Sensors, level : Values]
      <4>2. o \in T /\ orders' = Append(orders, o)
        BY <4>1, <3>2, <1>5 DEF Act
      <4>3. orders \in Seq(T)
        BY <1>0
      <4> HIDE DEF o, T
      <4> QED
        BY <4>2, <4>3, <1>0, AppendProperties
    <3> QED
      BY <3>1, <3>2
  <2> QED
    BY <2>1, <2>2, <2>3, <1>0 DEF Counted
<1>6. ASSUME Obey PROVE Counted'
  <2> DEFINE T == [id : Sensors, level : Values]
  <2>1. orders # << >> /\ orders' = Tail(orders) /\ UNCHANGED <<changes, clicks, requests>>
    BY <1>6 DEF Obey
  <2>2. orders \in Seq(T)
    BY <1>0
  <2> HIDE DEF T
  <2>3. Len(orders') = Len(orders) - 1 /\ Len(orders') \in Nat
    BY <2>1, <2>2, <1>0, HeadTailProperties
  <2>4. obeyed' = obeyed \/ obeyed' = obeyed + 1
    BY <1>6 DEF Obey
  <2> QED
    BY <2>1, <2>3, <2>4, <1>0 DEF Counted
<1>7. ASSUME Unseen PROVE Counted'
  <2>1. UNCHANGED toggles /\ obeyed' = obeyed
    BY <1>7 DEF Unseen
  <2>2. /\ \A s \in Sensors : Publish(s) => changes' = changes
        /\ ServeCommand \/ OnMessage \/ Start => changes' = changes
    BY DEF Publish, ServeCommand, OnMessage, Start
  <2> QED
    BY <2>1, <2>2, <1>1, <1>2, <1>7 DEF Unseen
<1>8. /\ UNCHANGED viewVars \/ MessageReply \/ ListenerReply \/ Statement \/ GetAllSensors \/ Visit
          => UNCHANGED <<changes, obeyed, clicks, requests, orders>>
      /\ \A k \in DOMAIN streams :
           Connect(k) \/ Drop(k) \/ Deliver(k) => UNCHANGED <<changes, obeyed, clicks, requests, orders>>
      /\ \A l \in listings : Show(l) => UNCHANGED <<changes, obeyed, clicks, requests, orders>>
      /\ \A n \in answers : Answered(n) => UNCHANGED <<changes, obeyed, clicks, requests, orders>>
  BY DEF viewVars, MessageReply, OnReply, ListenerReply, Statement, RunStatement, GetAllSensors, Visit,
         Connect, Drop, Deliver, Show, Answered
<1> QED
  BY <1>1, <1>3, <1>4, <1>5, <1>6, <1>7, <1>8 DEF ViewNext

(* The sequences of Alone.                                                  *)
LEMMA OwnKept ==
  ASSUME BackTypes
  PROVE  /\ OwnCommands = Kept(commands, Sent \ ListenerGet)
         /\ OwnReplies = Kept(replies, Got \ ListenerAnswer)
         /\ OwnWrites = Kept(writes, Write)
<1>1. CacheTypes
  BY DEF BackTypes
<1>2. DOMAIN writes \ Selects = Where(writes, Write)
  <2>1. \A i \in DOMAIN writes : writes[i] \in Query
    BY DEF BackTypes
  <2>2. \A w \in Query : w.op # "select" <=> w \in Write
    BY DEF Query, Write
  <2>3. \A i \in DOMAIN writes : writes[i].op # "select" <=> writes[i] \in Write
    BY <2>1, <2>2
  <2> QED
    BY <2>3 DEF Selects, Where
<1> QED
  BY <1>1, <1>2, Positions DEF OwnCommands, OwnReplies, OwnWrites, Kept

LEMMA OwnKeptNext ==
  ASSUME BackTypes'
  PROVE  /\ OwnCommands' = Kept(commands', Sent \ ListenerGet)
         /\ OwnReplies' = Kept(replies', Got \ ListenerAnswer)
         /\ OwnWrites' = Kept(writes', Write)
<1>1. CacheTypes'
  BY DEF BackTypes
<1>2. (DOMAIN writes \ Selects)' = Where(writes', Write)
  <2>1. \A i \in DOMAIN writes' : writes'[i] \in Query
    BY DEF BackTypes
  <2>2. \A w \in Query : w.op # "select" <=> w \in Write
    BY DEF Query, Write
  <2>3. \A i \in DOMAIN writes' : writes'[i].op # "select" <=> writes'[i] \in Write
    BY <2>1, <2>2
  <2> QED
    BY <2>3 DEF Selects, Where
<1>3. \A i \in DOMAIN commands' : commands'[i] \in Sent
  BY <1>1 DEF CacheTypes
<1>4. \A i \in DOMAIN replies' : replies'[i] \in Got
  BY <1>1 DEF CacheTypes
<1>5. /\ (DOMAIN commands \ InitialGets)' = Where(commands', Sent \ ListenerGet)
      /\ (DOMAIN replies \ InitialReplies)' = Where(replies', Got \ ListenerAnswer)
  BY <1>3, <1>4 DEF InitialGets, InitialReplies, Where, ListenerGet, ListenerAnswer
<1> QED
  BY <1>2, <1>5 DEF OwnCommands, OwnReplies, OwnWrites, Kept

(* A queue of which nothing changes is the same of Alone.                   *)
LEMMA OwnSame ==
  /\ commands' = commands => OwnCommands' = OwnCommands
  /\ replies' = replies => OwnReplies' = OwnReplies
  /\ writes' = writes => OwnWrites' = OwnWrites
BY DEF OwnCommands, OwnReplies, OwnWrites, InitialGets, InitialReplies, Selects

(* And with a bounded queue it is bounded.                                  *)
LEMMA OwnFewer ==
  ASSUME BackTypes
  PROVE  Alone!InWork <= InWork /\ Len(OwnWrites) <= Len(writes) /\ Alone!InWork \in Nat /\ InWork \in Nat
<1> DEFINE C == {c \in Sent : c.op = "get"}
           own == Kept(commands, Sent \ ListenerGet)
<1>1. /\ commands \in Seq(Sent) /\ replies \in Seq(Got) /\ writes \in Seq(Query) /\ inbox \in Seq(Message)
  BY DEF BackTypes, CacheTypes
<1>2. OwnCommands = own /\ own \in Seq(Sent)
  BY <1>1, OwnKept, KeptElements
<1>3. /\ Cardinality(Where(own, C)) <= Cardinality(Where(commands, C))
      /\ Cardinality(Where(own, C)) \in Nat /\ Cardinality(Where(commands, C)) \in Nat
  BY <1>1, KeptFewer
<1>4. {i \in DOMAIN commands : commands[i].op = "get"} = Where(commands, C)
  <2>1. \A i \in DOMAIN commands : commands[i] \in Sent
    BY <1>1
  <2> QED
    BY <2>1 DEF Where
<1>5. {i \in DOMAIN OwnCommands : OwnCommands[i].op = "get"} = Where(own, C)
  <2> HIDE DEF own
  <2>1. \A i \in DOMAIN own : own[i] \in Sent
    BY <1>2
  <2> QED
    BY <2>1, <1>2 DEF Where
<1>6. Gets = Cardinality(Where(commands, C)) /\ Alone!Gets = Cardinality(Where(own, C))
  <2> HIDE DEF own, C
  <2>1. Gets = Cardinality(Where(commands, C))
    BY <1>4, Zenon DEF Gets
  <2>3. \A S : Alone!Cardinality(S) = Cardinality(S)
    BY Zenon DEF Alone!Cardinality, Cardinality
  <2>2. Alone!Gets = Cardinality(Where(own, C))
    BY <1>5, <2>3, Zenon DEF Alone!Gets
  <2> QED
    BY <2>1, <2>2
<1>7. Len(OwnReplies) <= Len(replies) /\ Len(OwnReplies) \in Nat /\ Len(replies) \in Nat
  BY <1>1, OwnKept, KeptFewer
<1>8. Len(OwnWrites) <= Len(writes)
  BY <1>1, OwnKept, KeptFewer
<1> HIDE DEF own, C
<1>9. Gets \in Nat /\ Alone!Gets \in Nat /\ Alone!Gets <= Gets
  BY <1>3, <1>6
<1>10. Len(inbox) \in Nat
  BY <1>1
<1> QED
  BY <1>7, <1>8, <1>9, <1>10 DEF InWork, Alone!InWork

LEMMA OneFlush == Kept(<<Flush>>, Sent \ ListenerGet) = <<Flush>>
<1> DEFINE B == Sent \ ListenerGet
           q == << >>
<1>1. Flush \in B /\ Flush \in Sent
  BY DEF Sent, ListenerGet, Flush
<1>2. q \in Seq(Sent)
  OBVIOUS
<1>3. Kept(q, B) = q
  BY KeptEmpty
<1>4. Append(q, Flush) = <<Flush>>
  OBVIOUS
<1> HIDE DEF B, q
<1>5. Kept(Append(q, Flush), B) = Append(Kept(q, B), Flush)
  BY <1>1, <1>2, KeptAppend
<1>6. Kept(<<Flush>>, B) = <<Flush>>
  BY <1>3, <1>4, <1>5
<1> QED
  BY <1>6 DEF B

LEMMA InitAlone == ViewInit => Alone!Init
<1> SUFFICES ASSUME ViewInit PROVE Alone!Init
  OBVIOUS
<1>1. BackTypes /\ Init /\ obeyed = 0
  BY InitViewTypes DEF ViewTypes, ViewInit
<1>2. OwnCommands = <<Flush>> /\ OwnReplies = << >> /\ OwnWrites = << >>
  BY <1>1, OwnKept, OneFlush, KeptEmpty DEF Init
<1>3. Alone!Flush = Flush /\ Alone!Nothing = Nothing
  BY DEF Alone!Flush, Flush, Alone!Nothing, Nothing
<1> QED
  BY <1>1, <1>2, <1>3 DEF Init, Alone!Init

(* Redis serves a command of a message, or one of a listener unnoticed.     *)
LEMMA ServeAlone ==
  ASSUME ViewTypes, BackTypes', ServeCommand, obeyed' = obeyed
  PROVE  [Alone!Next]_(Alone!vars)
<1> DEFINE c == Head(commands)
           r == [id |-> c.id, value |-> c.value, found |-> store[c.id]]
<1>0. /\ commands \in Seq(Sent) /\ replies \in Seq(Got) /\ store \in [Sensors -> Values \cup {None}]
      /\ BackTypes /\ commands # << >> /\ commands' = Tail(commands)
  BY DEF ViewTypes, BackTypes, CacheTypes, ServeCommand
<1>1. c \in Sent
  BY <1>0, HeadTail
<1>2. UNCHANGED <<level, changes, alive, inbox, writes, handled, info, data, deaths, obeyed>>
  BY DEF ServeCommand, world, database
<1>3. OwnWrites' = OwnWrites
  BY <1>2, OwnSame
<1>4. /\ replies' = IF c.op = "get" THEN Append(replies, r) ELSE replies
      /\ store' = CASE c.op = "flush" -> Nothing
                    [] c.op = "set"   -> [store EXCEPT ![c.id] = c.value]
                    [] c.op = "get"   -> store
  BY DEF ServeCommand
<1>5. c.op = "get" => r \in Got /\ (c \in ListenerGet <=> r \in ListenerAnswer)
  BY <1>0, <1>1 DEF Sent, Got, ListenerGet, ListenerAnswer, Flush
<1> HIDE DEF c, r
<1>6. /\ OwnCommands = Kept(commands, Sent \ ListenerGet) /\ OwnCommands' = Kept(commands', Sent \ ListenerGet)
      /\ OwnReplies = Kept(replies, Got \ ListenerAnswer) /\ OwnReplies' = Kept(replies', Got \ ListenerAnswer)
  BY <1>0, OwnKept, OwnKeptNext
<1>7. CASE c \in ListenerGet
  <2>1. c.op = "get" /\ r \notin Got \ ListenerAnswer /\ store' = store
    BY <1>4, <1>5, <1>7 DEF ListenerGet
  <2>2. OwnCommands' = OwnCommands
    BY <1>0, <1>6, <1>7, KeptTail DEF c
  <2>3. OwnReplies' = OwnReplies
    BY <1>0, <1>4, <1>5, <1>6, <2>1, KeptAppend
  <2> QED
    BY <2>1, <2>2, <2>3, <1>2, <1>3 DEF Alone!vars, Alone!world, Alone!process, Alone!database
<1>8. CASE c \notin ListenerGet
  <2>1. OwnCommands # << >> /\ Head(OwnCommands) = c /\ OwnCommands' = Tail(OwnCommands)
    BY <1>0, <1>1, <1>6, <1>8, KeptTail DEF c
  <2>2. OwnReplies' = IF c.op = "get" THEN Append(OwnReplies, r) ELSE OwnReplies
    <3>1. CASE c.op = "get"
      BY <3>1, <1>0, <1>4, <1>5, <1>6, <1>8, KeptAppend
    <3>2. CASE c.op # "get"
      BY <3>2, <1>4, OwnSame
    <3> QED
      BY <3>1, <3>2
  <2>3. Alone!ServeCommand
    <3>1. Alone!Nothing = Nothing
      BY DEF Alone!Nothing, Nothing
    <3> QED
      BY <2>1, <2>2, <3>1, <1>2, <1>3, <1>4 DEF Alone!ServeCommand, Alone!world, Alone!database, r
  <2> QED
    BY <2>3 DEF Alone!Next
<1> QED
  BY <1>7, <1>8

(* The callback of a message.                                               *)
LEMMA ReplyAlone ==
  ASSUME ViewTypes, BackTypes', MessageReply
  PROVE  Alone!OnReply
<1> DEFINE r == Head(replies)
           ops == IF r.found = None THEN NewEvent ELSE IF r.found # r.value THEN OldEvent ELSE << >>
           e == Statements(ops, r)
           c == [op |-> "set", id |-> r.id, value |-> r.value]
<1>0. /\ commands \in Seq(Sent) /\ replies \in Seq(Got) /\ writes \in Seq(Query)
      /\ BackTypes /\ replies # << >> /\ replies' = Tail(replies) /\ r.value # None
  BY DEF ViewTypes, BackTypes, CacheTypes, MessageReply, OnReply
<1>1. r \in Got /\ r \in Got \ ListenerAnswer /\ r \in Reply
  <2>1. r \in Got
    BY <1>0, HeadTail
  <2> HIDE DEF r
  <2> QED
    BY <2>1, <1>0 DEF ListenerAnswer, Got, Reply
<1>2. c \in Sent /\ c \in Sent \ ListenerGet
  BY <1>1 DEF Got, Sent, ListenerGet
<1>3. /\ writes' = writes \o e /\ commands' = Append(commands, c)
      /\ handled' = [handled EXCEPT ![r.id] = r.value]
      /\ UNCHANGED <<level, changes, alive, inbox, store, info, data, deaths, obeyed>>
  BY DEF MessageReply, OnReply, world, database
<1>4. ops \in {NewEvent, OldEvent, << >>}
  OBVIOUS
<1>5. e = Alone!Statements(IF r.found = None THEN Alone!NewEvent
                           ELSE IF r.found # r.value THEN Alone!OldEvent ELSE << >>, r)
  BY DEF Statements, Alone!Statements, NewEvent, Alone!NewEvent, OldEvent, Alone!OldEvent
<1> HIDE DEF ops
<1>6. e \in Seq(Write)
  BY <1>1, <1>4, EventWrites
<1> HIDE DEF e
<1>7. e \in Seq(Query) /\ \A i \in DOMAIN e : e[i] \in Write
  <2>1. Write \subseteq Query
    BY DEF Query
  <2> QED
    BY <1>6, <2>1, SeqWider
<1>8. OwnWrites' = OwnWrites \o e
  <2>1. Kept(writes \o e, Write) = Kept(writes, Write) \o e
    BY <1>0, <1>7, KeptConcat
  <2> QED
    BY <2>1, <1>0, <1>3, OwnKept, OwnKeptNext
<1>9. /\ OwnReplies # << >> /\ Head(OwnReplies) = r /\ OwnReplies' = Tail(OwnReplies)
  <2>1. /\ OwnReplies = Kept(replies, Got \ ListenerAnswer) /\ OwnReplies' = Kept(replies', Got \ ListenerAnswer)
    BY <1>0, OwnKept, OwnKeptNext
  <2> QED
    BY <2>1, <1>0, <1>1, KeptTail
<1>10. OwnCommands' = Append(OwnCommands, c)
  <2>1. /\ OwnCommands = Kept(commands, Sent \ ListenerGet) /\ OwnCommands' = Kept(commands', Sent \ ListenerGet)
    BY <1>0, OwnKept, OwnKeptNext
  <2> HIDE DEF c
  <2> QED
    BY <2>1, <1>0, <1>2, <1>3, KeptAppend
<1> QED
  BY <1>3, <1>5, <1>8, <1>9, <1>10 DEF Alone!OnReply, Alone!world, Alone!database

LEMMA MessageAlone ==
  ASSUME ViewTypes, BackTypes', OnMessage, obeyed' = obeyed
  PROVE  Alone!OnMessage
<1> DEFINE c == [op |-> "get", id |-> Head(inbox).id, value |-> Head(inbox).value]
<1>0. commands \in Seq(Sent) /\ BackTypes /\ inbox \in Seq(Message)
  BY DEF ViewTypes, BackTypes, CacheTypes
<1>1. Head(inbox) \in Message
  BY <1>0, HeadTail DEF OnMessage
<1>2. c \in Sent /\ c \in Sent \ ListenerGet
  BY <1>1, BackendConstants DEF Message, Sent, ListenerGet
<1>3. /\ inbox # << >> /\ inbox' = Tail(inbox) /\ commands' = Append(commands, c)
      /\ UNCHANGED <<level, changes, alive, replies, writes, handled, store, info, data, deaths>>
  BY DEF OnMessage, world, database
<1>4. OwnCommands' = Append(OwnCommands, c)
  <2>1. /\ OwnCommands = Kept(commands, Sent \ ListenerGet) /\ OwnCommands' = Kept(commands', Sent \ ListenerGet)
    BY <1>0, OwnKept, OwnKeptNext
  <2> HIDE DEF c
  <2> QED
    BY <2>1, <1>0, <1>2, <1>3, KeptAppend
<1>5. OwnReplies' = OwnReplies /\ OwnWrites' = OwnWrites
  BY <1>3, OwnSame
<1> QED
  BY <1>3, <1>4, <1>5 DEF Alone!OnMessage, Alone!world, Alone!database

(* SQLite runs a statement of an event, or lists the sensors unnoticed.     *)
LEMMA StatementAlone ==
  ASSUME ViewTypes, BackTypes', RunStatement, obeyed' = obeyed
  PROVE  [Alone!Next]_(Alone!vars)
<1> DEFINE w == Head(writes)
<1>0. writes \in Seq(Query) /\ BackTypes /\ writes # << >> /\ writes' = Tail(writes)
  BY DEF ViewTypes, BackTypes, RunStatement
<1>1. w \in Query
  BY <1>0, HeadTail
<1>2. /\ UNCHANGED <<level, changes, alive, inbox, commands, replies, handled, store, deaths>>
      /\ info' = IF w.op = "create" THEN info \cup {w.id} ELSE info
      /\ data' = IF \/ w.op = "insert" /\ data[w.id] = None
                    \/ w.op = "update" /\ data[w.id] # None
                 THEN [data EXCEPT ![w.id] = w.value] ELSE data
  BY DEF RunStatement, world
<1>3. OwnCommands' = OwnCommands /\ OwnReplies' = OwnReplies
  BY <1>2, OwnSame
<1>4. OwnWrites = Kept(writes, Write) /\ OwnWrites' = Kept(writes', Write)
  BY <1>0, OwnKept, OwnKeptNext
<1>5. CASE w \notin Write
  <2>1. w.op = "select"
    BY <1>1, <1>5 DEF Query
  <2>2. OwnWrites' = OwnWrites
    BY <1>0, <1>4, <1>5, KeptTail
  <2> QED
    BY <2>1, <2>2, <1>2, <1>3 DEF Alone!vars, Alone!world, Alone!process, Alone!database
<1>6. CASE w \in Write
  <2>1. OwnWrites # << >> /\ Head(OwnWrites) = w /\ OwnWrites' = Tail(OwnWrites)
    BY <1>0, <1>4, <1>6, KeptTail
  <2>2. Alone!RunStatement
    BY <2>1, <1>2, <1>3 DEF Alone!RunStatement, Alone!world
  <2> QED
    BY <2>2 DEF Alone!Next
<1> QED
  BY <1>5, <1>6

(* What is asked and answered for listeners, and a list that is asked for,  *)
(* nobody notices.                                                          *)
LEMMA ListenerAlone ==
  ASSUME ViewTypes, BackTypes',
         ListenerReply \/ Visit \/ \E k \in DOMAIN streams : Connect(k)
  PROVE  UNCHANGED Alone!vars
<1>0. /\ commands \in Seq(Sent) /\ replies \in Seq(Got) /\ writes \in Seq(Query) /\ BackTypes
      /\ visits \in Nat /\ streams \in Seq(Stream)
  BY DEF ViewTypes, BackTypes, CacheTypes, FrontTypes
<1>1. /\ OwnCommands = Kept(commands, Sent \ ListenerGet) /\ OwnCommands' = Kept(commands', Sent \ ListenerGet)
      /\ OwnReplies = Kept(replies, Got \ ListenerAnswer) /\ OwnReplies' = Kept(replies', Got \ ListenerAnswer)
      /\ OwnWrites = Kept(writes, Write) /\ OwnWrites' = Kept(writes', Write)
  BY <1>0, OwnKept, OwnKeptNext
<1>2. UNCHANGED <<level, changes, alive, inbox, handled, store, info, data, deaths, obeyed>>
  BY DEF ListenerReply, Visit, Connect, world, database
<1>3. ASSUME ListenerReply
      PROVE  UNCHANGED <<OwnCommands, OwnReplies, OwnWrites>>
  <2>1. /\ replies # << >> /\ replies' = Tail(replies) /\ Head(replies).value = None
        /\ UNCHANGED <<commands, writes>>
    BY <1>3 DEF ListenerReply
  <2>2. Head(replies) \in Got
    BY <1>0, <2>1, HeadTail
  <2>3. Head(replies) \notin Got \ ListenerAnswer
    BY <2>1, <2>2 DEF ListenerAnswer
  <2>4. OwnReplies' = OwnReplies
    BY <1>0, <1>1, <2>1, <2>3, KeptTail
  <2> QED
    BY <2>1, <2>4, OwnSame
<1>4. ASSUME Visit
      PROVE  UNCHANGED <<OwnCommands, OwnReplies, OwnWrites>>
  <2> DEFINE x == [op |-> "select", id |-> None, value |-> visits']
  <2>1. writes' = Append(writes, x) /\ UNCHANGED <<commands, replies>> /\ visits' \in Nat
    BY <1>0, <1>4 DEF Visit
  <2>2. x \in Query /\ x \notin Write
    BY <2>1 DEF Query, Write
  <2> HIDE DEF x
  <2>3. OwnWrites' = OwnWrites
    BY <1>0, <1>1, <2>1, <2>2, KeptAppend
  <2> QED
    BY <2>1, <2>3, OwnSame
<1>5. ASSUME NEW k \in DOMAIN streams, Connect(k)
      PROVE  UNCHANGED <<OwnCommands, OwnReplies, OwnWrites>>
  <2> DEFINE c == [op |-> "get", id |-> streams[k].id, value |-> None]
  <2>1. commands' = Append(commands, c) /\ UNCHANGED <<replies, writes>>
    BY <1>5 DEF Connect
  <2>2. streams[k] \in Stream
    BY <1>0
  <2>3. c \in Sent /\ c \notin Sent \ ListenerGet
    BY <2>2 DEF Stream, Sent, ListenerGet
  <2> HIDE DEF c
  <2>4. OwnCommands' = OwnCommands
    BY <1>0, <1>1, <2>1, <2>3, KeptAppend
  <2> QED
    BY <2>1, <2>4, OwnSame
<1>6. UNCHANGED <<OwnCommands, OwnReplies, OwnWrites>>
  BY <1>3, <1>4, <1>5
<1> QED
  BY <1>2, <1>6 DEF Alone!vars, Alone!world, Alone!process, Alone!database

(* The process dies and is started, as it does alone.                       *)
LEMMA PerishAlone ==
  ASSUME BackTypes', Perish
  PROVE  Alone!Die
<1>1. /\ alive /\ deaths < MaxDeaths /\ deaths' = deaths + 1 /\ alive' = FALSE
      /\ inbox' = << >> /\ commands' = << >> /\ replies' = << >> /\ writes' = << >> /\ handled' = Nothing
      /\ UNCHANGED <<level, changes, store, info, data, obeyed>>
  BY DEF Perish, Die, world, database
<1>2. OwnCommands' = << >> /\ OwnReplies' = << >> /\ OwnWrites' = << >>
  BY <1>1, OwnKeptNext, KeptEmpty
<1>3. Alone!Nothing = Nothing
  BY DEF Alone!Nothing, Nothing
<1> QED
  BY <1>1, <1>2, <1>3 DEF Alone!Die, Alone!world, Alone!database

LEMMA StartAlone ==
  ASSUME BackTypes', Start, obeyed' = obeyed
  PROVE  Alone!Start
<1>1. /\ ~ alive /\ alive' = TRUE /\ commands' = <<Flush>>
      /\ UNCHANGED <<level, changes, inbox, replies, writes, handled, store, info, data, deaths>>
  BY DEF Start, world, database
<1>2. OwnCommands' = <<Flush>>
  BY <1>1, OwnKeptNext, OneFlush
<1>3. Alone!Flush = Flush
  BY DEF Alone!Flush, Flush
<1> QED
  BY <1>1, <1>2, <1>3, OwnSame DEF Alone!Start, Alone!world, Alone!database

(* A message comes when fewer are in work than the bound allows.            *)
LEMMA PublishAlone ==
  ASSUME BackTypes, NEW s \in Sensors, Publish(s), obeyed' = obeyed
  PROVE  Alone!Publish(s)
<1>1. /\ InWork < InFlight /\ Len(writes) <= MaxWrites
      /\ inbox' = IF alive THEN Append(inbox, [id |-> s, value |-> level[s]]) ELSE inbox
      /\ UNCHANGED <<level, changes, alive, commands, replies, writes, handled, store, info, data, deaths>>
  BY DEF Publish, world, database
<1>2. Len(writes) \in Nat /\ Len(OwnWrites) \in Nat
  <2>1. writes \in Seq(Query)
    BY DEF BackTypes
  <2> QED
    BY <2>1, OwnKept, KeptFewer
<1>3. Alone!InWork < InFlight /\ Len(OwnWrites) <= MaxWrites
  BY <1>1, <1>2, OwnFewer, BackendConstants
<1> QED
  BY <1>1, <1>3, OwnSame DEF Alone!Publish, Alone!world, Alone!database

(* The levels change by themselves and as the orders say.                   *)
LEMMA ChangeAlone ==
  ASSUME Counted, NEW s \in Sensors, Change(s), UNCHANGED <<obeyed, toggles>>
  PROVE  Alone!Change(s)
<1>1. /\ changes < MaxChanges /\ changes' = changes + 1
      /\ \E v \in Values \ {level[s]} : level' = [level EXCEPT ![s] = v]
      /\ UNCHANGED <<alive, inbox, commands, replies, writes, handled, store, info, data, deaths>>
  BY DEF Change, process, database
<1>2. /\ changes \in Nat /\ obeyed \in Nat /\ obeyed <= MaxClicks /\ MaxClicks \in Nat /\ MaxChanges \in Nat
  <2>1. Len(orders) \in Nat => obeyed <= clicks
    BY FS_CardinalityType DEF Counted
  <2> QED
    BY <2>1, ViewConstants, BackendConstants DEF Counted
<1>3. /\ changes + obeyed < MaxChanges + MaxClicks
      /\ changes' + obeyed' = (changes + obeyed) + 1
  BY <1>1, <1>2
<1>4. OwnCommands' = OwnCommands /\ OwnReplies' = OwnReplies /\ OwnWrites' = OwnWrites
  BY <1>1, OwnSame
<1> QED
  BY <1>1, <1>3, <1>4 DEF Alone!Change, Alone!process, Alone!database

LEMMA ObeyAlone ==
  ASSUME ViewTypes, Counted, Obey
  PROVE  [Alone!Next]_(Alone!vars)
<1> DEFINE o == Head(orders)
           T == [id : Sensors, level : Values]
<1>1. /\ orders # << >> /\ level' = [level EXCEPT ![o.id] = o.level]
      /\ obeyed' = IF level[o.id] # o.level THEN obeyed + 1 ELSE obeyed
      /\ UNCHANGED <<changes, alive, inbox, commands, replies, writes, handled, store, info, data, deaths>>
  BY DEF Obey, process, database
<1>2. orders \in Seq(T) /\ level \in [Sensors -> Values]
  BY DEF ViewTypes, BackTypes, FrontTypes
<1>3. o \in T
  <2> HIDE DEF T
  <2> QED
    BY <1>1, <1>2, HeadTail
<1>4. o.id \in Sensors /\ o.level \in Values
  BY <1>3
<1>5. Len(orders) \in Nat /\ Len(orders) # 0
  <2> HIDE DEF T
  <2> QED
    BY <1>1, <1>2, EmptySeq, LenProperties
<1>6. changes \in 0..MaxChanges /\ MaxChanges \in Nat /\ MaxClicks \in Nat /\ obeyed \in Nat
  BY ViewConstants, BackendConstants DEF Counted
<1>7. obeyed < MaxClicks
  <2>1. Cardinality(requests) \in Nat
    BY FS_CardinalityType DEF Counted
  <2> QED
    BY <2>1, <1>5, <1>6 DEF Counted
<1>8. OwnCommands' = OwnCommands /\ OwnReplies' = OwnReplies /\ OwnWrites' = OwnWrites
  BY <1>1, OwnSame
<1> HIDE DEF o, T
<1>9. CASE level[o.id] = o.level
  <2>1. level' = level /\ obeyed' = obeyed
    BY <1>1, <1>2, <1>4, <1>9
  <2> QED
    BY <2>1, <1>1, <1>8 DEF Alone!vars, Alone!world, Alone!process, Alone!database
<1>10. CASE level[o.id] # o.level
  <2>1. /\ changes + obeyed < MaxChanges + MaxClicks
        /\ changes' + obeyed' = (changes + obeyed) + 1
    BY <1>1, <1>6, <1>7, <1>10
  <2>2. o.level \in Values \ {level[o.id]}
    BY <1>4, <1>10
  <2>3. Alone!Change(o.id)
    BY <2>1, <2>2, <1>1, <1>8 DEF Alone!Change, Alone!process, Alone!database
  <2> QED
    BY <2>3, <1>4 DEF Alone!Next
<1> QED
  BY <1>9, <1>10

LEMMA StepAlone ==
  ASSUME ViewBase, Counted, [ViewNext]_viewVars
  PROVE  [Alone!Next]_(Alone!vars)
<1> USE DEF backend, live, toggles
<1>0. ViewTypes /\ Matched /\ BackTypes
  BY DEF ViewBase, ViewTypes
<1>1. BackTypes'
  BY <1>0, StepBackTypes
<1>2. ASSUME UNCHANGED backend, obeyed' = obeyed PROVE UNCHANGED Alone!vars
  BY <1>2, OwnSame DEF world, process, database, Alone!vars, Alone!world, Alone!process, Alone!database
<1>3. ASSUME Unseen PROVE [Alone!Next]_(Alone!vars)
  <2>1. UNCHANGED <<obeyed, toggles>>
    BY <1>3 DEF Unseen
  <2>2. ASSUME NEW s \in Sensors, Change(s) PROVE Alone!Next
    BY <2>1, <2>2, ChangeAlone DEF Alone!Next
  <2>3. ASSUME NEW s \in Sensors, Publish(s) PROVE Alone!Next
    BY <2>1, <2>3, <1>0, PublishAlone DEF Alone!Next
  <2>4. ASSUME OnMessage PROVE Alone!Next
    BY <2>1, <2>4, <1>0, <1>1, MessageAlone DEF Alone!Next
  <2>5. ASSUME Start PROVE Alone!Next
    BY <2>1, <2>5, <1>1, StartAlone DEF Alone!Next
  <2> QED
    BY <2>1, <2>2, <2>3, <2>4, <2>5, <1>0, <1>1, <1>3, ServeAlone DEF Unseen
<1>4. MessageReply => Alone!Next
  BY <1>0, <1>1, ReplyAlone DEF Alone!Next
<1>5. ListenerReply \/ Visit \/ (\E k \in DOMAIN streams : Connect(k)) => UNCHANGED Alone!vars
  BY <1>0, <1>1, ListenerAlone
<1>6. Perish => Alone!Next
  BY <1>1, PerishAlone DEF Alone!Next
<1>7. ASSUME Statement \/ GetAllSensors PROVE [Alone!Next]_(Alone!vars)
  BY <1>7, <1>0, <1>1, StatementAlone DEF Statement, GetAllSensors
<1>8. /\ UNCHANGED viewVars => UNCHANGED backend /\ obeyed' = obeyed
      /\ \A k \in DOMAIN streams : Drop(k) \/ Deliver(k) => UNCHANGED backend /\ obeyed' = obeyed
      /\ \A l \in listings : Show(l) => UNCHANGED backend /\ obeyed' = obeyed
      /\ \A i \in DOMAIN page : Click(i) => UNCHANGED backend /\ obeyed' = obeyed
      /\ \A r \in requests : Act(r) => UNCHANGED backend /\ obeyed' = obeyed
      /\ \A a \in answers : Answered(a) => UNCHANGED backend /\ obeyed' = obeyed
  BY DEF viewVars, Drop, Deliver, Show, Click, Act, Answered
<1> QED
  BY <1>0, <1>2, <1>3, <1>4, <1>5, <1>6, <1>7, <1>8, ObeyAlone DEF ViewNext

(* Whatever the browser asks, its connections lose and its user clicks, the *)
(* process, Redis and SQLite do what they do without it: each step is one   *)
(* of NodeBackend or none, with the orders among the changes of a level.    *)
THEOREM BackendServesAsAlone == ViewSpec => ServesAsAlone
<1>1. ViewSpec => []ViewBase
  BY InitViewBase, StepViewBase, PTL DEF ViewSpec
<1>2. ViewBase /\ Counted /\ [ViewNext]_viewVars => Counted'
  BY StepCounted DEF ViewBase
<1>3. ViewSpec => []Counted
  BY <1>1, <1>2, InitCounted, PTL DEF ViewSpec
<1>4. ViewBase /\ Counted /\ [ViewNext]_viewVars => [Alone!Next]_(Alone!vars)
  BY StepAlone
<1> QED
  BY <1>1, <1>3, <1>4, InitAlone, PTL DEF ViewSpec, ServesAsAlone, Alone!Spec

-----------------------------------------------------------------------------
(* So what was proved of the backend holds of it beside the browser.        *)
P == INSTANCE NodeBackendProofs WITH
  changes <- changes + obeyed, MaxChanges <- MaxChanges + MaxClicks,
  commands <- OwnCommands, replies <- OwnReplies, writes <- OwnWrites

LEMMA ViewBackend == ViewSpec => P!Spec
<1>1. Alone!Init => P!Init
  BY DEF Alone!Init, P!Init, Alone!Nothing, P!Nothing, Alone!Flush, P!Flush
<1>2. [Alone!Next]_(Alone!vars) => [P!Next]_(P!vars)
  <2>1. \A s \in Sensors : Alone!Change(s) => P!Change(s)
    BY Zenon DEF Alone!Change, P!Change, Alone!process, Alone!database, P!process, P!database
  <2>2. \A s \in Sensors : Alone!Publish(s) => P!Publish(s)
    BY Zenon DEF Alone!Publish, P!Publish, Alone!InWork, P!InWork, Alone!Gets, P!Gets,
         Alone!Cardinality, P!Cardinality, Alone!database, Alone!world, P!database, P!world
  <2>3. Alone!ServeCommand => P!ServeCommand
    BY Zenon DEF Alone!ServeCommand, P!ServeCommand, Alone!Nothing, P!Nothing,
         Alone!database, Alone!world, P!database, P!world
  <2>4. Alone!RunStatement => P!RunStatement
    BY Zenon DEF Alone!RunStatement, P!RunStatement, Alone!world, P!world
  <2>5. Alone!OnMessage => P!OnMessage
    BY Zenon DEF Alone!OnMessage, P!OnMessage, Alone!database, Alone!world, P!database, P!world
  <2>6. Alone!OnReply => P!OnReply
    BY Zenon DEF Alone!OnReply, P!OnReply, Alone!Statements, P!Statements, Alone!NewEvent, P!NewEvent,
         Alone!OldEvent, P!OldEvent, Alone!database, Alone!world, P!database, P!world
  <2>7. Alone!Die => P!Die
    BY Zenon DEF Alone!Die, P!Die, Alone!Nothing, P!Nothing, Alone!database, Alone!world,
         P!database, P!world
  <2>8. Alone!Start => P!Start
    BY Zenon DEF Alone!Start, P!Start, Alone!Flush, P!Flush, Alone!database, Alone!world,
         P!database, P!world
  <2>9. UNCHANGED Alone!vars => UNCHANGED P!vars
    BY Zenon DEF Alone!vars, P!vars, Alone!world, P!world, Alone!process, P!process,
         Alone!database, P!database
  <2> QED
    BY <2>1, <2>2, <2>3, <2>4, <2>5, <2>6, <2>7, <2>8, <2>9, Zenon DEF Alone!Next, P!Next
<1> QED
  BY <1>1, <1>2, BackendServesAsAlone, PTL DEF ServesAsAlone, Alone!Spec, P!Spec

LEMMA OwnConstants == P!BackendConstants
<1>1. MaxChanges + MaxClicks \in Nat
  BY BackendConstants, ViewConstants
<1> QED
  BY <1>1, BackendConstants DEF P!BackendConstants

(* A quiet backend has nothing of its own under way.                        *)
LEMMA OwnQuiet ==
  ASSUME BackTypes, Quiet
  PROVE  P!Quiet
<1>1. alive /\ InWork = 0 /\ commands = << >> /\ replies \in Seq(Got) /\ writes = << >>
  BY DEF Quiet, BackTypes, CacheTypes
<1>2. OwnCommands = << >> /\ OwnWrites = << >>
  BY <1>1, OwnKept, KeptEmpty
<1>3. Alone!InWork = 0
  BY <1>1, OwnFewer
<1>4. P!InWork = Alone!InWork
  BY Zenon DEF Alone!InWork, P!InWork, Alone!Gets, P!Gets, Alone!Cardinality, P!Cardinality
<1> QED
  BY <1>1, <1>2, <1>3, <1>4 DEF P!Quiet

(* The statements of Alone are among those that are scheduled.              *)
LEMMA OwnPending ==
  ASSUME BackTypes, NEW op, NEW s, P!Pending(op, s)
  PROVE  Pending(op, s)
<1>1. writes \in Seq(Query) /\ OwnWrites = Kept(writes, Write)
  BY OwnKept DEF BackTypes
<1>2. /\ OwnWrites \in Seq(Query) /\ Len(OwnWrites) = Cardinality(Where(writes, Write))
      /\ \A m \in 1..Cardinality(Where(writes, Write)) : \E i \in Where(writes, Write) : OwnWrites[m] = writes[i]
  BY <1>1, KeptElements
<1>3. \A m \in DOMAIN OwnWrites : \E i \in DOMAIN writes : OwnWrites[m] = writes[i]
  BY <1>2 DEF Where
<1> QED
  BY <1>3 DEF Pending, P!Pending

LEMMA OwnFlushing ==
  ASSUME BackTypes, P!Flushing
  PROVE  Flushing
<1> DEFINE B == Sent \ ListenerGet
           W == Where(commands, B)
<1>1. commands \in Seq(Sent) /\ OwnCommands = Kept(commands, B)
  BY OwnKept DEF BackTypes, CacheTypes
<1>2. W \subseteq DOMAIN commands
  BY DEF Where
<1> HIDE DEF B
<1>3. /\ OwnCommands \in Seq(Sent) /\ Len(OwnCommands) = Cardinality(W)
      /\ \A m \in 1..Cardinality(W) : \E i \in W : OwnCommands[m] = commands[i]
  BY <1>1, KeptElements
<1> HIDE DEF W
<1>4. \A m \in DOMAIN OwnCommands : \E i \in DOMAIN commands : OwnCommands[m] = commands[i]
  BY <1>2, <1>3
<1> QED
  BY <1>4 DEF Flushing, P!Flushing

(* A sensor the process finds in Redis has its rows, with a browser too.    *)
THEOREM ViewCachedHasRows == ViewSpec => []CachedHasRows
<1>1. ViewBase /\ P!CachedHasRows => CachedHasRows
  BY OwnPending, OwnFlushing DEF ViewBase, ViewTypes, P!CachedHasRows, CachedHasRows
<1>2. P!Spec => []P!CachedHasRows
  BY OwnConstants, P!AlwaysCachedHasRows
<1>3. ViewSpec => []ViewBase
  BY InitViewBase, StepViewBase, PTL DEF ViewSpec
<1> QED
  BY <1>1, <1>2, <1>3, ViewBackend, PTL

(* With messages one after the other the database has the last value, also  *)
(* while listeners ask Redis and lists are read.                            *)
THEOREM ViewDatabaseCurrent ==
  ASSUME InFlight = 1
  PROVE  ViewSpec => []DatabaseCurrent
<1>1. ViewBase /\ P!DatabaseCurrent => DatabaseCurrent
  BY OwnQuiet DEF ViewBase, ViewTypes, P!DatabaseCurrent, DatabaseCurrent
<1>2. P!Spec => []P!DatabaseCurrent
  BY OwnConstants, P!PacedDatabaseCurrent
<1>3. ViewSpec => []ViewBase
  BY InitViewBase, StepViewBase, PTL DEF ViewSpec
<1> QED
  BY <1>1, <1>2, <1>3, ViewBackend, PTL

================================================================================
