------------------------------ MODULE SeqLemmas ------------------------------
(* Facts about sequences without repetitions, and about SeqOps.            *)
EXTENDS SeqOps, FiniteSetTheorems, WellFoundedInduction, TLAPS

(* The range of a sequence is the set of its entries. *)
LEMMA SeqRange ==
    ASSUME NEW S, NEW s \in Seq(S)
    PROVE  Range(s) = {s[i] : i \in 1 .. Len(s)}
  BY DEF Range

(* Every non-empty set of naturals has a least member: the form in which   *)
(* induction on the naturals is used below.                                *)
LEMMA LeastNat ==
    ASSUME NEW T \in SUBSET Nat, T # {}
    PROVE  \E x \in T : \A y \in T : x <= y
<1> DEFINE Lt == {ss \in Nat \X Nat : ss[1] < ss[2]}
<1>1. IsWellFoundedOn(Lt, Nat)
  BY NatLessThanWellFounded, Zenon DEF OpToRel
<1>2. PICK x \in T : \A y \in T : ~ (<<y, x>> \in Lt)
  BY Zenon, <1>1, WFMin
<1>3. \A y \in T : ~ (y < x)
  BY Zenon, <1>2
<1> QED
  BY <1>3

(* A sequence whose elements are in T is a sequence of members of T. *)
LEMMA SeqInRange ==
    ASSUME NEW S, NEW s \in Seq(S), NEW T, Range(s) \subseteq T
    PROVE  s \in Seq(T)
<1>1. Len(s) \in Nat /\ s \in [1 .. Len(s) -> S]
  OBVIOUS
<1>2. \A i \in 1 .. Len(s) : s[i] \in T
  BY <1>1 DEF Range
<1>3. s \in [1 .. Len(s) -> T]
  BY <1>1, <1>2
<1> QED
  BY <1>1, <1>3

(* The empty sequence has no elements, and one element no repetition. *)
LEMMA ShortRange ==
    /\ Range(<<>>) = {} /\ IsInjective(<<>>)
    /\ \A x : Range(<<x>>) = {x} /\ IsInjective(<<x>>)
<1>1. Range(<<>>) = {} /\ IsInjective(<<>>)
  BY DEF Range, IsInjective
<1>2. ASSUME NEW x PROVE Range(<<x>>) = {x} /\ IsInjective(<<x>>)
  BY DEF Range, IsInjective
<1> QED
  BY <1>1, <1>2

(* What Append adds to a sequence without repetitions. *)
LEMMA AppendRange ==
    ASSUME NEW S, NEW s \in Seq(S), NEW x \in S
    PROVE  /\ Append(s, x) \in Seq(S)
           /\ Range(Append(s, x)) = Range(s) \cup {x}
           /\ IsInjective(s) /\ x \notin Range(s) => IsInjective(Append(s, x))
<1> DEFINE t == Append(s, x)
<1>1. /\ t \in Seq(S) /\ Len(t) = Len(s) + 1 /\ Len(s) \in Nat
      /\ \A i \in 1 .. Len(s) : t[i] = s[i]
      /\ t[Len(s) + 1] = x
  OBVIOUS
<1>2. /\ Range(s) = {s[i] : i \in 1 .. Len(s)}
      /\ Range(t) = {t[i] : i \in 1 .. Len(s) + 1}
  BY Zenon, <1>1, SeqRange
<1>3. DOMAIN s = 1 .. Len(s) /\ DOMAIN t = 1 .. Len(s) + 1
  BY <1>1
<1> HIDE DEF t
<1>4. Range(t) = Range(s) \cup {x}
  <2>1. ASSUME NEW y \in Range(t) PROVE y \in Range(s) \cup {x}
    BY <1>1, <1>2
  <2>2. ASSUME NEW y \in Range(s) PROVE y \in Range(t)
    BY <1>1, <1>2
  <2>3. x \in Range(t)
    BY <1>1, <1>2
  <2> QED
    BY <2>1, <2>2, <2>3
<1>5. ASSUME IsInjective(s), x \notin Range(s),
             NEW i \in 1 .. Len(s) + 1, NEW j \in 1 .. Len(s) + 1, t[i] = t[j]
      PROVE  i = j
  BY <1>1, <1>2, <1>3, <1>5 DEF IsInjective
<1> QED
  BY <1>1, <1>3, <1>4, <1>5 DEF IsInjective, t

(* Append keeps the head. *)
LEMMA AppendHead ==
    ASSUME NEW S, NEW s \in Seq(S), NEW x \in S, s # <<>>
    PROVE  Append(s, x) # <<>> /\ Head(Append(s, x)) = Head(s)
<1>1. Len(s) \in Nat \ {0}
  OBVIOUS
<1>2. /\ Append(s, x) \in Seq(S) /\ Len(Append(s, x)) = Len(s) + 1
      /\ Append(s, x)[1] = s[1]
  BY <1>1
<1>3. Append(s, x) # <<>>
  BY <1>1, <1>2
<1> QED
  BY <1>2, <1>3

(* Removing the head of a sequence without repetitions removes just that   *)
(* element.                                                                *)
LEMMA TailRange ==
    ASSUME NEW S, NEW s \in Seq(S), s # <<>>, IsInjective(s)
    PROVE  /\ Tail(s) \in Seq(S) /\ Head(s) \in Range(s)
           /\ Range(Tail(s)) = Range(s) \ {Head(s)}
           /\ IsInjective(Tail(s))
<1> DEFINE t == Tail(s)
<1>1. /\ t \in Seq(S) /\ Len(t) = Len(s) - 1 /\ Len(s) \in Nat \ {0}
      /\ \A i \in 1 .. Len(s) - 1 : t[i] = s[i + 1]
      /\ Head(s) = s[1]
  OBVIOUS
<1>2. /\ Range(s) = {s[i] : i \in 1 .. Len(s)}
      /\ Range(t) = {t[i] : i \in 1 .. Len(s) - 1}
  <2>1. Range(s) = {s[i] : i \in 1 .. Len(s)}
    BY SeqRange
  <2>2. Range(t) = {t[i] : i \in 1 .. Len(t)}
    BY Zenon, <1>1, SeqRange
  <2> QED
    BY <1>1, <2>1, <2>2
<1>3. DOMAIN s = 1 .. Len(s) /\ DOMAIN t = 1 .. Len(s) - 1
  BY <1>1
<1>4. \A i, j \in 1 .. Len(s) : s[i] = s[j] => i = j
  BY <1>3 DEF IsInjective
<1> HIDE DEF t
<1>5. Range(t) = Range(s) \ {Head(s)}
  <2>1. ASSUME NEW y \in Range(t) PROVE y \in Range(s) \ {Head(s)}
    <3>1. PICK i \in 1 .. Len(s) - 1 : y = s[i + 1]
      BY Zenon, <1>1, <1>2
    <3> QED
      BY <3>1, <1>1, <1>2, <1>4
  <2>2. ASSUME NEW y \in Range(s), y # Head(s) PROVE y \in Range(t)
    <3>1. PICK i \in 1 .. Len(s) : y = s[i]
      BY <1>2
    <3>2. i - 1 \in 1 .. Len(s) - 1 /\ t[i - 1] = y
      BY <3>1, <2>2, <1>1
    <3> QED
      BY <3>2, <1>2
  <2> QED
    BY <2>1, <2>2
<1>6. IsInjective(t)
  BY <1>1, <1>3, <1>4 DEF IsInjective
<1> QED
  BY <1>1, <1>2, <1>5, <1>6 DEF t

(* Two sequences without repetitions and without a common element. *)
LEMMA ConcatRange ==
    ASSUME NEW S, NEW s \in Seq(S), NEW t \in Seq(S)
    PROVE  /\ s \o t \in Seq(S)
           /\ Range(s \o t) = Range(s) \cup Range(t)
           /\ /\ IsInjective(s) /\ IsInjective(t)
              /\ Range(s) \cap Range(t) = {}
              => IsInjective(s \o t)
<1> DEFINE u == s \o t
<1>1. /\ u \in Seq(S) /\ Len(u) = Len(s) + Len(t)
      /\ \A i \in 1 .. Len(s) + Len(t) :
            u[i] = IF i <= Len(s) THEN s[i] ELSE t[i - Len(s)]
      /\ Len(s) \in Nat /\ Len(t) \in Nat
  OBVIOUS
<1>2. /\ DOMAIN s = 1 .. Len(s) /\ DOMAIN t = 1 .. Len(t)
      /\ DOMAIN u = 1 .. Len(s) + Len(t)
  BY <1>1
<1>3. Range(u) = Range(s) \cup Range(t)
  <2>1. \A i \in 1 .. Len(u) : u[i] \in Range(s) \cup Range(t)
    BY <1>1, <1>2 DEF Range
  <2>2. \A i \in 1 .. Len(s) : i \in DOMAIN u /\ u[i] = s[i]
    BY <1>1, <1>2
  <2>3. \A i \in 1 .. Len(t) : i + Len(s) \in DOMAIN u /\ u[i + Len(s)] = t[i]
    BY <1>1, <1>2
  <2>4. Range(s) \subseteq Range(u)
    BY <1>2, <2>2 DEF Range
  <2>5. Range(t) \subseteq Range(u)
    BY <1>2, <2>3 DEF Range
  <2>6. Range(u) \subseteq Range(s) \cup Range(t)
    BY <1>1, <1>2, <2>1 DEF Range
  <2> QED
    BY <2>4, <2>5, <2>6
<1> HIDE DEF u
<1>4. ASSUME IsInjective(s), IsInjective(t), Range(s) \cap Range(t) = {},
             NEW i \in DOMAIN u, NEW j \in DOMAIN u, u[i] = u[j]
      PROVE  i = j
  <2>1. \A k \in 1 .. Len(s) : s[k] \in Range(s)
    BY <1>2 DEF Range
  <2>2. \A k \in 1 .. Len(t) : t[k] \in Range(t)
    BY <1>2 DEF Range
  <2>3. CASE i <= Len(s) /\ j <= Len(s)
    BY <2>3, <1>1, <1>2, <1>4 DEF IsInjective
  <2>4. CASE i > Len(s) /\ j > Len(s)
    <3>1. i - Len(s) \in 1 .. Len(t) /\ j - Len(s) \in 1 .. Len(t)
      BY <2>4, <1>1, <1>2
    <3>2. t[i - Len(s)] = t[j - Len(s)]
      BY <2>4, <1>1, <1>2, <1>4
    <3>3. i - Len(s) = j - Len(s)
      BY <3>1, <3>2, <1>2, <1>4 DEF IsInjective
    <3> QED
      BY <3>3, <1>1, <1>2
  <2>5. CASE i <= Len(s) /\ j > Len(s)
    <3>1. i \in 1 .. Len(s) /\ j \in 1 .. Len(u) /\ j - Len(s) \in 1 .. Len(t)
      BY <2>5, <1>1, <1>2
    <3>2. u[i] = s[i] /\ u[j] = t[j - Len(s)]
      BY <3>1, <2>5, <1>1
    <3> QED
      BY Zenon, <3>1, <3>2, <2>1, <2>2, <1>4
  <2>6. CASE i > Len(s) /\ j <= Len(s)
    <3>1. j \in 1 .. Len(s) /\ i \in 1 .. Len(u) /\ i - Len(s) \in 1 .. Len(t)
      BY <2>6, <1>1, <1>2
    <3>2. u[j] = s[j] /\ u[i] = t[i - Len(s)]
      BY <3>1, <2>6, <1>1
    <3> QED
      BY Zenon, <3>1, <3>2, <2>1, <2>2, <1>4
  <2> QED
    BY <2>3, <2>4, <2>5, <2>6, <1>1, <1>2
<1> QED
  BY <1>1, <1>3, <1>4 DEF IsInjective, u

(* Nth(I, n) is a member of I, and distinct ranks have distinct members:   *)
(* the rank is an injection of I into 1 .. Cardinality(I), hence onto it.  *)
LEMMA NthProperties ==
    ASSUME NEW I \in SUBSET Nat, IsFiniteSet(I)
    PROVE  /\ Cardinality(I) \in Nat
           /\ \A n \in 1 .. Cardinality(I) :
                 /\ Nth(I, n) \in I
                 /\ Cardinality({j \in I : j <= Nth(I, n)}) = n
           /\ \A k \in I : \E n \in 1 .. Cardinality(I) : Nth(I, n) = k
<1> DEFINE N == Cardinality(I)
           Below(k) == {j \in I : j <= k}
           rank == [k \in I |-> Cardinality(Below(k))]
<1>1. N \in Nat
  BY FS_CardinalityType
<1>2. ASSUME NEW k \in I PROVE rank[k] \in 1 .. N
  <2>1. IsFiniteSet(Below(k)) /\ Cardinality(Below(k)) <= N
    BY FS_Subset
  <2>2. Cardinality(Below(k)) \in Nat
    BY <2>1, FS_CardinalityType
  <2>3. Below(k) # {}
    OBVIOUS
  <2>4. Cardinality(Below(k)) # 0
    BY <2>1, <2>3, FS_EmptySet
  <2> QED
    BY <1>1, <2>1, <2>2, <2>4
<1>3. ASSUME NEW j \in I, NEW k \in I, j < k PROVE rank[j] < rank[k]
  <2>1. IsFiniteSet(Below(j)) /\ IsFiniteSet(Below(k))
    BY FS_Subset
  <2>2. Below(j) \in SUBSET Below(k) /\ Below(j) # Below(k)
    <3>1. \A i \in I : i <= j => i <= k
      BY <1>3
    <3>2. k \in Below(k) /\ k \notin Below(j)
      BY <1>3
    <3> QED
      BY Zenon, <3>1, <3>2
  <2>3. /\ Cardinality(Below(j)) <= Cardinality(Below(k))
        /\ Cardinality(Below(j)) # Cardinality(Below(k))
    BY <2>1, <2>2, FS_Subset
  <2>4. Cardinality(Below(j)) \in Nat /\ Cardinality(Below(k)) \in Nat
    BY <2>1, FS_CardinalityType
  <2> QED
    BY <2>3, <2>4
<1>4. rank \in [I -> 1 .. N]
  BY <1>2
<1> HIDE DEF rank
<1>5. rank \in Injection(I, 1 .. N)
  <2>1. ASSUME NEW j \in I, NEW k \in I, rank[j] = rank[k] PROVE j = k
    <3>1. j \in Nat /\ k \in Nat /\ rank[j] \in Nat /\ rank[k] \in Nat
      BY <1>4, <1>1
    <3> QED
      BY <2>1, <3>1, <1>3
  <2> QED
    BY <2>1, <1>4 DEF Injection, IsInjective
<1>6. IsFiniteSet(1 .. N) /\ Cardinality(1 .. N) = N
  BY <1>1, FS_Interval
<1>7. rank \in Surjection(I, 1 .. N)
  BY <1>5, <1>6, FS_Injection
<1>8. ASSUME NEW n \in 1 .. N
      PROVE  Nth(I, n) \in I /\ Cardinality(Below(Nth(I, n))) = n
  <2>1. \E k \in I : rank[k] = n
    BY <1>7 DEF Surjection
  <2>2. \E k \in I : Cardinality({j \in I : j <= k}) = n
    BY <2>1 DEF rank
  <2> QED
    BY Zenon, <2>2 DEF Nth
<1>9. ASSUME NEW k \in I PROVE \E n \in 1 .. N : Nth(I, n) = k
  <2>1. rank[k] \in 1 .. N
    BY <1>4
  <2>2. Nth(I, rank[k]) \in I /\ rank[Nth(I, rank[k])] = rank[k]
    BY <2>1, <1>8 DEF rank
  <2>3. Nth(I, rank[k]) = k
    BY Zenon, <2>2, <1>5 DEF Injection, IsInjective
  <2> QED
    BY <2>1, <2>3
<1> QED
  BY <1>1, <1>8, <1>9

(* Keep(s, P) is a sequence of exactly the elements of s in P, it has no   *)
(* repetitions if s has none, and it starts like s if s's head is kept.    *)
LEMMA KeepProperties ==
    ASSUME NEW S, NEW s \in Seq(S), NEW P
    PROVE  /\ Keep(s, P) \in Seq(S)
           /\ Range(Keep(s, P)) = Range(s) \cap P
           /\ IsInjective(s) => IsInjective(Keep(s, P))
           /\ s # <<>> /\ Head(s) \in P =>
                 Keep(s, P) # <<>> /\ Head(Keep(s, P)) = Head(s)
<1> DEFINE I == {k \in DOMAIN s : s[k] \in P}
           N == Cardinality(I)
           u == Keep(s, P)
<1>1. Len(s) \in Nat /\ DOMAIN s = 1 .. Len(s) /\ s \in [1 .. Len(s) -> S]
  OBVIOUS
<1>2. I \in SUBSET Nat /\ IsFiniteSet(I)
  <2>1. I \in SUBSET (1 .. Len(s)) /\ IsFiniteSet(1 .. Len(s))
    BY <1>1, FS_Interval
  <2>2. IsFiniteSet(I)
    BY <2>1, FS_Subset
  <2> QED
    BY <2>1, <2>2, <1>1
<1>3. N \in Nat /\ u = [n \in 1 .. N |-> s[Nth(I, n)]]
  BY <1>2, NthProperties DEF Keep
<1>4. \A n \in 1 .. N : Nth(I, n) \in I /\ Cardinality({j \in I : j <= Nth(I, n)}) = n
  BY Zenon, <1>2, NthProperties
<1>5. \A k \in I : \E n \in 1 .. N : Nth(I, n) = k
  BY Zenon, <1>2, NthProperties
<1>6. \A n \in 1 .. N : u[n] = s[Nth(I, n)] /\ u[n] \in S
  BY Zenon, <1>1, <1>3, <1>4
<1>7. u \in Seq(S) /\ Len(u) = N /\ DOMAIN u = 1 .. N
  <2>1. u \in [1 .. N -> S]
    BY <1>3, <1>6
  <2> QED
    BY <2>1, <1>3
<1>8. \A k \in I : k \in 1 .. Len(s) /\ s[k] \in P
  BY <1>1
<1>9. ASSUME NEW k \in 1 .. Len(s), s[k] \in P PROVE k \in I
  BY <1>1, <1>9
<1> HIDE DEF I, N, u
<1>10. Range(u) = Range(s) \cap P
  <2>1. ASSUME NEW y \in Range(u) PROVE y \in Range(s) \cap P
    BY Zenon, <1>1, <1>4, <1>6, <1>7, <1>8 DEF Range
  <2>2. ASSUME NEW y \in Range(s) \cap P PROVE y \in Range(u)
    <3>1. PICK k \in 1 .. Len(s) : s[k] = y
      BY <1>1 DEF Range
    <3>2. k \in I
      BY <3>1, <1>9
    <3>3. PICK n \in 1 .. N : Nth(I, n) = k
      BY <3>2, <1>5
    <3> QED
      BY <3>1, <3>3, <1>6, <1>7 DEF Range
  <2> QED
    BY <2>1, <2>2
<1>11. ASSUME IsInjective(s) PROVE IsInjective(u)
  <2> SUFFICES ASSUME NEW m \in 1 .. N, NEW n \in 1 .. N, u[m] = u[n]
               PROVE  m = n
    BY <1>7 DEF IsInjective
  <2>1. Nth(I, m) = Nth(I, n)
    BY Zenon, <1>1, <1>4, <1>6, <1>8, <1>11 DEF IsInjective
  <2> QED
    BY Zenon, <2>1, <1>4
<1>12. ASSUME s # <<>>, Head(s) \in P PROVE u # <<>> /\ Head(u) = Head(s)
  <2>1. Len(s) \in Nat \ {0} /\ Head(s) = s[1]
    BY <1>12
  <2>2. 1 \in I
    BY <2>1, <1>9, <1>12
  <2>3. PICK n \in 1 .. N : Nth(I, n) = 1
    BY <2>2, <1>5
  <2>4. {j \in I : j <= 1} = {1}
    BY <2>2, <1>8, <1>1
  <2>5. n = 1
    <3>1. Cardinality({j \in I : j <= 1}) = n
      BY <2>3, <1>4
    <3>2. Cardinality({1}) = 1
      BY Zenon, FS_Singleton
    <3> QED
      BY Zenon, <3>1, <3>2, <2>4
  <2>6. Len(u) # 0 /\ u[1] = s[1]
    BY <2>3, <2>5, <1>6, <1>7, <1>3
  <2> QED
    BY <2>1, <2>6, <1>7
<1> QED
  BY <1>7, <1>10, <1>11, <1>12 DEF u

(* Induction up to n, for the members of a set. *)
LEMMA InductionUpTo ==
    ASSUME NEW n \in Nat, NEW G, 0 \in G,
           \A m \in 1 .. n : m - 1 \in G => m \in G
    PROVE  \A m \in 0 .. n : m \in G
<1> DEFINE Bad == (0 .. n) \ G
<1>1. ASSUME Bad # {} PROVE FALSE
  <2>1. Bad \in SUBSET Nat
    OBVIOUS
  <2>2. PICK m \in Bad : \A k \in Bad : m <= k
    BY Zenon, <1>1, <2>1, LeastNat
  <2>3. m \in 1 .. n /\ m - 1 \in 0 .. n
    BY <2>2
  <2>4. m - 1 \notin Bad
    BY <2>2, <2>3
  <2> QED
    BY <2>2, <2>3, <2>4
<1> QED
  BY <1>1

(* The recursion that defines Join has a solution. *)
LEMMA JoinExists ==
    ASSUME NEW S, NEW n \in Nat, NEW q \in [0 .. n -> Seq(S)]
    PROVE  \E f : f = [i \in 0 .. n |-> IF i = 0 THEN q[0] ELSE f[i - 1] \o q[i]]
<1> DEFINE Upto(f, m) ==
               /\ f \in [0 .. m -> Seq(S)]
               /\ \A i \in 0 .. m : f[i] = IF i = 0 THEN q[0] ELSE f[i - 1] \o q[i]
           G == {m \in 0 .. n : \E f : Upto(f, m)}
<1>1. 0 \in G
  <2>1. Upto([i \in 0 .. 0 |-> q[0]], 0)
    OBVIOUS
  <2> HIDE DEF Upto
  <2>2. 0 \in 0 .. n
    OBVIOUS
  <2> QED
    BY <2>1, <2>2
<1>2. ASSUME NEW m \in 1 .. n, m - 1 \in G PROVE m \in G
  <2>0. \E f : Upto(f, m - 1)
    BY Zenon, <1>2
  <2>1. PICK f : Upto(f, m - 1)
    BY Zenon, <2>0
  <2> DEFINE g == [i \in 0 .. m |-> IF i = m THEN f[m - 1] \o q[m] ELSE f[i]]
  <2>2. \A i \in 0 .. m : i # m => i \in 0 .. m - 1
    OBVIOUS
  <2>3. f[m - 1] \o q[m] \in Seq(S)
    BY <2>1
  <2>4. g \in [0 .. m -> Seq(S)]
    BY <2>1, <2>2, <2>3
  <2>5. ASSUME NEW i \in 0 .. m
        PROVE  g[i] = IF i = 0 THEN q[0] ELSE g[i - 1] \o q[i]
    <3> HIDE DEF Upto, G
    <3>1. CASE i = m
      <4>1. m # 0 /\ m \in 0 .. m /\ m - 1 \in 0 .. m /\ m - 1 # m
        OBVIOUS
      <4>2. g[m] = f[m - 1] \o q[m] /\ g[m - 1] = f[m - 1]
        BY <4>1, Zenon
      <4> QED
        BY <3>1, <4>1, <4>2
    <3>2. CASE i # m
      <4>1. i \in 0 .. m - 1
        BY <3>2, <2>2
      <4>2. f[i] = IF i = 0 THEN q[0] ELSE f[i - 1] \o q[i]
        BY Zenon, <4>1, <2>1 DEF Upto
      <4>3. g[i] = f[i]
        BY <3>2
      <4>4. i # 0 => i - 1 \in 0 .. m /\ i - 1 # m
        BY <4>1
      <4>5. i # 0 => g[i - 1] = f[i - 1]
        BY <4>4
      <4> QED
        BY <4>2, <4>3, <4>5
    <3> QED
      BY <3>1, <3>2
  <2>6. Upto(g, m)
    BY Zenon, <2>4, <2>5
  <2> HIDE DEF Upto
  <2>7. m \in 0 .. n
    OBVIOUS
  <2> QED
    BY <2>6, <2>7
<1> HIDE DEF G, Upto
<1>3. n \in G
  <2>1. \A m \in 1 .. n : m - 1 \in G => m \in G
    BY <1>2
  <2>2. \A m \in 0 .. n : m \in G
    BY Zenon, <1>1, <2>1, InductionUpTo
  <2> QED
    BY <2>2
<1>4. PICK f : Upto(f, n)
  BY <1>3 DEF G
<1>5. f = [i \in 0 .. n |-> IF i = 0 THEN q[0] ELSE f[i - 1] \o q[i]]
  BY Zenon, <1>4 DEF Upto
<1> QED
  BY Zenon, <1>5

(* Join(q, n) holds the elements of q[0], ..., q[n], without repetitions   *)
(* if none of the q[i] has any and no two of them share an element.        *)
LEMMA JoinProperties ==
    ASSUME NEW S, NEW n \in Nat, NEW q \in [0 .. n -> Seq(S)]
    PROVE  /\ Join(q, n) \in Seq(S)
           /\ Range(Join(q, n)) = UNION {Range(q[i]) : i \in 0 .. n}
           /\ /\ \A i \in 0 .. n : IsInjective(q[i])
              /\ \A i, j \in 0 .. n : i # j => Range(q[i]) \cap Range(q[j]) = {}
              => IsInjective(Join(q, n))
<1> DEFINE u == CHOOSE f : f = [i \in 0 .. n |-> IF i = 0 THEN q[0] ELSE f[i - 1] \o q[i]]
           Simple == /\ \A i \in 0 .. n : IsInjective(q[i])
                     /\ \A i, j \in 0 .. n : i # j => Range(q[i]) \cap Range(q[j]) = {}
           Good(m) == /\ u[m] \in Seq(S)
                      /\ Range(u[m]) = UNION {Range(q[i]) : i \in 0 .. m}
                      /\ Simple => IsInjective(u[m])
           G == {m \in 0 .. n : Good(m)}
<1>1. Join(q, n) = u[n]
  BY DEF Join
<1>2. u = [i \in 0 .. n |-> IF i = 0 THEN q[0] ELSE u[i - 1] \o q[i]]
  BY Zenon, JoinExists
<1> HIDE DEF u, Simple, Good, G
<1>3. u[0] = q[0]
  BY <1>2
<1>4. ASSUME NEW m \in 1 .. n PROVE u[m] = u[m - 1] \o q[m]
  <2>1. m \in 0 .. n /\ m # 0
    OBVIOUS
  <2>2. u[m] = IF m = 0 THEN q[0] ELSE u[m - 1] \o q[m]
    BY <1>2, <2>1, Zenon
  <2> QED
    BY <2>1, <2>2
<1>5. 0 \in G
  <2>1. 0 \in 0 .. n /\ q[0] \in Seq(S)
    OBVIOUS
  <2>2. UNION {Range(q[i]) : i \in 0 .. 0} = Range(q[0])
    OBVIOUS
  <2> QED
    BY <2>1, <2>2, <1>3 DEF G, Good, Simple
<1>6. ASSUME NEW m \in 1 .. n, m - 1 \in G PROVE m \in G
  <2>1. /\ m - 1 \in 0 .. n /\ m \in 0 .. n
        /\ u[m - 1] \in Seq(S)
        /\ Range(u[m - 1]) = UNION {Range(q[i]) : i \in 0 .. m - 1}
        /\ Simple => IsInjective(u[m - 1])
    BY <1>6 DEF G, Good
  <2>2. u[m] = u[m - 1] \o q[m] /\ q[m] \in Seq(S)
    BY Zenon, <2>1, <1>4
  <2>3. /\ u[m] \in Seq(S)
        /\ Range(u[m]) = Range(u[m - 1]) \cup Range(q[m])
        /\ /\ IsInjective(u[m - 1]) /\ IsInjective(q[m])
           /\ Range(u[m - 1]) \cap Range(q[m]) = {}
           => IsInjective(u[m])
    <3> DEFINE a == u[m - 1]
               b == q[m]
    <3>1. a \in Seq(S) /\ b \in Seq(S)
      BY <2>1, <2>2
    <3> HIDE DEF a, b
    <3>2. /\ a \o b \in Seq(S)
          /\ Range(a \o b) = Range(a) \cup Range(b)
          /\ /\ IsInjective(a) /\ IsInjective(b)
             /\ Range(a) \cap Range(b) = {}
             => IsInjective(a \o b)
      BY <3>1, ConcatRange
    <3> QED
      BY <3>2, <2>2 DEF a, b
  <2>4. 0 .. m = (0 .. m - 1) \cup {m}
    OBVIOUS
  <2>5. Range(u[m]) = UNION {Range(q[i]) : i \in 0 .. m}
    BY <2>1, <2>3, <2>4
  <2>6. ASSUME Simple PROVE IsInjective(u[m])
    <3>1. \A i \in 0 .. m - 1 : Range(q[i]) \cap Range(q[m]) = {}
      BY <2>1, <2>6 DEF Simple
    <3>2. Range(u[m - 1]) \cap Range(q[m]) = {}
      BY <3>1, <2>1
    <3>3. IsInjective(q[m])
      BY <2>1, <2>6 DEF Simple
    <3> QED
      BY <3>2, <3>3, <2>1, <2>3, <2>6
  <2> QED
    BY <2>1, <2>3, <2>5, <2>6 DEF G, Good
<1>7. n \in G
  <2>1. \A m \in 1 .. n : m - 1 \in G => m \in G
    BY <1>6
  <2>2. \A m \in 0 .. n : m \in G
    BY Zenon, <1>5, <2>1, InductionUpTo
  <2> QED
    BY <2>2
<1> QED
  BY <1>1, <1>7 DEF G, Good, Simple
=============================================================================
