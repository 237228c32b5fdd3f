---------------------------- MODULE Lists_proofs ----------------------------
(***************************************************************************)
(* What sorting and filtering by rank give, for every finite set of        *)
(* numbers and every list.                                                 *)
(***************************************************************************)
EXTENDS Lists, FiniteSetTheorems, TLAPS

\* How many of a set are not above a number: a count that grows with it.
LEMMA RankGrows ==
    ASSUME NEW S \in SUBSET Int, IsFiniteSet(S), NEW n \in S, NEW m \in S, n < m
    PROVE  /\ Cardinality({i \in S : i <= n}) \in 1..Cardinality(S)
           /\ Cardinality({i \in S : i <= n}) < Cardinality({i \in S : i <= m})
<1> DEFINE Low(x) == {i \in S : i <= x}
<1>1. Low(n) \subseteq S /\ Low(m) \subseteq S /\ Low(n) \subseteq Low(m)
  <2>1. ASSUME NEW i \in S, i <= n PROVE i <= m
    <3>1. i \in Int /\ n \in Int /\ m \in Int
      OBVIOUS
    <3> QED BY <2>1, <3>1
  <2> QED BY <2>1
<1>2. m \in Low(m) /\ m \notin Low(n) /\ n \in Low(n)
  OBVIOUS
<1>3. IsFiniteSet(Low(n)) /\ IsFiniteSet(Low(m))
  BY <1>1, FS_Subset
<1>4. Cardinality(Low(n)) <= Cardinality(S) /\ Cardinality(Low(n)) <= Cardinality(Low(m))
  BY <1>1, <1>3, FS_Subset
<1>5. Cardinality(Low(n)) # Cardinality(Low(m))
  BY <1>1, <1>2, <1>3, FS_Subset
<1>6. Cardinality(Low(n)) # 0
  BY <1>2, <1>3, FS_EmptySet
<1>7. Cardinality(Low(n)) \in Nat /\ Cardinality(Low(m)) \in Nat /\ Cardinality(S) \in Nat
  BY <1>3, FS_CardinalityType
<1> HIDE DEF Low
<1>8. Cardinality(Low(n)) \in 1..Cardinality(S) /\ Cardinality(Low(n)) < Cardinality(Low(m))
  BY <1>4, <1>5, <1>6, <1>7
<1> QED BY <1>8 DEF Low

\* The rank of a member is one of the places there are.
LEMMA RankIn ==
    ASSUME NEW S \in SUBSET Int, IsFiniteSet(S), NEW n \in S
    PROVE  Cardinality({i \in S : i <= n}) \in 1..Cardinality(S)
<1> DEFINE Low == {i \in S : i <= n}
<1>1. Low \subseteq S /\ n \in Low
  OBVIOUS
<1>2. IsFiniteSet(Low) /\ Cardinality(Low) <= Cardinality(S)
  BY <1>1, FS_Subset
<1>3. Cardinality(Low) # 0
  BY <1>1, <1>2, FS_EmptySet
<1>4. Cardinality(Low) \in Nat /\ Cardinality(S) \in Nat
  BY <1>2, FS_CardinalityType
<1> HIDE DEF Low
<1>5. Cardinality(Low) \in 1..Cardinality(S)
  BY <1>2, <1>3, <1>4
<1> QED BY <1>5 DEF Low

\* Every rank is taken, by one number.
LEMMA NthIs ==
    ASSUME NEW S \in SUBSET Int, IsFiniteSet(S), NEW k \in 1..Cardinality(S)
    PROVE  /\ Nth(S, k) \in S
           /\ Cardinality({m \in S : m <= Nth(S, k)}) = k
<1> DEFINE rank == [n \in S |-> Cardinality({i \in S : i <= n})]
           T == 1..Cardinality(S)
<1>1. Cardinality(S) \in Nat
  BY FS_CardinalityType
<1>2. IsFiniteSet(T) /\ Cardinality(T) = Cardinality(S)
  BY <1>1, FS_Interval
<1>3. \A n \in S : rank[n] \in T
  BY RankIn
<1>4. \A n, m \in S : n < m => rank[n] < rank[m]
  BY RankGrows
<1>5. \A n, m \in S : rank[n] = rank[m] => n = m
  <2>1. SUFFICES ASSUME NEW n \in S, NEW m \in S, rank[n] = rank[m], n # m PROVE FALSE
    OBVIOUS
  <2>2. rank[n] \in Int /\ n \in Int /\ m \in Int
    BY <1>3, <1>1
  <2>3. n < m \/ m < n
    BY <2>1, <2>2
  <2> HIDE DEF rank
  <2> QED BY <1>4, <2>1, <2>2, <2>3
<1>6. rank \in Injection(S, T)
  BY <1>3, <1>5 DEF Injection, IsInjective
<1>7. rank \in Surjection(S, T)
  BY <1>2, <1>6, FS_Injection
<1>8. \E n \in S : rank[n] = k
  <2> HIDE DEF rank
  <2> QED BY <1>7 DEF Surjection
<1>9. \E n \in S : Cardinality({m \in S : m <= n}) = k
  BY <1>8
<1> QED BY <1>9 DEF Nth

\* The order of the ranks is that of the numbers.
LEMMA NthOrders ==
    ASSUME NEW S \in SUBSET Int, IsFiniteSet(S),
           NEW j \in 1..Cardinality(S), NEW k \in 1..Cardinality(S)
    PROVE  j < k <=> Nth(S, j) < Nth(S, k)
<1>1. /\ Nth(S, j) \in S /\ Cardinality({m \in S : m <= Nth(S, j)}) = j
      /\ Nth(S, k) \in S /\ Cardinality({m \in S : m <= Nth(S, k)}) = k
  BY NthIs
<1>2. PICK a \in S, b \in S : a = Nth(S, j) /\ b = Nth(S, k)
  BY <1>1
<1>3. Cardinality({m \in S : m <= a}) = j /\ Cardinality({m \in S : m <= b}) = k
  BY <1>1, <1>2
<1>4. a < b => j < k
  BY <1>3, RankGrows
<1>5. b < a => k < j
  BY <1>3, RankGrows
<1>6. a = b => j = k
  BY <1>3
<1>7. a \in Int /\ b \in Int /\ j \in Int /\ k \in Int
  BY FS_CardinalityType
<1> QED BY <1>2, <1>4, <1>5, <1>6, <1>7

\* Every number has its rank.
LEMMA NthOfRank ==
    ASSUME NEW S \in SUBSET Int, IsFiniteSet(S), NEW n \in S
    PROVE  \E k \in 1..Cardinality(S) : Nth(S, k) = n
<1>1. PICK k \in 1..Cardinality(S) : k = Cardinality({i \in S : i <= n})
  BY RankIn
<1>2. Nth(S, k) \in S /\ Cardinality({m \in S : m <= Nth(S, k)}) = k
  BY NthIs
<1>3. PICK a \in S : a = Nth(S, k)
  BY <1>2
<1>4. Cardinality({m \in S : m <= a}) = k
  BY <1>2, <1>3
<1>5. a < n => Cardinality({m \in S : m <= a}) < k
  BY <1>1, RankGrows
<1>6. n < a => k < Cardinality({m \in S : m <= a})
  BY <1>1, RankGrows
<1>7. a \in Int /\ n \in Int /\ k \in Int
  BY FS_CardinalityType
<1> QED BY <1>3, <1>4, <1>5, <1>6, <1>7

-----------------------------------------------------------------------------
(* Lists of anything *)

IsList(s) == \E S : s \in Seq(S)

\* What a list holds, and whether it holds nothing twice.
Els(s) == {s[i] : i \in 1..Len(s)}
Once(s) == \A i, j \in 1..Len(s) : s[i] = s[j] => i = j

\* A list has a length, and its places run up to it.
LEMMA ListLen ==
    ASSUME NEW s, IsList(s)
    PROVE  Len(s) \in Nat /\ DOMAIN s = 1..Len(s) /\ (s = <<>> <=> Len(s) = 0)
BY DEF IsList

\* A function on the first so many numbers is a list.
LEMMA FunctionList ==
    ASSUME NEW n \in Nat, NEW s, s = [i \in 1..n |-> s[i]]
    PROVE  IsList(s) /\ Len(s) = n
<1> DEFINE S == {s[i] : i \in 1..n}
<1>1. \A i \in 1..n : s[i] \in S
  OBVIOUS
<1> HIDE DEF S
<1>2. s \in [1..n -> S]
  BY <1>1
<1>3. s \in Seq(S) /\ Len(s) = n
  BY <1>2
<1> QED BY <1>3 DEF IsList

\* The empty list holds nothing.
LEMMA EmptyList == IsList(<<>>) /\ Len(<<>>) = 0 /\ Els(<<>>) = {} /\ Once(<<>>)
<1>1. <<>> \in Seq({}) /\ Len(<<>>) = 0
  OBVIOUS
<1> QED BY <1>1 DEF IsList, Els, Once

\* Appending puts one thing behind the rest, and keeps a list free of repeats.
LEMMA AppendList ==
    ASSUME NEW s, NEW e, IsList(s)
    PROVE  /\ IsList(Append(s, e)) /\ Len(Append(s, e)) = Len(s) + 1
           /\ \A i \in 1..Len(s) : Append(s, e)[i] = s[i]
           /\ Append(s, e)[Len(s) + 1] = e
           /\ Els(Append(s, e)) = Els(s) \cup {e}
           /\ Once(s) /\ e \notin Els(s) => Once(Append(s, e))
<1>1. PICK S : s \in Seq(S)
  BY DEF IsList
<1>2. PICK T : T = S \cup {e}
  OBVIOUS
<1>3. s \in Seq(T) /\ e \in T
  BY <1>1, <1>2
<1>4. PICK t : t = Append(s, e)
  OBVIOUS
<1>5. /\ t \in Seq(T) /\ Len(t) = Len(s) + 1 /\ Len(s) \in Nat
      /\ \A i \in 1..Len(s) : t[i] = s[i]
      /\ t[Len(s) + 1] = e
  BY <1>3, <1>4
<1>6. Els(t) = Els(s) \cup {e}
  <2>1. ASSUME NEW i \in 1..Len(t) PROVE t[i] \in Els(s) \cup {e}
    <3>1. i \in 1..Len(s) \/ i = Len(s) + 1
      BY <1>5
    <3> QED BY <1>5, <3>1 DEF Els
  <2>2. ASSUME NEW i \in 1..Len(s) PROVE s[i] \in Els(t)
    <3>1. i \in 1..Len(t) /\ t[i] = s[i]
      BY <1>5
    <3> QED BY <3>1 DEF Els
  <2>3. e \in Els(t)
    <3>1. Len(s) + 1 \in 1..Len(t)
      BY <1>5
    <3> QED BY <1>5, <3>1 DEF Els
  <2> QED BY <2>1, <2>2, <2>3 DEF Els
<1>7. ASSUME Once(s), e \notin Els(s) PROVE Once(t)
  <2>1. ASSUME NEW i \in 1..Len(t), NEW j \in 1..Len(t), t[i] = t[j] PROVE i = j
    <3>1. (i \in 1..Len(s) \/ i = Len(s) + 1) /\ (j \in 1..Len(s) \/ j = Len(s) + 1)
      BY <1>5
    <3>2. \A k \in 1..Len(s) : t[k] = s[k] /\ t[k] # e
      BY <1>5, <1>7 DEF Els
    <3> QED BY <1>5, <1>7, <2>1, <3>1, <3>2 DEF Once
  <2> QED BY <2>1 DEF Once
<1>8. IsList(t)
  BY <1>5 DEF IsList
<1> QED BY <1>4, <1>5, <1>6, <1>7, <1>8

\* A list behind another holds what both hold, each at its place.
LEMMA ConcatList ==
    ASSUME NEW s, NEW t, IsList(s), IsList(t)
    PROVE  /\ IsList(s \o t) /\ Len(s \o t) = Len(s) + Len(t)
           /\ \A i \in 1..Len(s) : (s \o t)[i] = s[i]
           /\ \A i \in 1..Len(t) : (s \o t)[Len(s) + i] = t[i]
           /\ Els(s \o t) = Els(s) \cup Els(t)
           /\ Once(s) /\ Once(t) /\ Els(s) \cap Els(t) = {} => Once(s \o t)
<1>1. PICK S, T : s \in Seq(S) /\ t \in Seq(T)
  BY DEF IsList
<1>2. PICK U : U = S \cup T
  OBVIOUS
<1>3. s \in Seq(U) /\ t \in Seq(U)
  BY <1>1, <1>2
<1>4. PICK u : u = s \o t
  OBVIOUS
<1>5. Len(s) \in Nat /\ Len(t) \in Nat
  BY <1>1
<1>6. /\ u \in Seq(U) /\ Len(u) = Len(s) + Len(t)
      /\ \A i \in 1..Len(s) : u[i] = s[i]
      /\ \A i \in 1..Len(t) : u[Len(s) + i] = t[i]
  <2>1. /\ u \in Seq(U) /\ Len(u) = Len(s) + Len(t)
        /\ \A i \in 1..Len(s) + Len(t) : u[i] = IF i <= Len(s) THEN s[i] ELSE t[i - Len(s)]
    BY <1>3, <1>4
  <2>2. ASSUME NEW i \in 1..Len(t) PROVE u[Len(s) + i] = t[i]
    <3>1. Len(s) + i \in 1..Len(s) + Len(t) /\ ~(Len(s) + i <= Len(s)) /\ Len(s) + i - Len(s) = i
      BY <1>5
    <3> QED BY <2>1, <3>1
  <2>3. ASSUME NEW i \in 1..Len(s) PROVE u[i] = s[i]
    <3>1. i \in 1..Len(s) + Len(t) /\ i <= Len(s)
      BY <1>5
    <3> QED BY <2>1, <3>1
  <2> QED BY <2>1, <2>2, <2>3
<1>7. ASSUME NEW i \in 1..Len(u)
      PROVE  i \in 1..Len(s) \/ \E j \in 1..Len(t) : i = Len(s) + j
  <2>1. CASE i <= Len(s)
    BY <1>5, <1>6, <2>1
  <2>2. CASE ~(i <= Len(s))
    <3>1. i - Len(s) \in 1..Len(t) /\ i = Len(s) + (i - Len(s))
      BY <1>5, <1>6, <2>2
    <3> QED BY <3>1
  <2> QED BY <2>1, <2>2
<1>8. (\A i \in 1..Len(s) : i \in 1..Len(u)) /\ (\A i \in 1..Len(t) : Len(s) + i \in 1..Len(u))
  BY <1>5, <1>6
<1>9. Els(u) = Els(s) \cup Els(t)
  <2>1. ASSUME NEW i \in 1..Len(u) PROVE u[i] \in Els(s) \cup Els(t)
    BY <1>6, <1>7 DEF Els
  <2>2. ASSUME NEW i \in 1..Len(s) PROVE s[i] \in Els(u)
    BY <1>6, <1>8 DEF Els
  <2>3. ASSUME NEW i \in 1..Len(t) PROVE t[i] \in Els(u)
    BY <1>6, <1>8 DEF Els
  <2> QED BY <2>1, <2>2, <2>3 DEF Els
<1>10. ASSUME Once(s), Once(t), Els(s) \cap Els(t) = {} PROVE Once(u)
  <2>1. ASSUME NEW i \in 1..Len(u), NEW j \in 1..Len(u), u[i] = u[j] PROVE i = j
    <3>1. \A k \in 1..Len(s), l \in 1..Len(t) : s[k] # t[l]
      BY <1>10 DEF Els
    <3>2. CASE i \in 1..Len(s) /\ j \in 1..Len(s)
      BY <1>6, <1>10, <2>1, <3>2 DEF Once
    <3>3. CASE i \in 1..Len(s) /\ j \notin 1..Len(s)
      <4>1. PICK l \in 1..Len(t) : j = Len(s) + l
        BY <1>7, <3>3
      <4> QED BY <1>6, <2>1, <3>1, <3>3, <4>1
    <3>4. CASE i \notin 1..Len(s) /\ j \in 1..Len(s)
      <4>1. PICK l \in 1..Len(t) : i = Len(s) + l
        BY <1>7, <3>4
      <4> QED BY <1>6, <2>1, <3>1, <3>4, <4>1
    <3>5. CASE i \notin 1..Len(s) /\ j \notin 1..Len(s)
      <4>1. PICK k \in 1..Len(t) : i = Len(s) + k
        BY <1>7, <3>5
      <4>2. PICK l \in 1..Len(t) : j = Len(s) + l
        BY <1>7, <3>5
      <4>3. t[k] = t[l]
        BY <1>6, <2>1, <4>1, <4>2
      <4> QED BY <1>10, <4>1, <4>2, <4>3 DEF Once
    <3> QED BY <3>2, <3>3, <3>4, <3>5
  <2> QED BY <2>1 DEF Once
<1>11. IsList(u)
  BY <1>6 DEF IsList
<1> QED BY <1>4, <1>6, <1>9, <1>10, <1>11

\* A list without its head holds what stood behind it.
LEMMA TailList ==
    ASSUME NEW s, IsList(s), s # <<>>
    PROVE  /\ IsList(Tail(s)) /\ Len(Tail(s)) = Len(s) - 1
           /\ \A i \in 1..Len(Tail(s)) : Tail(s)[i] = s[i + 1]
           /\ Head(s) = s[1] /\ Head(s) \in Els(s)
           /\ Els(s) = Els(Tail(s)) \cup {Head(s)}
<1>1. PICK S : s \in Seq(S)
  BY DEF IsList
<1>2. PICK t : t = Tail(s)
  OBVIOUS
<1>3. /\ t \in Seq(S) /\ Len(t) = Len(s) - 1 /\ Len(s) \in Nat /\ Len(s) # 0
      /\ \A i \in 1..Len(t) : t[i] = s[i + 1]
      /\ Head(s) = s[1]
  BY <1>1, <1>2
<1>4. Head(s) \in Els(s)
  <2>1. 1 \in 1..Len(s)
    BY <1>3
  <2> QED BY <1>3, <2>1 DEF Els
<1>5. ASSUME NEW i \in 1..Len(t) PROVE t[i] \in Els(s)
  <2>1. i + 1 \in 1..Len(s) /\ t[i] = s[i + 1]
    BY <1>3
  <2> QED BY <2>1 DEF Els
<1>6. ASSUME NEW i \in 1..Len(s) PROVE s[i] \in Els(t) \cup {Head(s)}
  <2>1. CASE i = 1
    BY <1>3, <2>1
  <2>2. CASE i # 1
    <3>1. PICK j \in 1..Len(t) : i = j + 1
      <4>1. i - 1 \in 1..Len(t) /\ i = (i - 1) + 1
        BY <1>3, <2>2
      <4> QED BY <4>1
    <3>2. t[j] = s[i]
      BY <1>3, <3>1
    <3> QED BY <3>1, <3>2 DEF Els
  <2> QED BY <2>1, <2>2
<1>7. Els(s) = Els(t) \cup {Head(s)}
  BY <1>4, <1>5, <1>6 DEF Els
<1>8. IsList(t)
  BY <1>3 DEF IsList
<1> QED BY <1>2, <1>3, <1>4, <1>7, <1>8

\* The first so many of a list.
LEMMA FirstList ==
    ASSUME NEW s, IsList(s), NEW n \in 0..Len(s)
    PROVE  /\ IsList(SubSeq(s, 1, n)) /\ Len(SubSeq(s, 1, n)) = n
           /\ \A i \in 1..n : SubSeq(s, 1, n)[i] = s[i]
           /\ Els(SubSeq(s, 1, n)) \subseteq Els(s)
           /\ Once(s) => Once(SubSeq(s, 1, n))
           /\ n = Len(s) => Els(SubSeq(s, 1, n)) = Els(s)
<1>1. PICK S : s \in Seq(S)
  BY DEF IsList
<1>2. PICK t : t = SubSeq(s, 1, n)
  OBVIOUS
<1>3. Len(s) \in Nat /\ n \in Nat /\ n <= Len(s)
  BY <1>1
<1>4. \A i \in 1..n : i \in 1..Len(s) /\ s[i] \in S
  BY <1>1, <1>3
<1>5. /\ t \in Seq(S) /\ Len(t) = n
      /\ \A i \in 1..n : t[i] = s[i]
  BY <1>1, <1>2, <1>3, <1>4
<1>6. Els(t) \subseteq Els(s)
  BY <1>4, <1>5 DEF Els
<1>7. Once(s) => Once(t)
  BY <1>4, <1>5 DEF Once
<1>8. n = Len(s) => Els(t) = Els(s)
  BY <1>4, <1>5 DEF Els
<1> QED BY <1>2, <1>5, <1>6, <1>7, <1>8 DEF IsList

-----------------------------------------------------------------------------
(* Sorted and filtered lists *)

\* What sorting upwards gives: each number once, the smaller first.
LEMMA AscendingList ==
    ASSUME NEW S \in SUBSET Int, IsFiniteSet(S)
    PROVE  /\ IsList(Ascending(S)) /\ Len(Ascending(S)) = Cardinality(S)
           /\ Els(Ascending(S)) = S /\ Once(Ascending(S))
           /\ \A i, j \in 1..Cardinality(S) : i < j => Ascending(S)[i] < Ascending(S)[j]
<1>1. PICK t : t = Ascending(S)
  OBVIOUS
<1>2. PICK n : n = Cardinality(S)
  OBVIOUS
<1>3. n \in Nat
  BY <1>2, FS_CardinalityType
<1>4. t = [k \in 1..n |-> Nth(S, k)]
  BY <1>1, <1>2 DEF Ascending
<1>5. IsList(t) /\ Len(t) = n
  <2>1. t = [k \in 1..n |-> t[k]]
    BY <1>4
  <2> QED BY <1>3, <2>1, FunctionList
<1>6. \A k \in 1..n : t[k] = Nth(S, k) /\ t[k] \in S
  BY <1>2, <1>4, NthIs
<1>7. \A i, j \in 1..n : i < j <=> t[i] < t[j]
  BY <1>2, <1>6, NthOrders
<1>8. Els(t) = S
  <2>1. \A x \in S : \E k \in 1..n : t[k] = x
    BY <1>2, <1>6, NthOfRank
  <2> QED BY <1>5, <1>6, <2>1 DEF Els
<1>9. ASSUME NEW i \in 1..n, NEW j \in 1..n, t[i] = t[j] PROVE i = j
  <2>1. t[i] \in Int /\ t[j] \in Int
    BY <1>6
  <2>2. ~(t[i] < t[j]) /\ ~(t[j] < t[i])
    BY <1>9, <2>1
  <2>3. ~(i < j) /\ ~(j < i)
    BY <1>7, <2>2
  <2> QED BY <1>3, <2>3
<1>10. Once(t)
  BY <1>5, <1>9 DEF Once
<1> QED BY <1>1, <1>2, <1>5, <1>7, <1>8, <1>10

\* What sorting downwards gives: each number once, the greater first.
LEMMA DescendingList ==
    ASSUME NEW S \in SUBSET Int, IsFiniteSet(S)
    PROVE  /\ IsList(Descending(S)) /\ Len(Descending(S)) = Cardinality(S)
           /\ Els(Descending(S)) = S /\ Once(Descending(S))
           /\ \A i, j \in 1..Cardinality(S) : i < j => Descending(S)[j] < Descending(S)[i]
<1>1. PICK t : t = Descending(S)
  OBVIOUS
<1>2. PICK n : n = Cardinality(S)
  OBVIOUS
<1>3. n \in Nat
  BY <1>2, FS_CardinalityType
<1>4. t = [k \in 1..n |-> Nth(S, n + 1 - k)]
  BY <1>1, <1>2 DEF Descending
<1>5. IsList(t) /\ Len(t) = n
  <2>1. t = [k \in 1..n |-> t[k]]
    BY <1>4
  <2> QED BY <1>3, <2>1, FunctionList
<1>6. \A k \in 1..n : n + 1 - k \in 1..n /\ n + 1 - (n + 1 - k) = k
  BY <1>3
<1>7. \A k \in 1..n : t[k] = Nth(S, n + 1 - k) /\ t[k] \in S
  BY <1>2, <1>4, <1>6, NthIs
<1>8. \A i, j \in 1..n : i < j <=> t[j] < t[i]
  <2>1. ASSUME NEW i \in 1..n, NEW j \in 1..n PROVE i < j <=> t[j] < t[i]
    <3>1. PICK k \in 1..n, l \in 1..n : k = n + 1 - i /\ l = n + 1 - j
      BY <1>6
    <3>2. l < k <=> Nth(S, l) < Nth(S, k)
      BY <1>2, NthOrders
    <3>3. i < j <=> l < k
      BY <1>3, <3>1
    <3> QED BY <1>7, <3>1, <3>2, <3>3
  <2> QED BY <2>1
<1>9. Els(t) = S
  <2>1. ASSUME NEW x \in S PROVE \E k \in 1..n : t[k] = x
    <3>1. PICK l \in 1..n : Nth(S, l) = x
      BY <1>2, NthOfRank
    <3>2. PICK k \in 1..n : n + 1 - k = l
      BY <1>6
    <3> QED BY <1>7, <3>1, <3>2
  <2> QED BY <1>5, <1>7, <2>1 DEF Els
<1>10. ASSUME NEW i \in 1..n, NEW j \in 1..n, t[i] = t[j] PROVE i = j
  <2>1. t[i] \in Int /\ t[j] \in Int
    BY <1>7
  <2>2. ~(t[i] < t[j]) /\ ~(t[j] < t[i])
    BY <1>10, <2>1
  <2>3. ~(i < j) /\ ~(j < i)
    BY <1>8, <2>2
  <2> QED BY <1>3, <2>3
<1>11. Once(t)
  BY <1>5, <1>10 DEF Once
<1> QED BY <1>1, <1>2, <1>5, <1>8, <1>9, <1>11

\* What filtering gives: what the list has at the places kept, in its order.
LEMMA FilteredList ==
    ASSUME NEW s, IsList(s), NEW P \in SUBSET (1..Len(s))
    PROVE  /\ IsList(Filtered(s, P)) /\ Len(Filtered(s, P)) = Cardinality(P)
           /\ Cardinality(P) \in Nat
           /\ Els(Filtered(s, P)) = {s[p] : p \in P}
           /\ \A i \in 1..Cardinality(P) : Ascending(P)[i] \in P
                                           /\ Filtered(s, P)[i] = s[Ascending(P)[i]]
           /\ Once(s) => Once(Filtered(s, P))
<1>1. Len(s) \in Nat
  BY ListLen
<1>2. IsFiniteSet(P) /\ P \in SUBSET Int
  <2>1. IsFiniteSet(1..Len(s))
    BY <1>1, FS_Interval
  <2>2. IsFiniteSet(P)
    BY <2>1, FS_Subset
  <2>3. \A p \in P : p \in 1..Len(s)
    OBVIOUS
  <2>4. \A p \in P : p \in Int
    BY <1>1, <2>3
  <2> QED BY <2>2, <2>4
<1>3. PICK n : n = Cardinality(P)
  OBVIOUS
<1>4. n \in Nat
  BY <1>2, <1>3, FS_CardinalityType
<1>5. PICK t : t = Filtered(s, P)
  OBVIOUS
<1>6. PICK a : a = Ascending(P)
  OBVIOUS
<1>7. /\ Len(a) = n /\ Els(a) = P /\ Once(a)
      /\ \A i \in 1..n : a[i] = Nth(P, i)
  <2>1. Len(a) = n /\ Els(a) = P /\ Once(a)
    BY <1>2, <1>3, <1>6, AscendingList
  <2>2. \A i \in 1..n : a[i] = Nth(P, i)
    BY <1>3, <1>6 DEF Ascending
  <2> QED BY <2>1, <2>2
<1>8. t = [k \in 1..n |-> s[Nth(P, k)]]
  BY <1>3, <1>5 DEF Filtered
<1>9. IsList(t) /\ Len(t) = n
  <2>1. t = [k \in 1..n |-> t[k]]
    BY <1>8
  <2> QED BY <1>4, <2>1, FunctionList
<1>10. \A i \in 1..n : a[i] \in P /\ t[i] = s[a[i]]
  <2>1. \A i \in 1..n : t[i] = s[Nth(P, i)]
    BY <1>8
  <2>2. \A i \in 1..n : a[i] \in P
    BY <1>7 DEF Els
  <2> QED BY <1>7, <2>1, <2>2
<1>11. Els(t) = {s[p] : p \in P}
  <2>1. \A p \in P : \E i \in 1..n : a[i] = p
    BY <1>7 DEF Els
  <2>2. \A p \in P : \E i \in 1..n : t[i] = s[p]
    BY <1>10, <2>1
  <2>3. Els(t) = {t[i] : i \in 1..n}
    BY <1>9 DEF Els
  <2>4. \A i \in 1..n : t[i] \in {s[p] : p \in P}
    BY <1>10
  <2>5. \A p \in P : s[p] \in {t[i] : i \in 1..n}
    BY <2>2
  <2> QED BY <2>3, <2>4, <2>5
<1>12. ASSUME Once(s) PROVE Once(t)
  <2>1. ASSUME NEW i \in 1..n, NEW j \in 1..n, t[i] = t[j] PROVE i = j
    <3>1. a[i] \in 1..Len(s) /\ a[j] \in 1..Len(s) /\ s[a[i]] = s[a[j]]
      BY <1>10, <2>1
    <3>2. a[i] = a[j]
      BY <1>12, <3>1 DEF Once
    <3> QED BY <1>7, <3>2 DEF Once
  <2> QED BY <1>9, <2>1 DEF Once
<1> QED BY <1>3, <1>4, <1>5, <1>6, <1>9, <1>10, <1>11, <1>12

\* The top of a set, listed downwards: the k-th number has k that are not
\* below it.
LEMMA TopRank ==
    ASSUME NEW S \in SUBSET Int, IsFiniteSet(S), NEW m \in Nat, NEW f \in [1..m -> S],
           \A i, j \in 1..m : i < j => f[j] < f[i],
           \A x \in S : (\E k \in 1..m : f[k] = x) \/ \A k \in 1..m : x < f[k],
           NEW k \in 1..m
    PROVE  Cardinality({x \in S : f[k] <= x}) = k
<1> DEFINE T == {x \in S : f[k] <= x}
           g == [j \in 1..k |-> f[j]]
<1>1. k \in Nat /\ \A j \in 1..k : j \in 1..m
  OBVIOUS
<1>2. IsFiniteSet(1..k) /\ Cardinality(1..k) = k
  BY <1>1, FS_Interval
<1>3. \A j \in 1..m : f[j] \in S /\ f[j] \in Int
  OBVIOUS
<1>4. \A j \in 1..k : f[j] \in T
  <2>1. ASSUME NEW j \in 1..k PROVE f[k] <= f[j]
    <3>1. j < k \/ j = k
      BY <1>1
    <3>2. j \in 1..m
      BY <1>1
    <3>3. f[j] \in Int /\ f[k] \in Int
      BY <1>3, <3>2
    <3>4. j < k => f[k] < f[j]
      BY <3>2
    <3> QED BY <3>1, <3>3, <3>4
  <2> QED BY <1>1, <1>3, <2>1
<1>5. ASSUME NEW x \in T PROVE \E j \in 1..k : f[j] = x
  <2>1. x \in S /\ x \in Int /\ f[k] <= x /\ f[k] \in Int
    BY <1>3
  <2>2. ~(x < f[k])
    BY <2>1
  <2>3. PICK j \in 1..m : f[j] = x
    BY <2>1, <2>2
  <2>4. ~(k < j)
    <3>1. k < j => f[j] < f[k]
      OBVIOUS
    <3> QED BY <2>2, <2>3, <3>1
  <2>5. j \in 1..k
    BY <1>1, <2>4
  <2> QED BY <2>3, <2>5
<1>6. ASSUME NEW i \in 1..k, NEW j \in 1..k, f[i] = f[j] PROVE i = j
  <2>1. i \in 1..m /\ j \in 1..m /\ f[i] \in Int /\ f[j] \in Int
    BY <1>1, <1>3
  <2>2. ~(f[i] < f[j]) /\ ~(f[j] < f[i])
    BY <1>6, <2>1
  <2>3. ~(i < j) /\ ~(j < i)
    BY <2>1, <2>2
  <2> QED BY <1>1, <2>3
<1> HIDE DEF T
<1>7. g \in Bijection(1..k, T)
  BY <1>4, <1>5, <1>6 DEF Bijection, Injection, Surjection, IsInjective
<1>8. Cardinality(T) = k
  BY <1>2, <1>7, FS_Bijection DEF ExistsBijection
<1> QED BY <1>8 DEF T

\* There is one such list of each length, what sorting gives or its head.
LEMMA TopSorted ==
    ASSUME NEW S \in SUBSET Int, IsFiniteSet(S), NEW m \in Nat, NEW f \in [1..m -> S],
           \A i, j \in 1..m : i < j => f[j] < f[i],
           \A x \in S : (\E k \in 1..m : f[k] = x) \/ \A k \in 1..m : x < f[k]
    PROVE  m <= Cardinality(S) /\ \A k \in 1..m : f[k] = Descending(S)[k]
<1>1. PICK n : n = Cardinality(S)
  OBVIOUS
<1>2. PICK d : d = Descending(S)
  OBVIOUS
<1>3. n \in Nat
  BY <1>1, FS_CardinalityType
<1>4. m <= n
  <2>1. IsFiniteSet(1..m) /\ Cardinality(1..m) = m
    BY FS_Interval
  <2>2. ASSUME NEW i \in 1..m, NEW j \in 1..m, f[i] = f[j] PROVE i = j
    <3>1. f[i] \in Int /\ f[j] \in Int
      OBVIOUS
    <3>2. ~(f[i] < f[j]) /\ ~(f[j] < f[i])
      BY <2>2, <3>1
    <3>3. ~(i < j) /\ ~(j < i)
      BY <3>2
    <3> QED BY <3>3
  <2>3. f \in Injection(1..m, S)
    BY <2>2 DEF Injection, IsInjective
  <2>4. Cardinality(1..m) <= Cardinality(S)
    BY <2>3, FS_Injection
  <2> QED BY <1>1, <2>1, <2>4
<1>5. /\ Len(d) = n /\ Els(d) = S /\ IsList(d)
      /\ \A i, j \in 1..n : i < j => d[j] < d[i]
  BY <1>1, <1>2, DescendingList
<1>6. \A k \in 1..n : d[k] \in S
  BY <1>5 DEF Els
<1>7. PICK e : e = [k \in 1..n |-> d[k]]
  OBVIOUS
<1>8. e \in [1..n -> S] /\ \A k \in 1..n : e[k] = d[k]
  BY <1>6, <1>7
<1>9. \A i, j \in 1..n : i < j => e[j] < e[i]
  BY <1>5, <1>8
<1>10. \A x \in S : \E k \in 1..n : e[k] = x
  BY <1>5, <1>8 DEF Els
<1>11. ASSUME NEW k \in 1..m PROVE f[k] = d[k]
  <2>1. k \in 1..n
    BY <1>3, <1>4
  <2>2. Cardinality({x \in S : f[k] <= x}) = k
    BY TopRank
  <2>3. Cardinality({x \in S : e[k] <= x}) = k
    BY <1>3, <1>8, <1>9, <1>10, <2>1, TopRank
  <2>4. f[k] \in S /\ e[k] \in S /\ f[k] \in Int /\ e[k] \in Int
    BY <1>8, <2>1
  <2>5. ASSUME NEW a \in S, NEW b \in S, a < b,
               Cardinality({x \in S : a <= x}) = Cardinality({x \in S : b <= x})
        PROVE  FALSE
    <3>1. PICK A, B : A = {x \in S : a <= x} /\ B = {x \in S : b <= x}
      OBVIOUS
    <3>2. A \in SUBSET S /\ B \in SUBSET A
      <4>1. a \in Int /\ b \in Int /\ S \subseteq Int
        OBVIOUS
      <4>2. \A x \in S : b <= x => a <= x
        BY <2>5, <4>1
      <4> QED BY <3>1, <4>2
    <3>3. IsFiniteSet(A)
      BY <3>2, FS_Subset
    <3>4. A = B
      BY <2>5, <3>1, <3>2, <3>3, FS_Subset
    <3>5. a \in A /\ a \notin B
      <4>1. a \in Int /\ b \in Int
        OBVIOUS
      <4> QED BY <2>5, <3>1, <4>1
    <3> QED BY <3>4, <3>5
  <2>6. ~(f[k] < e[k]) /\ ~(e[k] < f[k])
    BY <2>2, <2>3, <2>4, <2>5
  <2>7. f[k] = e[k]
    BY <2>4, <2>6
  <2> QED BY <1>8, <2>1, <2>7
<1> QED BY <1>1, <1>2, <1>4, <1>11
=============================================================================
