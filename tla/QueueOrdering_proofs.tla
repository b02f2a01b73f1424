-------------------------- MODULE QueueOrdering_proofs --------------------------
(****************************************************************************)
(* Theorems about QueueOrdering for any number of rows: the order read from *)
(* the table is total, and the table implements the list its users see,     *)
(* every step of it.                                                        *)
(*                                                                          *)
(* The library's induction theorems cannot be instantiated by the provers:  *)
(* arguments by induction are arguments about a smallest counterexample.    *)
(****************************************************************************)
EXTENDS QueueOrdering, FiniteSetTheorems, SequenceTheorems, WellFoundedInduction,
        TLAPS

-----------------------------------------------------------------------------
(* Lists without repetition.                                                *)

\* o lists the elements of A, each once.
Orders(o, A) ==
    /\ o \in [1..Cardinality(A) -> A]
    /\ \A k, l \in 1..Cardinality(A) : o[k] = o[l] => k = l
    /\ \A i \in A : \E k \in 1..Cardinality(A) : o[k] = i

\* A set of naturals that is not empty has a smallest element.
LEMMA Smallest ==
    ASSUME NEW S \in SUBSET Nat, S # {}
    PROVE  \E n \in S : \A m \in S : n <= m
<1>1. PICK n \in S : \A m \in S : ~(<<m, n>> \in OpToRel(<, Nat))
  BY NatLessThanWellFounded, WFMin
<1>2. \A m \in S : ~(m < n)
  BY <1>1 DEF OpToRel
<1> QED  BY <1>2

\* A list of a finite set is a sequence, and each element has its place in it.
LEMMA OrderFacts ==
    ASSUME NEW A, IsFiniteSet(A), NEW o, Orders(o, A)
    PROVE  /\ Cardinality(A) \in Nat
           /\ o \in Seq(A) /\ Len(o) = Cardinality(A)
           /\ DOMAIN o = 1..Cardinality(A)
           /\ ToSet(o) = A
           /\ List!IsList(o)
<1>1. Cardinality(A) \in Nat
  BY FS_CardinalityType
<1>2. DOMAIN o = 1..Cardinality(A)
  BY DEF Orders
<1>3. o \in Seq(A) /\ Len(o) = Cardinality(A)
  BY <1>1 DEF Orders
<1>4. ToSet(o) = A
  BY <1>2 DEF Orders, ToSet
<1>5. IsInjective(o)
  BY <1>2 DEF Orders, IsInjective
<1>6. List!IsList(o)
  BY <1>2, <1>3, <1>4, <1>5
     DEF List!IsList, List!ToSet, List!IsInjective, ToSet, IsInjective
<1> QED  BY <1>1, <1>2, <1>3, <1>4, <1>6

LEMMA PlaceFacts ==
    ASSUME NEW A, IsFiniteSet(A), NEW o, Orders(o, A)
    PROVE  /\ \A i \in A : /\ Place(o, i) \in 1..Cardinality(A)
                           /\ o[Place(o, i)] = i
                           /\ List!Place(o, i) = Place(o, i)
           /\ \A k \in 1..Cardinality(A) : o[k] \in A /\ Place(o, o[k]) = k
           /\ \A k \in 1..Cardinality(A), i \in A : o[k] = i => Place(o, i) = k
<1>1. Len(o) = Cardinality(A)
  BY OrderFacts
<1>2. ASSUME NEW i \in A
      PROVE  Place(o, i) \in 1..Cardinality(A) /\ o[Place(o, i)] = i
  <2>1. \E k \in 1..Len(o) : o[k] = i
    BY <1>1 DEF Orders
  <2> QED  BY <1>1, <2>1 DEF Place
<1>3. ASSUME NEW k \in 1..Cardinality(A)
      PROVE  o[k] \in A /\ Place(o, o[k]) = k
  BY <1>2 DEF Orders
<1> QED  BY <1>2, <1>3 DEF Place, List!Place

\* Lists of the same elements in the same relative order are the same.
LEMMA SameOrder ==
    ASSUME NEW A, IsFiniteSet(A), NEW o, Orders(o, A), NEW w, Orders(w, A),
           \A i, j \in A : Place(o, i) < Place(o, j) <=> Place(w, i) < Place(w, j)
    PROVE  o = w
<1> DEFINE N == Cardinality(A)
           differ == {k \in 1..N : o[k] # w[k]}
<1> N \in Nat
  BY OrderFacts
<1> HIDE DEF N
<1>1. ASSUME differ # {}
      PROVE  FALSE
  <2>1. PICK k \in differ : \A m \in differ : k <= m
    <3>1. differ \in SUBSET Nat
      OBVIOUS
    <3> HIDE DEF differ
    <3> QED  BY <1>1, <3>1, Smallest
  <2>2. k \in 1..N /\ o[k] # w[k] /\ \A m \in 1..N : m < k => o[m] = w[m]
    BY <2>1
  <2> DEFINE i == o[k]
             j == w[k]
  <2>3. i \in A /\ j \in A /\ Place(o, i) = k /\ Place(w, j) = k
    BY <2>2, PlaceFacts DEF N
  <2>4. /\ Place(w, i) \in 1..N /\ w[Place(w, i)] = i
        /\ Place(o, j) \in 1..N /\ o[Place(o, j)] = j
    BY <2>3, PlaceFacts DEF N
  <2>5. Place(w, i) # k /\ Place(o, j) # k
    BY <2>2, <2>4
  <2>6. ~(Place(w, i) < k)
    <3>1. ASSUME Place(w, i) < k
          PROVE  FALSE
      <4>1. o[Place(w, i)] = i
        BY <2>2, <2>4, <3>1
      <4>2. Place(w, i) = k
        BY <2>2, <2>4, <4>1 DEF Orders, N
      <4> QED  BY <2>5, <4>2
    <3> QED  BY <3>1
  <2>7. ~(Place(o, j) < k)
    <3>1. ASSUME Place(o, j) < k
          PROVE  FALSE
      <4>1. w[Place(o, j)] = j
        BY <2>2, <2>4, <3>1
      <4>2. Place(o, j) = k
        BY <2>2, <2>4, <4>1 DEF Orders, N
      <4> QED  BY <2>5, <4>2
    <3> QED  BY <3>1
  <2>8. Place(o, i) < Place(o, j) /\ ~(Place(w, i) < Place(w, j))
    BY <2>2, <2>3, <2>4, <2>5, <2>6, <2>7
  <2> QED  BY <2>3, <2>8
<1>2. \A k \in 1..N : o[k] = w[k]
  BY <1>1
<1>3. o \in [1..N -> A] /\ w \in [1..N -> A]
  BY DEF Orders, N
<1> QED  BY <1>2, <1>3

-----------------------------------------------------------------------------
(* Reading the order.                                                       *)

\* The rows of A have entries no two of which are the same.
Distinct(e, A) ==
    /\ \A i \in A : e[i].id \in Nat /\ e[i].position \in Nat
    /\ \A i, j \in A : i # j => e[i].id # e[j].id

SortedBy(e, A) ==
    [k \in 1..Cardinality(A) |->
        CHOOSE i \in A : Cardinality({j \in A : Precedes(e[j], e[i])}) = k - 1]

\* Position, nulls last, then id: a strict order on such rows, and total.
LEMMA StrictOrder ==
    ASSUME NEW A, NEW e, Distinct(e, A)
    PROVE  /\ \A i \in A : ~Precedes(e[i], e[i])
           /\ \A i, j \in A : i # j => (Precedes(e[i], e[j]) <=> ~Precedes(e[j], e[i]))
           /\ \A i, j, k \in A : Precedes(e[i], e[j]) /\ Precedes(e[j], e[k])
                                 => Precedes(e[i], e[k])
BY DEF Distinct, Precedes, Unplaced

\* A row that precedes another has fewer rows before it.
LEMMA RankGrows ==
    ASSUME NEW A, IsFiniteSet(A), NEW e, Distinct(e, A), NEW i \in A, NEW j \in A,
           Precedes(e[i], e[j])
    PROVE  Cardinality({x \in A : Precedes(e[x], e[i])})
               < Cardinality({x \in A : Precedes(e[x], e[j])})
<1> DEFINE B(y) == {x \in A : Precedes(e[x], e[y])}
<1>1. B(i) \subseteq B(j)
  BY StrictOrder
<1>2. i \in B(j) /\ i \notin B(i)
  BY StrictOrder
<1>3. B(i) \in SUBSET B(j) /\ B(i) # B(j) /\ B(i) \in SUBSET A /\ B(j) \in SUBSET A
  BY <1>1, <1>2
<1> HIDE DEF B
<1>4. IsFiniteSet(B(j)) /\ IsFiniteSet(B(i))
  BY <1>3, FS_Subset
<1>5. Cardinality(B(i)) \in Nat /\ Cardinality(B(j)) \in Nat
  BY <1>4, FS_CardinalityType
<1>6. Cardinality(B(i)) < Cardinality(B(j))
  BY <1>3, <1>4, <1>5, FS_Subset
<1> QED  BY <1>6 DEF B

\* What is read lists the rows, each after those that precede it.
LEMMA SortedFacts ==
    ASSUME NEW A, IsFiniteSet(A), NEW e, Distinct(e, A)
    PROVE  /\ Orders(SortedBy(e, A), A)
           /\ \A i, j \in A : Place(SortedBy(e, A), i) < Place(SortedBy(e, A), j)
                              <=> Precedes(e[i], e[j])
<1> DEFINE N == Cardinality(A)
           B(y) == {x \in A : Precedes(e[x], e[y])}
           rank == [i \in A |-> Cardinality(B(i)) + 1]
           o == SortedBy(e, A)
<1>1. N \in Nat
  BY FS_CardinalityType
<1>2. ASSUME NEW i \in A
      PROVE  rank[i] \in 1..N
  <2>1. B(i) \in SUBSET A /\ i \notin B(i) /\ i \in A
    BY StrictOrder
  <2> HIDE DEF B
  <2>2. IsFiniteSet(B(i)) /\ Cardinality(B(i)) <= N /\ Cardinality(B(i)) # N
    BY <2>1, FS_Subset
  <2>3. Cardinality(B(i)) \in Nat
    BY <2>2, FS_CardinalityType
  <2> QED  BY <1>1, <2>2, <2>3
<1>3. \A i, j \in A : Precedes(e[i], e[j]) => rank[i] < rank[j]
  <2> SUFFICES ASSUME NEW i \in A, NEW j \in A, Precedes(e[i], e[j])
               PROVE  rank[i] < rank[j]
    OBVIOUS
  <2>1. Cardinality(B(i)) < Cardinality(B(j))
    BY RankGrows
  <2>2. rank[i] = Cardinality(B(i)) + 1 /\ rank[j] = Cardinality(B(j)) + 1
    OBVIOUS
  <2>3. rank[i] \in Int /\ rank[j] \in Int
    BY <1>1, <1>2
  <2> HIDE DEF B, rank
  <2>4. Cardinality(B(i)) \in Nat /\ Cardinality(B(j)) \in Nat
    <3>1. B(i) \in SUBSET A /\ B(j) \in SUBSET A
      BY DEF B
    <3> QED  BY <3>1, FS_Subset, FS_CardinalityType
  <2> QED  BY <2>1, <2>2, <2>4
<1>4. \A i \in A : rank[i] = Cardinality(B(i)) + 1 /\ Cardinality(B(i)) = rank[i] - 1
  <2>1. \A i \in A : rank[i] = Cardinality(B(i)) + 1
    OBVIOUS
  <2>2. \A i \in A : Cardinality(B(i)) \in Nat
    <3>1. \A i \in A : B(i) \in SUBSET A
      OBVIOUS
    <3> HIDE DEF B
    <3> QED  BY <3>1, FS_Subset, FS_CardinalityType
  <2> HIDE DEF rank, B
  <2> QED  BY <2>1, <2>2
<1>5. \A k \in 1..N : o[k] = CHOOSE i \in A : Cardinality(B(i)) = k - 1
  BY DEF SortedBy
<1>6. rank \in [A -> 1..N]
  BY <1>2
<1> HIDE DEF rank, B
<1>7. \A i, j \in A : rank[i] = rank[j] => i = j
  BY <1>1, <1>2, <1>3, StrictOrder
<1>8. rank \in Surjection(A, 1..N)
  <2>1. rank \in Injection(A, 1..N)
    BY <1>6, <1>7 DEF Injection, IsInjective
  <2>2. IsFiniteSet(1..N) /\ Cardinality(1..N) = N
    BY <1>1, FS_Interval
  <2> QED  BY <2>1, <2>2, FS_Injection DEF N
<1>9. \A k \in 1..N : \E i \in A : rank[i] = k
  BY <1>8 DEF Surjection
<1>10. \A k \in 1..N : o[k] \in A /\ rank[o[k]] = k
  <2> SUFFICES ASSUME NEW k \in 1..N
               PROVE  o[k] \in A /\ rank[o[k]] = k
    OBVIOUS
  <2>1. \E i \in A : Cardinality(B(i)) = k - 1
    BY <1>4, <1>9
  <2>2. o[k] \in A /\ Cardinality(B(o[k])) = k - 1
    BY <1>5, <2>1
  <2> QED  BY <1>1, <1>4, <2>2
<1>11. \A i \in A : rank[i] \in 1..N /\ o[rank[i]] = i
  BY <1>2, <1>7, <1>10
<1>12. Orders(o, A)
  <2>1. o \in [1..N -> A]
    <3>1. \A k \in 1..N : o[k] \in A
      BY <1>10
    <3> QED  BY <3>1 DEF SortedBy, N
  <2>2. \A k, l \in 1..N : o[k] = o[l] => k = l
    BY <1>10
  <2> QED  BY <1>11, <2>1, <2>2 DEF Orders, N
<1>13. \A i \in A : Place(o, i) = rank[i]
  BY <1>11, <1>12, PlaceFacts DEF N
<1>14. \A i, j \in A : rank[i] < rank[j] => Precedes(e[i], e[j])
  <2> SUFFICES ASSUME NEW i \in A, NEW j \in A, rank[i] < rank[j],
                      ~Precedes(e[i], e[j])
               PROVE  FALSE
    OBVIOUS
  <2>1. rank[i] \in Int /\ rank[j] \in Int
    BY <1>1, <1>2
  <2>2. i # j
    BY <2>1
  <2>3. Precedes(e[j], e[i])
    BY <2>2, StrictOrder
  <2>4. rank[j] < rank[i]
    BY <1>3, <2>3
  <2> QED  BY <2>1, <2>4
<1> QED  BY <1>3, <1>12, <1>13, <1>14

-----------------------------------------------------------------------------
(* The rounds of a move.  Going up and going down are the same up to a      *)
(* reflection: At(n) is the place the n-th round looks at.                  *)

At(o, n, up) == IF up THEN n ELSE Len(o) + 1 - n

\* The list p after n rounds of moving the items S of o.
Progress(o, p, n, S, up) ==
    LET A == ToSet(o)
    IN  /\ Orders(p, A)
        /\ \A k \in (n + 1)..Len(o) : p[At(o, k, up)] = o[At(o, k, up)]
        /\ \A i, j \in A : (i \in S <=> j \in S)
                           => (Place(o, i) < Place(o, j) <=> Place(p, i) < Place(p, j))
        /\ \/ \A m \in 1..n : o[At(o, m, up)] \in S
           \/ n >= 1 /\ p[At(o, n, up)] \notin S
        /\ (\A m \in 1..n : o[At(o, m, up)] \in S) => p = o
        /\ \A k \in 1..n :
              o[At(o, k, up)] \in S
              => Place(p, o[At(o, k, up)])
                    = IF \A m \in 1..(k - 1) : o[At(o, m, up)] \in S
                      THEN At(o, k, up) ELSE At(o, k - 1, up)

OneRound(o, p, n, S, up) ==
    IF Turn(o, n, up) \in S THEN Swapped(p, Turn(o, n, up), S, up) ELSE p

\* q is p with the neighbours at a and b swapped.
Swap(p, q, a, b, A) ==
    /\ a \in 1..Cardinality(A) /\ b \in 1..Cardinality(A)
    /\ a = b + 1 \/ b = a + 1
    /\ q \in [1..Cardinality(A) -> A]
    /\ q[a] = p[b] /\ q[b] = p[a]
    /\ \A k \in 1..Cardinality(A) : k # a /\ k # b => q[k] = p[k]

\* x and y are not i and j.
Other(x, y, i, j) == ~(x = i /\ y = j) /\ ~(x = j /\ y = i)

\* Swapping neighbours changes the places of these two only.
LEMMA SwapFacts ==
    ASSUME NEW A, IsFiniteSet(A), NEW p, Orders(p, A),
           NEW q, NEW a, NEW b, Swap(p, q, a, b, A)
    PROVE  /\ Orders(q, A)
           /\ Place(q, p[a]) = b /\ Place(q, p[b]) = a
           /\ \A x \in A : x # p[a] /\ x # p[b] => Place(q, x) = Place(p, x)
           /\ \A x, y \in A : Other(x, y, p[a], p[b])
                 => (Place(q, x) < Place(q, y) <=> Place(p, x) < Place(p, y))
<1> DEFINE N == Cardinality(A)
<1> N \in Nat /\ a \in 1..N /\ b \in 1..N /\ a # b /\ (a = b + 1 \/ b = a + 1)
  BY FS_CardinalityType DEF Swap
<1>1. p \in [1..N -> A] /\ p[a] \in A /\ p[b] \in A /\ p[a] # p[b]
  BY DEF Orders
<1>2. /\ q \in [1..N -> A] /\ q[a] = p[b] /\ q[b] = p[a]
      /\ \A k \in 1..N : k # a /\ k # b => q[k] = p[k]
  BY DEF Swap
<1>3. \A k, l \in 1..N : p[k] = p[l] => k = l
  BY DEF Orders
<1>4. \A k, l \in 1..N : q[k] = q[l] => k = l
  BY <1>2, <1>3
<1>5. \A x \in A : \E k \in 1..N : q[k] = x
  <2> SUFFICES ASSUME NEW x \in A
               PROVE  \E k \in 1..N : q[k] = x
    OBVIOUS
  <2>1. PICK k \in 1..N : p[k] = x
    BY DEF Orders
  <2> QED  BY <1>2, <2>1
<1>6. Orders(q, A)
  BY <1>2, <1>4, <1>5 DEF Orders
<1> HIDE DEF N
<1>7. \A k \in 1..N : Place(q, q[k]) = k /\ Place(p, p[k]) = k
  <2>1. \A k \in 1..Cardinality(A) : Place(q, q[k]) = k
    <3>1. \A k \in 1..Cardinality(A), i \in A : q[k] = i => Place(q, i) = k
      BY <1>6, PlaceFacts
    <3>2. \A k \in 1..Cardinality(A) : q[k] \in A
      BY DEF Swap
    <3> QED  BY <3>1, <3>2
  <2>2. \A k \in 1..N : Place(p, p[k]) = k
    BY PlaceFacts DEF N
  <2> QED  BY <2>1, <2>2 DEF N
<1>8. Place(q, p[a]) = b /\ Place(q, p[b]) = a
  BY <1>2, <1>7
<1>9. Place(p, p[a]) = a /\ Place(p, p[b]) = b
  BY <1>7
<1>10. ASSUME NEW x \in A, x # p[a], x # p[b]
       PROVE  Place(q, x) = Place(p, x) /\ Place(p, x) \notin {a, b}
  <2>1. PICK k \in 1..N : p[k] = x
    BY DEF Orders, N
  <2>2. k # a /\ k # b
    BY <1>10, <2>1
  <2> QED  BY <1>2, <1>7, <2>1, <2>2
<1>11. \A x \in A : Place(p, x) \in 1..N /\ Place(q, x) \in 1..N
  <2>1. \A x \in A : Place(q, x) \in 1..N
    BY <1>6, PlaceFacts DEF N
  <2>2. \A x \in A : Place(p, x) \in 1..N
    BY PlaceFacts DEF N
  <2> QED  BY <2>1, <2>2
<1>12. ASSUME NEW x \in A, NEW y \in A, Other(x, y, p[a], p[b])
       PROVE  Place(q, x) < Place(q, y) <=> Place(p, x) < Place(p, y)
  <2>1. CASE x = y
    BY <2>1, <1>11
  <2>2. CASE x \notin {p[a], p[b]} /\ y \notin {p[a], p[b]}
    <3>1. Place(q, x) = Place(p, x)
      BY <2>2, <1>10
    <3>2. Place(q, y) = Place(p, y)
      BY <2>2, <1>10
    <3> QED  BY <3>1, <3>2
  <2>3. CASE x \in {p[a], p[b]} /\ y \notin {p[a], p[b]}
    BY <2>3, <1>8, <1>9, <1>10, <1>11
  <2>4. CASE x \notin {p[a], p[b]} /\ y \in {p[a], p[b]}
    BY <2>4, <1>8, <1>9, <1>10, <1>11
  <2>5. x \in {p[a], p[b]} /\ y \in {p[a], p[b]} => x = y
    BY <1>12 DEF Other
  <2> QED  BY <2>1, <2>2, <2>3, <2>4, <2>5
<1> QED  BY <1>2, <1>6, <1>8, <1>10, <1>12 DEF N

\* Before the first round nothing has moved.
LEMMA ProgressStart ==
    ASSUME NEW o, Orders(o, ToSet(o)), NEW S, NEW up \in BOOLEAN
    PROVE  Progress(o, o, 0, S, up)
BY DEF Progress

\* A round whose item stays where it is.
LEMMA ProgressStay ==
    ASSUME NEW A, IsFiniteSet(A), NEW o, Orders(o, A), NEW S, NEW up \in BOOLEAN,
           NEW n \in 0..(Cardinality(A) - 1), NEW p, Progress(o, p, n, S, up),
           \/ Turn(o, n + 1, up) \notin S
           \/ \A m \in 1..n : o[At(o, m, up)] \in S
    PROVE  Progress(o, p, n + 1, S, up)
<1> DEFINE N == Cardinality(A)
           i == o[At(o, n + 1, up)]
<1>1. N \in Nat /\ Len(o) = N /\ ToSet(o) = A /\ n \in Nat /\ n + 1 \in 1..N
  BY OrderFacts
<1>2. At(o, n + 1, up) \in 1..N
  BY <1>1 DEF At
<1>3. i = Turn(o, n + 1, up) /\ i = p[At(o, n + 1, up)] /\ i \in A
  <2>1. i = Turn(o, n + 1, up)
    BY DEF Turn, At
  <2>2. i = p[At(o, n + 1, up)]
    BY <1>1 DEF Progress
  <2>3. i \in A
    BY <1>2 DEF Orders
  <2> QED  BY <2>1, <2>2, <2>3
<1>4. Orders(p, A)
  BY <1>1 DEF Progress
<1>5. \A k \in (n + 2)..N : p[At(o, k, up)] = o[At(o, k, up)]
  BY <1>1 DEF Progress
<1>6. (\A m \in 1..n : o[At(o, m, up)] \in S) => p = o
  BY DEF Progress
<1>7. \/ \A m \in 1..(n + 1) : o[At(o, m, up)] \in S
      \/ p[At(o, n + 1, up)] \notin S
  BY <1>1, <1>3
<1>8. i \in S => Place(p, i) = IF \A m \in 1..n : o[At(o, m, up)] \in S
                               THEN At(o, n + 1, up) ELSE At(o, n, up)
  <2> SUFFICES ASSUME \A m \in 1..n : o[At(o, m, up)] \in S
               PROVE  Place(p, i) = At(o, n + 1, up)
    BY <1>3
  <2>1. Place(o, i) = At(o, n + 1, up)
    BY <1>2, PlaceFacts
  <2> QED  BY <1>6, <2>1
<1>9. \A k \in 1..(n + 1) :
         o[At(o, k, up)] \in S
         => Place(p, o[At(o, k, up)])
               = IF \A m \in 1..(k - 1) : o[At(o, m, up)] \in S
                 THEN At(o, k, up) ELSE At(o, k - 1, up)
  <2> SUFFICES ASSUME NEW k \in 1..(n + 1), o[At(o, k, up)] \in S
               PROVE  Place(p, o[At(o, k, up)])
                         = IF \A m \in 1..(k - 1) : o[At(o, m, up)] \in S
                           THEN At(o, k, up) ELSE At(o, k - 1, up)
    OBVIOUS
  <2>1. CASE k = n + 1
    <3>1. k - 1 = n
      BY <1>1, <2>1
    <3> QED  BY <1>8, <2>1, <3>1
  <2>2. CASE k # n + 1
    <3>1. k \in 1..n
      BY <1>1, <2>2
    <3> QED  BY <3>1 DEF Progress
  <2> QED  BY <2>1, <2>2
<1>10. \A x, y \in A : (x \in S <=> y \in S)
                       => (Place(o, x) < Place(o, y) <=> Place(p, x) < Place(p, y))
  BY <1>1 DEF Progress
<1>11. (\A m \in 1..(n + 1) : o[At(o, m, up)] \in S) => p = o
  BY <1>1, <1>6
<1>12. n + 1 >= 1 /\ n + 1 + 1 = n + 2
  BY <1>1
<1> QED  BY <1>1, <1>4, <1>5, <1>7, <1>9, <1>10, <1>11, <1>12 DEF Progress

\* A round whose item changes places with its neighbour, which is not selected.
LEMMA ProgressSwap ==
    ASSUME NEW A, IsFiniteSet(A), NEW o, Orders(o, A), NEW S, NEW up \in BOOLEAN,
           NEW n \in 0..(Cardinality(A) - 1), NEW p, Progress(o, p, n, S, up),
           Turn(o, n + 1, up) \in S, n >= 1, p[At(o, n, up)] \notin S,
           ~(\A m \in 1..n : o[At(o, m, up)] \in S),
           NEW q, Swap(p, q, At(o, n + 1, up), At(o, n, up), A)
    PROVE  Progress(o, q, n + 1, S, up)
<1> DEFINE N == Cardinality(A)
           a == At(o, n + 1, up)
           b == At(o, n, up)
           i == Turn(o, n + 1, up)
           j == p[b]
<1>1. N \in Nat /\ Len(o) = N /\ ToSet(o) = A /\ n \in 1..N /\ n + 1 \in 1..N
  BY OrderFacts
<1>2. /\ a \in 1..N /\ b \in 1..N /\ (a = b + 1 \/ b = a + 1)
      /\ \A k \in 1..N : At(o, k, up) \in 1..N
      /\ \A k, l \in 1..N : At(o, k, up) = At(o, l, up) => k = l
  <2>1. \A k \in 1..N : At(o, k, up) \in 1..N
    BY <1>1 DEF At
  <2>2. \A k, l \in 1..N : At(o, k, up) = At(o, l, up) => k = l
    BY <1>1 DEF At
  <2>3. a = b + 1 \/ b = a + 1
    <3>1. CASE up
      BY <1>1, <3>1 DEF At
    <3>2. CASE ~up
      BY <1>1, <3>2 DEF At
    <3> QED  BY <3>1, <3>2
  <2> QED  BY <1>1, <2>1, <2>2, <2>3
<1>3. i = o[a] /\ i = p[a]
  <2>1. i = o[a]
    BY DEF Turn, At
  <2>2. o[a] = p[a]
    BY <1>1 DEF Progress
  <2> QED  BY <2>1, <2>2
<1>4. Orders(p, A)
  BY <1>1 DEF Progress
<1>5. /\ Swap(p, q, a, b, A)
      /\ q \in [1..N -> A] /\ q[a] = p[b] /\ q[b] = p[a]
      /\ \A k \in 1..N : k # a /\ k # b => q[k] = p[k]
  BY DEF Swap
<1> i \in A /\ j \in A
  BY <1>2, <1>3, <1>4 DEF Orders
<1> HIDE DEF N, a, b, i, j
<1>6. /\ Orders(q, A)
      /\ Place(q, i) = b /\ Place(q, j) = a
      /\ \A x \in A : x # i /\ x # j => Place(q, x) = Place(p, x)
      /\ \A x, y \in A : Other(x, y, i, j)
            => (Place(q, x) < Place(q, y) <=> Place(p, x) < Place(p, y))
  <2>1. /\ Orders(q, A)
        /\ Place(q, p[a]) = b /\ Place(q, p[b]) = a
        /\ \A x \in A : x # p[a] /\ x # p[b] => Place(q, x) = Place(p, x)
        /\ \A x, y \in A : Other(x, y, p[a], p[b])
              => (Place(q, x) < Place(q, y) <=> Place(p, x) < Place(p, y))
    BY <1>4, <1>5, SwapFacts
  <2> QED  BY <1>3, <2>1 DEF j
<1>7. i \in S /\ j \notin S
  BY DEF i, j, b
<1>8. \A k \in (n + 2)..N : q[At(o, k, up)] = o[At(o, k, up)]
  <2> SUFFICES ASSUME NEW k \in (n + 2)..N
               PROVE  q[At(o, k, up)] = o[At(o, k, up)]
    OBVIOUS
  <2>1. k \in 1..N /\ k # n /\ k # n + 1 /\ k \in (n + 1)..N
    BY <1>1
  <2>2. At(o, k, up) \in 1..N /\ At(o, k, up) # a /\ At(o, k, up) # b
    BY <1>1, <1>2, <2>1 DEF a, b
  <2>3. p[At(o, k, up)] = o[At(o, k, up)]
    BY <1>1, <2>1 DEF Progress
  <2> QED  BY <1>5, <2>2, <2>3
<1>9. \A x, y \in A : (x \in S <=> y \in S)
                      => (Place(o, x) < Place(o, y) <=> Place(q, x) < Place(q, y))
  <2> SUFFICES ASSUME NEW x \in A, NEW y \in A, x \in S <=> y \in S
               PROVE  Place(o, x) < Place(o, y) <=> Place(q, x) < Place(q, y)
    OBVIOUS
  <2>1. Place(o, x) < Place(o, y) <=> Place(p, x) < Place(p, y)
    BY <1>1 DEF Progress
  <2>2. Other(x, y, i, j)
    BY <1>7 DEF Other
  <2> QED  BY <1>6, <2>1, <2>2
<1>10. q[At(o, n + 1, up)] \notin S
  BY <1>5, <1>7 DEF a, j
<1>11. ~(\A m \in 1..(n + 1) : o[At(o, m, up)] \in S)
  BY <1>1
<1>12. \A k \in 1..(n + 1) :
         o[At(o, k, up)] \in S
         => Place(q, o[At(o, k, up)])
               = IF \A m \in 1..(k - 1) : o[At(o, m, up)] \in S
                 THEN At(o, k, up) ELSE At(o, k - 1, up)
  <2> SUFFICES ASSUME NEW k \in 1..(n + 1), o[At(o, k, up)] \in S
               PROVE  Place(q, o[At(o, k, up)])
                         = IF \A m \in 1..(k - 1) : o[At(o, m, up)] \in S
                           THEN At(o, k, up) ELSE At(o, k - 1, up)
    OBVIOUS
  <2>1. CASE k = n + 1
    <3>1. k - 1 = n
      BY <1>1, <2>1
    <3>2. o[At(o, k, up)] = i
      BY <1>3, <2>1 DEF a
    <3> QED  BY <1>6, <3>1, <3>2 DEF b
  <2>2. CASE k # n + 1
    <3>1. k \in 1..n /\ k \in 1..N
      BY <1>1, <2>2
    <3>2. o[At(o, k, up)] \in A
      BY <1>2, <3>1 DEF Orders, N
    <3>3. o[At(o, k, up)] # i
      <4>1. At(o, k, up) # a
        BY <1>1, <1>2, <2>2, <3>1 DEF a
      <4> QED  BY <1>2, <1>3, <3>1, <4>1 DEF Orders, N
    <3>4. Place(q, o[At(o, k, up)]) = Place(p, o[At(o, k, up)])
      BY <1>6, <1>7, <3>2, <3>3
    <3> QED  BY <3>1, <3>4 DEF Progress
  <2> QED  BY <2>1, <2>2
<1>13. n + 1 >= 1 /\ n + 1 + 1 = n + 2
  BY <1>1
<1> QED  BY <1>1, <1>6, <1>8, <1>9, <1>10, <1>11, <1>12, <1>13 DEF Progress

\* One round of the loop of moveItems.
LEMMA ProgressRound ==
    ASSUME NEW A, IsFiniteSet(A), NEW o, Orders(o, A), NEW S, NEW up \in BOOLEAN,
           NEW n \in 0..(Cardinality(A) - 1), NEW p, Progress(o, p, n, S, up)
    PROVE  Progress(o, OneRound(o, p, n + 1, S, up), n + 1, S, up)
<1> DEFINE N == Cardinality(A)
           a == At(o, n + 1, up)
           b == At(o, n, up)
           i == Turn(o, n + 1, up)
<1>1. N \in Nat /\ Len(o) = N /\ ToSet(o) = A /\ n \in 0..(N - 1)
  BY OrderFacts
<1>2. CASE i \notin S
  BY <1>2, ProgressStay DEF OneRound
<1>3. CASE i \in S
  <2>1. OneRound(o, p, n + 1, S, up) = Swapped(p, i, S, up)
    BY <1>3 DEF OneRound
  <2>2. Orders(p, A) /\ Len(p) = N
    <3>1. Orders(p, A)
      BY <1>1 DEF Progress
    <3> QED  BY <3>1, OrderFacts
  <2>3. a \in 1..N /\ i = p[a] /\ i \in A
    <3>1. a \in 1..N
      BY <1>1 DEF At
    <3>2. i = o[a]
      BY DEF Turn, At
    <3>3. o[a] = p[a]
      BY <1>1 DEF Progress
    <3> QED  BY <3>1, <3>2, <3>3 DEF Orders
  <2>4. Place(p, i) = a
    BY <2>2, <2>3, PlaceFacts
  <2>5. (IF up THEN a - 1 ELSE a + 1) = b
    BY <1>1 DEF At
  <2>6. b \in 1..N <=> n >= 1
    BY <1>1 DEF At
  <2>7. Swapped(p, i, S, up) = IF b \in 1..N /\ p[b] \notin S
                               THEN [p EXCEPT ![a] = p[b], ![b] = i] ELSE p
    <3> HIDE DEF a, b, i, N
    <3> QED  BY <2>2, <2>4, <2>5 DEF Swapped
  <2>8. CASE \A m \in 1..n : o[At(o, m, up)] \in S
    <3>1. Progress(o, p, n + 1, S, up)
      BY <2>8, ProgressStay
    <3>2. ~(b \in 1..N /\ p[b] \notin S)
      <4>1. p = o
        BY <2>8 DEF Progress
      <4>2. n >= 1 => o[b] \in S
        BY <1>1, <2>8
      <4> QED  BY <2>6, <4>1, <4>2
    <3> HIDE DEF a, b, i, N
    <3> QED  BY <2>1, <2>7, <3>1, <3>2
  <2>9. CASE ~(\A m \in 1..n : o[At(o, m, up)] \in S)
    <3>1. n >= 1 /\ p[b] \notin S
      BY <2>9 DEF Progress
    <3> DEFINE q == [p EXCEPT ![a] = p[b], ![b] = i]
    <3>2. /\ q \in [1..N -> A] /\ q[a] = p[b] /\ q[b] = p[a]
          /\ \A k \in 1..N : k # a /\ k # b => q[k] = p[k]
      <4>1. p \in [1..N -> A] /\ b \in 1..N /\ p[b] \in A
        BY <2>2, <2>6, <3>1 DEF Orders
      <4>2. a # b
        BY <1>1 DEF At
      <4> HIDE DEF a, b, i, N
      <4> QED  BY <2>3, <4>1, <4>2
    <3> HIDE DEF q
    <3>3. Swap(p, q, a, b, A)
      BY <1>1, <2>3, <2>6, <3>1, <3>2 DEF Swap, At
    <3>4. Progress(o, q, n + 1, S, up)
      BY <1>3, <2>9, <3>1, <3>3, ProgressSwap
    <3> USE DEF q
    <3> HIDE DEF a, b, i, N
    <3> QED  BY <2>1, <2>6, <2>7, <3>1, <3>4
  <2> QED  BY <2>8, <2>9
<1> QED  BY <1>2, <1>3

\* The recursion of the rounds is well defined.
LEMMA RoundsFacts ==
    ASSUME NEW o, Len(o) \in Nat, NEW S, NEW up
    PROVE  /\ Rounds(o, S, up)[0] = o
           /\ \A n \in 1..Len(o) : Rounds(o, S, up)[n]
                                      = OneRound(o, Rounds(o, S, up)[n - 1], n, S, up)
<1> DEFINE L == Len(o)
           Fits(f, m) == f = [n \in 0..m |-> IF n = 0 THEN o
                                             ELSE OneRound(o, f[n - 1], n, S, up)]
           without == {m \in 0..L : ~(\E f : Fits(f, m))}
<1> L \in Nat
  OBVIOUS
<1> HIDE DEF L
<1>1. ASSUME without # {}
      PROVE  FALSE
  <2>1. PICK m \in without : \A k \in without : m <= k
    <3>1. without \in SUBSET Nat
      OBVIOUS
    <3> HIDE DEF without
    <3> QED  BY <1>1, <3>1, Smallest
  <2>2. m \in 0..L /\ ~(\E f : Fits(f, m)) /\ \A k \in 0..L : k < m => \E f : Fits(f, k)
    <3> HIDE DEF Fits
    <3> QED  BY <2>1
  <2>3. CASE m = 0
    <3>1. Fits([n \in 0..0 |-> o], 0)
      OBVIOUS
    <3> QED  BY <2>2, <2>3, <3>1
  <2>4. CASE m # 0
    <3>1. m \in Nat /\ m - 1 \in 0..L /\ m - 1 < m
      BY <2>2, <2>4
    <3>2. PICK f : Fits(f, m - 1)
      <4> HIDE DEF Fits
      <4> QED  BY <2>2, <3>1
    <3> DEFINE g == [n \in 0..m |-> IF n = m THEN OneRound(o, f[m - 1], m, S, up)
                                    ELSE f[n]]
    <3>3. \A n \in 0..(m - 1) : f[n] = IF n = 0 THEN o
                                       ELSE OneRound(o, f[n - 1], n, S, up)
      BY <3>2
    <3>4. \A n \in 0..m : g[n] = IF n = 0 THEN o ELSE OneRound(o, g[n - 1], n, S, up)
      <4> SUFFICES ASSUME NEW n \in 0..m
                   PROVE  g[n] = IF n = 0 THEN o ELSE OneRound(o, g[n - 1], n, S, up)
        OBVIOUS
      <4>1. CASE n = 0
        BY <2>4, <3>1, <3>3, <4>1
      <4>2. CASE n # 0
        <5>1. n - 1 \in 0..m /\ n - 1 # m /\ g[n - 1] = f[n - 1]
          BY <3>1, <4>2
        <5>2. CASE n = m
          BY <4>2, <5>1, <5>2
        <5>3. CASE n # m
          <6>1. n \in 0..(m - 1) /\ g[n] = f[n]
            BY <3>1, <5>3
          <6> QED  BY <3>3, <4>2, <5>1, <6>1
        <5> QED  BY <5>2, <5>3
      <4> QED  BY <4>1, <4>2
    <3>5. g = [n \in 0..m |-> g[n]]
      OBVIOUS
    <3> HIDE DEF g
    <3>6. Fits(g, m)
      BY <3>4, <3>5
    <3> QED  BY <2>2, <3>6
  <2> QED  BY <2>3, <2>4
<1>2. \E f : Fits(f, L)
  <2>1. L \in 0..L
    OBVIOUS
  <2> HIDE DEF Fits
  <2> QED  BY <1>1, <2>1
<1>3. Rounds(o, S, up) = CHOOSE f : Fits(f, L)
  BY DEF Rounds, OneRound, L
<1>4. Fits(Rounds(o, S, up), L)
  <2> HIDE DEF Fits
  <2> QED  BY <1>2, <1>3
<1> QED  BY <1>4 DEF L

\* All the rounds together are the move that users are promised.
LEMMA MovedFacts ==
    ASSUME NEW A, IsFiniteSet(A), NEW o, Orders(o, A), NEW S \in SUBSET A,
           NEW up \in BOOLEAN
    PROVE  /\ Orders(Moved(o, S, up), A)
           /\ List!Moved(o, Moved(o, S, up), S, up)
<1> DEFINE N == Cardinality(A)
           r == Rounds(o, S, up)
           wrong == {n \in 0..N : ~Progress(o, r[n], n, S, up)}
           p == r[N]
<1>1. N \in Nat /\ Len(o) = N /\ ToSet(o) = A
  BY OrderFacts
<1> HIDE DEF N
<1>2. r[0] = o /\ \A n \in 1..N : r[n] = OneRound(o, r[n - 1], n, S, up)
  BY <1>1, RoundsFacts
<1> HIDE DEF r
<1>3. ASSUME wrong # {}
      PROVE  FALSE
  <2>1. PICK n \in wrong : \A m \in wrong : n <= m
    <3>1. wrong \in SUBSET Nat
      OBVIOUS
    <3> HIDE DEF wrong
    <3> QED  BY <1>3, <3>1, Smallest
  <2>2. /\ n \in 0..N /\ ~Progress(o, r[n], n, S, up)
        /\ \A m \in 0..N : m < n => Progress(o, r[m], m, S, up)
    BY <2>1
  <2>3. n # 0
    BY <1>1, <1>2, <2>2, ProgressStart
  <2>4. n - 1 \in 0..(N - 1) /\ n - 1 \in 0..N /\ n - 1 < n /\ n \in 1..N /\ n - 1 + 1 = n
    BY <1>1, <2>2, <2>3
  <2>5. Progress(o, r[n - 1], n - 1, S, up)
    BY <2>2, <2>4
  <2> DEFINE before == n - 1
  <2>6. before \in 0..(Cardinality(A) - 1) /\ Progress(o, r[before], before, S, up)
    BY <2>4, <2>5 DEF N
  <2> HIDE DEF before
  <2>7. Progress(o, OneRound(o, r[before], before + 1, S, up), before + 1, S, up)
    BY <2>6, ProgressRound
  <2>8. Progress(o, OneRound(o, r[n - 1], n, S, up), n, S, up)
    BY <2>4, <2>7 DEF before
  <2> QED  BY <1>2, <2>2, <2>4, <2>8
<1>4. Progress(o, p, N, S, up)
  <2>1. N \in 0..N
    BY <1>1
  <2> QED  BY <1>3, <2>1
<1>5. Moved(o, S, up) = p
  BY <1>1 DEF Moved, r
<1> HIDE DEF p
<1>6. Orders(p, A)
  BY <1>1, <1>4 DEF Progress
<1>7. /\ ToSet(p) = A
      /\ List!ToSet(o) = A /\ List!ToSet(p) = A
  <2>1. ToSet(p) = A
    BY <1>6, OrderFacts
  <2> QED  BY <1>1, <2>1 DEF List!ToSet, ToSet
<1>8. \A i \in A : /\ List!Place(o, i) = Place(o, i) /\ Place(o, i) \in 1..N
                   /\ o[Place(o, i)] = i
                   /\ List!Place(p, i) = Place(p, i) /\ Place(p, i) \in 1..N
  BY <1>6, PlaceFacts DEF N
<1>9. \A i, j \in A : (i \in S <=> j \in S)
                      => (Place(o, i) < Place(o, j) <=> Place(p, i) < Place(p, j))
  BY <1>1, <1>4 DEF Progress
<1>10. List!Keeps(o, p, S) /\ List!Keeps(o, p, A \ S)
  <2>1. List!Keeps(o, p, S)
    BY <1>8, <1>9 DEF List!Keeps
  <2>2. List!Keeps(o, p, A \ S)
    BY <1>8, <1>9 DEF List!Keeps
  <2> QED  BY <2>1, <2>2
<1>11. ASSUME NEW i \in S
       PROVE  List!Place(p, i)
                 = IF List!Beyond(o, i, up) \subseteq S THEN List!Place(o, i)
                   ELSE IF up THEN List!Place(o, i) - 1 ELSE List!Place(o, i) + 1
  <2> DEFINE k == IF up THEN Place(o, i) ELSE N + 1 - Place(o, i)
             all == \A m \in 1..(k - 1) : o[At(o, m, up)] \in S
  <2>1. i \in A /\ Place(o, i) \in 1..N /\ o[Place(o, i)] = i
    BY <1>8
  <2>2. k \in 1..N
    BY <1>1, <2>1
  <2>3. At(o, k, up) = Place(o, i)
    BY <1>1, <2>1 DEF At
  <2>4. At(o, k - 1, up) = IF up THEN Place(o, i) - 1 ELSE Place(o, i) + 1
    BY <1>1, <2>1 DEF At
  <2>5. Place(p, i) = IF all THEN At(o, k, up) ELSE At(o, k - 1, up)
    <3>1. o[At(o, k, up)] = i
      BY <2>1, <2>3
    <3> HIDE DEF k
    <3> QED  BY <1>4, <2>2, <3>1 DEF Progress
  <2>6. List!Beyond(o, i, up) \subseteq S <=> all
    <3>1. ASSUME all, NEW j \in List!Beyond(o, i, up)
          PROVE  j \in S
      <4>1. j \in A /\ IF up THEN Place(o, j) < Place(o, i) ELSE Place(o, i) < Place(o, j)
        BY <1>7, <1>8, <2>1 DEF List!Beyond
      <4> DEFINE m == IF up THEN Place(o, j) ELSE N + 1 - Place(o, j)
      <4>2. Place(o, j) \in 1..N /\ o[Place(o, j)] = j
        BY <1>8, <4>1
      <4>3. m \in 1..(k - 1)
        BY <1>1, <2>1, <4>1, <4>2
      <4>4. At(o, m, up) = Place(o, j)
        BY <1>1, <4>2 DEF At
      <4> HIDE DEF m, k
      <4> QED  BY <3>1, <4>2, <4>3, <4>4
    <3>2. ASSUME List!Beyond(o, i, up) \subseteq S, NEW m \in 1..(k - 1)
          PROVE  o[At(o, m, up)] \in S
      <4> DEFINE a == At(o, m, up)
      <4>1. a \in 1..N /\ IF up THEN a < Place(o, i) ELSE Place(o, i) < a
        BY <1>1, <2>1 DEF At
      <4> HIDE DEF a
      <4>2. o[a] \in A /\ Place(o, o[a]) = a
        BY <4>1, PlaceFacts DEF N
      <4>3. o[a] \in List!Beyond(o, i, up)
        BY <1>7, <1>8, <2>1, <4>1, <4>2 DEF List!Beyond
      <4> QED  BY <3>2, <4>3 DEF a
    <3> QED  BY <3>1, <3>2
  <2>7. List!Place(p, i) = Place(p, i) /\ List!Place(o, i) = Place(o, i)
    BY <1>8
  <2> HIDE DEF all, k
  <2> QED  BY <2>3, <2>4, <2>5, <2>6, <2>7
<1>12. List!Moved(o, p, S, up)
  BY <1>7, <1>10, <1>11 DEF List!Moved
<1> QED  BY <1>5, <1>6, <1>12

-----------------------------------------------------------------------------
(* The inductive invariant: who has a queue_order row, and which.           *)

\* Entries have ids of their own, none beyond the counter, which counts them.
Entries(e, last) ==
    /\ last \in Nat
    /\ e \in [ItemIds -> [id : 0..last, position : 0..Cardinality(ItemIds)]]
    /\ \A i \in ItemIds : e[i] # NoEntry => e[i].id # 0
    /\ \A i, j \in ItemIds : e[i] # NoEntry /\ e[i].id = e[j].id => i = j
    /\ last = Cardinality({i \in ItemIds : e[i] # NoEntry})

\* Only rows that predate the table lack an entry.
EntryOK ==
    /\ Entries(entry, lastEntry)
    /\ \A i \in Legacy : status[i] # "absent"
    /\ \A i \in ItemIds \ Legacy : status[i] = "absent" <=> entry[i] = NoEntry

IndInv ==
    /\ status \in [ItemIds -> EffectiveOrderStatuses \cup {"absent", "resolved"}]
    /\ request \in [items : SUBSET ItemIds, up : BOOLEAN]
    /\ EntryOK

\* A write that takes e to f: it gives an entry to the row in missing, if any,
\* and touches no id.
Grants(e, last, missing, f) ==
    /\ missing \in SUBSET ItemIds
    /\ \A i, j \in missing : i = j
    /\ f = [i \in ItemIds |-> f[i]]
    /\ \A i \in ItemIds : f[i] \in [id : Nat, position : 0..Cardinality(ItemIds)]
    /\ \A i \in missing : e[i] = NoEntry /\ f[i].id = last + 1
    /\ \A i \in ItemIds \ missing :
          f[i].id = e[i].id /\ (e[i] = NoEntry => f[i] = NoEntry)

LEMMA Granted ==
    ASSUME NEW e, NEW last, Entries(e, last), NEW missing, NEW f,
           Grants(e, last, missing, f)
    PROVE  /\ Entries(f, last + Cardinality(missing))
           /\ \A i \in ItemIds : f[i] = NoEntry <=> e[i] = NoEntry /\ i \notin missing
<1> DEFINE given(g) == {i \in ItemIds : g[i] # NoEntry}
           new == Cardinality(missing)
<1> /\ missing \in SUBSET ItemIds
    /\ \A i, j \in missing : i = j
    /\ \A i \in ItemIds : f[i] \in [id : Nat, position : 0..Cardinality(ItemIds)]
    /\ \A i \in missing : e[i] = NoEntry /\ f[i].id = last + 1
    /\ \A i \in ItemIds \ missing :
          f[i].id = e[i].id /\ (e[i] = NoEntry => f[i] = NoEntry)
  BY DEF Grants
<1>1. last \in Nat /\ \A i \in ItemIds : e[i].id \in 0..last
  BY DEF Entries
<1>2. /\ missing = {} => new = 0
      /\ missing # {} => new = 1
  <2>1. missing = {} => new = 0
    BY FS_EmptySet
  <2>2. ASSUME missing # {}
        PROVE  new = 1
    <3>1. PICK i \in missing : TRUE
      BY <2>2
    <3>2. missing = {i}
      BY <3>1
    <3> QED  BY <3>2, FS_Singleton
  <2> QED  BY <2>1, <2>2
<1>3. \A i \in missing : f[i] # NoEntry
  BY <1>1 DEF NoEntry
<1>4. \A i \in ItemIds \ missing : f[i] = NoEntry <=> e[i] = NoEntry
  <2> SUFFICES ASSUME NEW i \in ItemIds \ missing, e[i] # NoEntry
               PROVE  f[i] # NoEntry
    OBVIOUS
  <2>1. e[i].id # 0
    BY DEF Entries
  <2>2. f[i].id # 0
    BY <2>1
  <2> QED  BY <2>2 DEF NoEntry
<1>5. \A i \in ItemIds : f[i] = NoEntry <=> e[i] = NoEntry /\ i \notin missing
  BY <1>3, <1>4
<1>6. given(f) = given(e) \cup missing
  BY <1>5
<1>7. Cardinality(given(f)) = last + new
  <2>1. last = Cardinality(given(e))
    BY DEF Entries
  <2>2. given(e) \subseteq ItemIds
    OBVIOUS
  <2>3. missing \cap given(e) = {}
    OBVIOUS
  <2> HIDE DEF given
  <2>4. IsFiniteSet(given(e))
    BY <2>2, FS_Subset, OrderAssumption
  <2>5. CASE missing = {}
    BY <1>1, <1>2, <1>6, <2>1, <2>5
  <2>6. CASE missing # {}
    <3>0. PICK i \in missing : TRUE
      BY <2>6
    <3>1. missing = {i}
      BY <3>0
    <3>2. i \notin given(e)
      BY <2>3, <3>1
    <3>3. Cardinality(given(e) \cup {i}) = Cardinality(given(e)) + 1
      BY <2>4, <3>2, FS_AddElement
    <3> QED  BY <1>2, <1>6, <2>1, <2>6, <3>1, <3>3
  <2> QED  BY <2>5, <2>6
<1> new \in Nat /\ last + new \in Nat
  BY <1>1, <1>2
<1> HIDE DEF new
<1>8. \A i \in ItemIds : f[i].id \in 0..(last + new)
  BY <1>1, <1>2
<1>9. f \in [ItemIds -> [id : 0..(last + new), position : 0..Cardinality(ItemIds)]]
  <2>1. \A i \in ItemIds : f[i] \in [id : 0..(last + new), position : 0..Cardinality(ItemIds)]
    <3> SUFFICES ASSUME NEW i \in ItemIds
                 PROVE  f[i] \in [id : 0..(last + new), position : 0..Cardinality(ItemIds)]
      OBVIOUS
    <3>1. f[i] \in [id : Nat, position : 0..Cardinality(ItemIds)] /\ f[i].id \in 0..(last + new)
      BY <1>8
    <3> QED  BY <3>1
  <2> QED  BY <2>1 DEF Grants
<1>10. \A i \in ItemIds : f[i] # NoEntry => f[i].id # 0
  <2> SUFFICES ASSUME NEW i \in ItemIds, f[i] # NoEntry
               PROVE  f[i].id # 0
    OBVIOUS
  <2>1. CASE i \in missing
    BY <1>1, <2>1
  <2>2. CASE i \notin missing
    BY <1>5, <2>2 DEF Entries
  <2> QED  BY <2>1, <2>2
<1>11. \A i, j \in ItemIds : f[i] # NoEntry /\ f[i].id = f[j].id => i = j
  <2> SUFFICES ASSUME NEW i \in ItemIds, NEW j \in ItemIds,
                      f[i] # NoEntry, f[i].id = f[j].id
               PROVE  i = j
    OBVIOUS
  <2>1. CASE i \in missing /\ j \in missing
    <3>1. \A x, y \in missing : x = y
      BY DEF Grants
    <3> QED  BY ONLY <2>1, <3>1
  <2>2. CASE i \in missing /\ j \notin missing
    <3>1. f[j].id = e[j].id /\ f[i].id = last + 1
      BY <2>2
    <3> QED  BY <1>1, <3>1
  <2>3. CASE i \notin missing /\ j \in missing
    <3>1. f[i].id = e[i].id /\ f[j].id = last + 1
      BY <2>3
    <3>2. e[i].id \in 0..last /\ last \in Nat
      BY <1>1
    <3>3. e[i].id = last + 1
      BY <3>1
    <3> QED  BY ONLY <3>2, <3>3
  <2>4. CASE i \notin missing /\ j \notin missing
    <3>1. e[i] # NoEntry /\ e[i].id = e[j].id
      BY <1>5, <2>4
    <3> QED  BY <3>1 DEF Entries
  <2> QED  BY <2>1, <2>2, <2>3, <2>4
<1> QED  BY <1>5, <1>7, <1>9, <1>10, <1>11 DEF Entries, new

\* Between two items that are in the order, entries decide.
LEMMA ActiveFacts ==
    ASSUME IndInv
    PROVE  /\ Active \in SUBSET ItemIds /\ IsFiniteSet(Active)
           /\ Active \subseteq Rows
           /\ Cardinality(Active) \in Nat /\ Cardinality(ItemIds) \in Nat
           /\ Cardinality(Active) <= Cardinality(ItemIds)
           /\ \A i \in Rows \ Legacy : entry[i] # NoEntry
           /\ Distinct(entry, Active)
<1>1. Active \in SUBSET ItemIds /\ Active \subseteq Rows
  BY DEF Active, Rows, EffectiveOrderStatuses
<1>2. /\ IsFiniteSet(Active) /\ Cardinality(Active) <= Cardinality(ItemIds)
      /\ Cardinality(Active) \in Nat /\ Cardinality(ItemIds) \in Nat
  BY <1>1, FS_Subset, FS_CardinalityType, OrderAssumption
<1>3. \A i \in Rows \ Legacy : entry[i] # NoEntry
  BY DEF IndInv, EntryOK, Rows
<1>4. \A i \in Active : entry[i].id \in Nat /\ entry[i].position \in Nat
  <2> SUFFICES ASSUME NEW i \in Active
               PROVE  entry[i].id \in Nat /\ entry[i].position \in Nat
    OBVIOUS
  <2>1. entry[i] \in [id : 0..lastEntry, position : 0..Cardinality(ItemIds)]
    BY <1>1 DEF IndInv, EntryOK, Entries
  <2> QED  BY <1>2, <2>1 DEF IndInv, EntryOK, Entries
<1>5. \A i, j \in Active : i # j => entry[i].id # entry[j].id
  <2> SUFFICES ASSUME NEW i \in Active, NEW j \in Active, i # j,
                      entry[i].id = entry[j].id
               PROVE  FALSE
    OBVIOUS
  <2>1. entry[i] = NoEntry /\ entry[j] = NoEntry
    BY <1>1 DEF IndInv, EntryOK, Entries
  <2>2. i \in Legacy /\ j \in Legacy
    BY <1>1, <1>3, <2>1
  <2> QED  BY <2>2, OrderAssumption
<1> QED  BY <1>1, <1>2, <1>3, <1>4, <1>5 DEF Distinct

\* A row that joins the order, or stays in it, gets an entry if it has none.
LEMMA CreateFacts ==
    ASSUME IndInv, NEW i \in ItemIds, CreateEntries({i}),
           status' \in [ItemIds -> EffectiveOrderStatuses \cup {"absent", "resolved"}],
           \A x \in ItemIds : x # i => (status'[x] = "absent" <=> status[x] = "absent"),
           status'[i] # "absent", UNCHANGED request
    PROVE  /\ IndInv'
           /\ \A x \in ItemIds : x # i => entry'[x] = entry[x]
           /\ entry[i] # NoEntry => entry' = entry
           /\ entry[i] = NoEntry => entry'[i] = [id |-> lastEntry + 1, position |-> Unplaced]
<1> DEFINE missing == {x \in {i} : entry[x] = NoEntry}
<1>1. /\ entry' = [x \in ItemIds |-> IF x \in missing
                                     THEN [id |-> lastEntry + 1, position |-> Unplaced]
                                     ELSE entry[x]]
      /\ lastEntry' = lastEntry + Cardinality(missing)
  BY DEF CreateEntries
<1>2. /\ missing \in SUBSET ItemIds /\ (\A x, y \in missing : x = y)
      /\ \A x \in missing : entry[x] = NoEntry
  OBVIOUS
<1>3. Entries(entry, lastEntry)
  BY DEF IndInv, EntryOK
<1>4. lastEntry \in Nat /\ entry \in [ItemIds -> [id : 0..lastEntry, position : 0..Cardinality(ItemIds)]]
  BY <1>3 DEF Entries
<1>5. /\ \A x \in ItemIds : x # i => entry'[x] = entry[x]
      /\ entry[i] = NoEntry => entry'[i] = [id |-> lastEntry + 1, position |-> Unplaced]
  BY <1>1
<1>6. entry[i] # NoEntry => entry' = entry
  BY <1>1, <1>4
<1>7. \A x \in ItemIds : entry'[x] \in [id : Nat, position : 0..Cardinality(ItemIds)]
  <2> SUFFICES ASSUME NEW x \in ItemIds
               PROVE  entry'[x] \in [id : Nat, position : 0..Cardinality(ItemIds)]
    OBVIOUS
  <2>1. CASE x \in missing
    BY <1>1, <1>4, <2>1, ActiveFacts DEF Unplaced
  <2>2. CASE x \notin missing
    BY <1>1, <1>4, <2>2
  <2> QED  BY <2>1, <2>2
<1>8. /\ \A x \in missing : entry'[x].id = lastEntry + 1
      /\ \A x \in ItemIds \ missing : entry'[x] = entry[x]
      /\ DOMAIN entry' = ItemIds /\ entry' = [x \in ItemIds |-> entry'[x]]
  BY <1>1
<1> DEFINE f == entry'
           e == entry
           last == lastEntry
<1> HIDE DEF missing, f, e, last
<1>9. /\ Entries(f, last + Cardinality(missing))
      /\ \A x \in ItemIds : f[x] = NoEntry <=> e[x] = NoEntry /\ x \notin missing
  <2>1. Entries(e, last)
    BY <1>3 DEF e, last
  <2>2. Grants(e, last, missing, f)
    BY <1>2, <1>7, <1>8 DEF Grants, e, f, last
  <2> QED  BY <2>1, <2>2, Granted
<1>10. Entries(entry', lastEntry')
  BY <1>1, <1>9 DEF f, last, missing
<1>11. \A x \in ItemIds : entry'[x] = NoEntry <=> entry[x] = NoEntry /\ x # i
  BY <1>9 DEF f, e, missing
<1>12. EntryOK'
  BY <1>10, <1>11, OrderAssumption DEF IndInv, EntryOK
<1>13. IndInv'
  BY <1>12 DEF IndInv
<1> QED  BY <1>5, <1>6, <1>13

\* A list written back is the list read afterwards.
LEMMA Normalized ==
    ASSUME IndInv, NEW w, Orders(w, Active), NormalizePositionsToOrder(w),
           UNCHANGED status, request' \in [items : SUBSET ItemIds, up : BOOLEAN]
    PROVE  IndInv' /\ EffectiveOrder' = w
<1> DEFINE missing == {x \in Active : entry[x] = NoEntry}
<1>1. /\ Active \in SUBSET ItemIds /\ IsFiniteSet(Active)
      /\ Cardinality(Active) <= Cardinality(ItemIds)
      /\ Cardinality(Active) \in Nat /\ Cardinality(ItemIds) \in Nat
  BY ActiveFacts
<1>2. ToSet(w) = Active
  BY <1>1, OrderFacts
<1>3. /\ entry' = [x \in ItemIds |->
                     IF x \notin Active THEN entry[x]
                     ELSE [id |-> IF x \in missing THEN lastEntry + 1 ELSE entry[x].id,
                           position |-> Place(w, x)]]
      /\ lastEntry' = lastEntry + Cardinality(missing)
  BY <1>2 DEF NormalizePositionsToOrder, NewPosition
<1>4. /\ missing \in SUBSET ItemIds
      /\ \A x \in missing : entry[x] = NoEntry /\ x \in Legacy
      /\ \A x \in Active \ missing : entry[x] # NoEntry
  BY <1>1, ActiveFacts DEF Active, Rows
<1>5. \A x, y \in missing : x = y
  BY <1>4, OrderAssumption
<1>6. \A x \in Active : Place(w, x) \in 1..Cardinality(Active)
  BY <1>1, PlaceFacts
<1>7. Entries(entry, lastEntry)
  BY DEF IndInv, EntryOK
<1>8. lastEntry \in Nat /\ entry \in [ItemIds -> [id : 0..lastEntry, position : 0..Cardinality(ItemIds)]]
  BY <1>7 DEF Entries
<1> HIDE DEF missing
<1>9. \A x \in ItemIds : entry'[x] \in [id : Nat, position : 0..Cardinality(ItemIds)]
  <2> SUFFICES ASSUME NEW x \in ItemIds
               PROVE  entry'[x] \in [id : Nat, position : 0..Cardinality(ItemIds)]
    OBVIOUS
  <2>1. CASE x \notin Active
    BY <1>3, <1>8, <2>1
  <2>2. CASE x \in Active
    <3>1. entry'[x] = [id |-> IF x \in missing THEN lastEntry + 1 ELSE entry[x].id,
                       position |-> Place(w, x)]
      BY <1>3, <2>2
    <3>2. Place(w, x) \in 0..Cardinality(ItemIds)
      BY <1>1, <1>6, <2>2
    <3>3. entry[x].id \in Nat /\ lastEntry + 1 \in Nat
      BY <1>8
    <3> QED  BY <3>1, <3>2, <3>3
  <2> QED  BY <2>1, <2>2
<1>10. Grants(entry, lastEntry, missing, entry')
  <2>1. entry' = [x \in ItemIds |-> entry'[x]]
    BY <1>3
  <2>2. \A x \in missing : x \in Active
    BY DEF missing
  <2>3. \A x \in missing : entry'[x].id = lastEntry + 1
    BY <1>3, <1>4, <2>2
  <2>4. ASSUME NEW x \in ItemIds \ missing
        PROVE  entry'[x].id = entry[x].id /\ (entry[x] = NoEntry => entry'[x] = NoEntry)
    BY <1>3, <1>4
  <2> QED  BY <1>4, <1>5, <1>9, <2>1, <2>3, <2>4 DEF Grants
<1>11. /\ Entries(entry', lastEntry')
       /\ \A x \in ItemIds : entry'[x] = NoEntry <=> entry[x] = NoEntry /\ x \notin missing
  <2> DEFINE f == entry'
             e == entry
             last == lastEntry
  <2>1. Entries(e, last) /\ Grants(e, last, missing, f)
    BY <1>7, <1>10
  <2> HIDE DEF e, f, last
  <2>2. /\ Entries(f, last + Cardinality(missing))
        /\ \A x \in ItemIds : f[x] = NoEntry <=> e[x] = NoEntry /\ x \notin missing
    BY <2>1, Granted
  <2> QED  BY <1>3, <2>2 DEF e, f, last
<1>12. IndInv'
  BY <1>4, <1>11 DEF IndInv, EntryOK
<1>13. Active' = Active
  BY DEF Active
<1>14. Distinct(entry', Active)
  <2>1. IndInv' => Distinct(entry, Active)'
    BY ActiveFacts, PTL
  <2> QED  BY <1>12, <1>13, <2>1 DEF Distinct
<1>15. \A x, y \in Active : Precedes(entry'[x], entry'[y]) <=> Place(w, x) < Place(w, y)
  <2> SUFFICES ASSUME NEW x \in Active, NEW y \in Active
               PROVE  Precedes(entry'[x], entry'[y]) <=> Place(w, x) < Place(w, y)
    OBVIOUS
  <2>1. entry'[x].position = Place(w, x) /\ entry'[y].position = Place(w, y)
    BY <1>1, <1>3
  <2>2. Place(w, x) \in Nat \ {0} /\ Place(w, y) \in Nat \ {0}
    BY <1>6
  <2>3. CASE x = y
    BY <1>14, <2>2, <2>3, StrictOrder
  <2>4. CASE x # y
    <3>1. Place(w, x) # Place(w, y)
      BY <1>1, <2>4, PlaceFacts
    <3> QED  BY <2>1, <2>2, <3>1 DEF Precedes, Unplaced
  <2> QED  BY <2>3, <2>4
<1>16. EffectiveOrder' = SortedBy(entry', Active)
  BY <1>13 DEF EffectiveOrder, SortedBy, Before
<1>17. SortedBy(entry', Active) = w
  <2> DEFINE e == entry'
             o == SortedBy(e, Active)
  <2>1. /\ Orders(o, Active)
        /\ \A x, y \in Active : Place(o, x) < Place(o, y) <=> Precedes(e[x], e[y])
    BY <1>1, <1>14, SortedFacts
  <2> HIDE DEF o
  <2>2. \A x, y \in Active : Place(o, x) < Place(o, y) <=> Place(w, x) < Place(w, y)
    BY <1>15, <2>1
  <2>3. o = w
    BY <1>1, <2>1, <2>2, SameOrder
  <2> QED  BY <2>3 DEF o
<1> QED  BY <1>12, <1>16, <1>17

LEMMA InitInv == Init => IndInv
<1> SUFFICES ASSUME Init PROVE IndInv
  OBVIOUS
<1>1. Cardinality(ItemIds) \in Nat
  BY OrderAssumption, FS_CardinalityType
<1>2. {i \in ItemIds : entry[i] # NoEntry} = {}
  BY DEF Init
<1>3. 0 = Cardinality({i \in ItemIds : entry[i] # NoEntry})
  BY <1>2, FS_EmptySet
<1>4. NoEntry \in [id : 0..0, position : 0..Cardinality(ItemIds)] /\ NoEntry.id = 0
  BY <1>1 DEF NoEntry, Unplaced
<1>5. entry \in [ItemIds -> [id : 0..0, position : 0..Cardinality(ItemIds)]]
  BY <1>4 DEF Init
<1>6. Entries(entry, lastEntry)
  BY <1>3, <1>5 DEF Init, Entries
<1>7. request \in [items : SUBSET ItemIds, up : BOOLEAN]
  BY DEF Init, NoRequest
<1>8. PICK s \in EffectiveOrderStatuses \cup {"resolved"} :
         status = [i \in ItemIds |-> IF i \in Legacy THEN s ELSE "absent"]
  BY DEF Init
<1>9. s # "absent"
  BY DEF EffectiveOrderStatuses
<1>10. EntryOK
  BY <1>6, <1>8, <1>9, OrderAssumption DEF EntryOK, Init
<1> QED  BY <1>7, <1>8, <1>10 DEF IndInv

\* What the list gets from a table the invariant holds of.
Listed(o, A, e) ==
    /\ Orders(o, A)
    /\ List!ToSet(o) = A
    /\ List!IsList(o)
    /\ Len(o) = Cardinality(A) /\ Cardinality(A) \in Nat
    /\ \A i \in A : List!Place(o, i) \in 1..Cardinality(A) /\ o[List!Place(o, i)] = i
    /\ \A i \in A : List!Place(o, i) = Place(o, i)
    /\ \A i, j \in A : List!Place(o, i) < List!Place(o, j) <=> Precedes(e[i], e[j])

LEMMA Read == IndInv => Listed(EffectiveOrder, Active, entry)
<1> SUFFICES ASSUME IndInv PROVE Listed(EffectiveOrder, Active, entry)
  OBVIOUS
<1> DEFINE o == EffectiveOrder
<1>1. IsFiniteSet(Active) /\ Distinct(entry, Active)
  BY ActiveFacts
<1>2. o = SortedBy(entry, Active)
  BY DEF EffectiveOrder, SortedBy, Before
<1>3. /\ Orders(o, Active)
      /\ \A i, j \in Active : Place(o, i) < Place(o, j) <=> Precedes(entry[i], entry[j])
  BY <1>1, <1>2, SortedFacts
<1> HIDE DEF o
<1>4. /\ Cardinality(Active) \in Nat /\ Len(o) = Cardinality(Active)
      /\ ToSet(o) = Active /\ List!IsList(o)
  BY <1>1, <1>3, OrderFacts
<1>5. \A i \in Active : /\ Place(o, i) \in 1..Cardinality(Active)
                        /\ o[Place(o, i)] = i
                        /\ List!Place(o, i) = Place(o, i)
  BY <1>1, <1>3, PlaceFacts
<1>6. List!ToSet(o) = Active
  BY <1>4 DEF List!ToSet, ToSet
<1>7. Listed(o, Active, entry)
  BY <1>3, <1>4, <1>5, <1>6 DEF Listed
<1> QED  BY <1>7 DEF o

LEMMA ReadNext == IndInv' => Listed(EffectiveOrder', Active', entry')
<1>1. (IndInv => Listed(EffectiveOrder, Active, entry))'
  BY Read, PTL
<1> QED  BY <1>1 DEF Listed

-----------------------------------------------------------------------------
(* What each action does to the list.                                       *)

\* A step the list does not notice.
LEMMA ListStutters ==
    ASSUME IndInv, UNCHANGED <<entry, request>>, Active' = Active, Rows' = Rows
    PROVE  UNCHANGED <<EffectiveOrder, Rows, request>>
BY DEF EffectiveOrder, Before

LEMMA EnqueueStep ==
    ASSUME IndInv, NEW i \in ItemIds, Enqueue(i)
    PROVE  IndInv' /\ List!Next
<1> DEFINE old == EffectiveOrder
           new == EffectiveOrder'
           A == Active
           N == Cardinality(A)
<1>1. /\ A \in SUBSET ItemIds /\ IsFiniteSet(A) /\ A \subseteq Rows /\ i \notin A
      /\ i \notin Rows
  BY ActiveFacts DEF Enqueue, Active, Rows, EffectiveOrderStatuses
<1>2. /\ status' = [status EXCEPT ![i] = "pending"] /\ CreateEntries({i})
      /\ status[i] = "absent" /\ UNCHANGED request
      /\ status' \in [ItemIds -> EffectiveOrderStatuses \cup {"absent", "resolved"}]
      /\ status'[i] = "pending" /\ \A x \in ItemIds : x # i => status'[x] = status[x]
  BY DEF Enqueue, IndInv, EffectiveOrderStatuses
<1>3. entry[i] = NoEntry
  BY <1>2 DEF IndInv, EntryOK
<1>4. /\ IndInv'
      /\ \A x \in ItemIds : x # i => entry'[x] = entry[x]
      /\ entry'[i] = [id |-> lastEntry + 1, position |-> Unplaced]
  BY <1>2, <1>3, CreateFacts
<1>5. Active' = A \cup {i} /\ Rows' = Rows \cup {i}
  BY <1>1, <1>2 DEF Active, Rows, EffectiveOrderStatuses
<1>6. Listed(old, A, entry) /\ Listed(new, A \cup {i}, entry')
  BY <1>4, <1>5, Read, ReadNext
<1>7. \A x \in A : Precedes(entry'[x], entry'[i])
  <2> SUFFICES ASSUME NEW x \in A
               PROVE  Precedes(entry'[x], entry'[i])
    OBVIOUS
  <2>1. entry'[x] = entry[x]
    BY <1>1, <1>4
  <2>2. entry[x].id \in 0..lastEntry /\ lastEntry \in Nat
    BY <1>1 DEF IndInv, EntryOK, Entries
  <2> QED  BY <1>4, <2>1, <2>2 DEF Precedes, Unplaced
<1>8. new = Append(old, i)
  <2> DEFINE w == Append(old, i)
             B == A \cup {i}
  <2>1. IsFiniteSet(B) /\ Cardinality(B) = N + 1 /\ N \in Nat
    BY <1>1, FS_AddElement, FS_CardinalityType
  <2>2. Orders(old, A) /\ Orders(new, B)
    BY <1>6 DEF Listed
  <2> HIDE DEF A, B, old, new
  <2>3. old \in Seq(A) /\ Len(old) = N /\ old \in [1..N -> A]
    BY <1>1, <2>2, OrderFacts DEF Orders
  <2>4. /\ w \in [1..(N + 1) -> B]
        /\ \A k \in 1..(N + 1) : w[k] = IF k = N + 1 THEN i ELSE old[k]
    <3>1. old \in Seq(B) /\ i \in B
      BY <2>1, <2>3 DEF B
    <3>2. w \in Seq(B) /\ Len(w) = N + 1
      BY <2>1, <2>3, <3>1
    <3>3. \A k \in 1..(N + 1) : w[k] = IF k = N + 1 THEN i ELSE old[k]
      BY <2>1, <2>3, <3>1
    <3> HIDE DEF w
    <3> QED  BY <2>1, <3>2, <3>3
  <2> HIDE DEF w
  <2>5. /\ \A k \in 1..N : w[k] = old[k] /\ w[k] \in A /\ w[k] # i
        /\ w[N + 1] = i
    BY <1>1, <2>1, <2>3, <2>4
  <2> HIDE DEF N
  <2>6. Orders(w, B)
    <3>1. w \in [1..Cardinality(B) -> B]
      BY <2>1, <2>4
    <3>2. \A k, l \in 1..(N + 1) : w[k] = w[l] => k = l
      <4>1. \A k, l \in 1..N : old[k] = old[l] => k = l
        BY <2>2 DEF Orders, N
      <4> QED  BY <2>1, <2>5, <4>1
    <3>3. \A x \in B : \E k \in 1..(N + 1) : w[k] = x
      <4>1. \A x \in A : \E k \in 1..N : old[k] = x
        BY <2>2 DEF Orders, N
      <4>2. ASSUME NEW x \in A
            PROVE  \E k \in 1..(N + 1) : w[k] = x
        <5>1. PICK k \in 1..N : old[k] = x
          BY <4>1
        <5> QED  BY <2>1, <2>5, <5>1
      <4>3. N + 1 \in 1..(N + 1)
        BY <2>1
      <4> QED  BY <2>5, <4>2, <4>3 DEF B
    <3> QED  BY <2>1, <3>1, <3>2, <3>3 DEF Orders
  <2>7. Place(w, i) = N + 1 /\ \A x \in A : Place(w, x) = Place(old, x) /\ Place(old, x) \in 1..N
    <3>1. \A k \in 1..(N + 1), x \in B : w[k] = x => Place(w, x) = k
      BY <2>1, <2>6, PlaceFacts
    <3>2. \A x \in A : Place(old, x) \in 1..N /\ old[Place(old, x)] = x
      BY <1>1, <2>2, PlaceFacts DEF N
    <3>3. Place(w, i) = N + 1
      BY <2>1, <2>5, <3>1 DEF B
    <3>4. ASSUME NEW x \in A
          PROVE  Place(w, x) = Place(old, x)
      <4>1. w[Place(old, x)] = x /\ Place(old, x) \in 1..(N + 1)
        BY <2>1, <2>5, <3>2
      <4> QED  BY <3>1, <4>1 DEF B
    <3> QED  BY <3>2, <3>3, <3>4
  <2>8. \A x, y \in A : Place(old, x) < Place(old, y) <=> Place(new, x) < Place(new, y)
    <3>1. \A x, y \in A : Place(old, x) < Place(old, y) <=> Precedes(entry[x], entry[y])
      BY <1>6 DEF Listed
    <3>2. \A x, y \in A : Place(new, x) < Place(new, y) <=> Precedes(entry'[x], entry'[y])
      BY <1>6 DEF Listed
    <3>3. \A x \in A : entry'[x] = entry[x]
      BY <1>1, <1>4
    <3> QED  BY <3>1, <3>2, <3>3
  <2>9. \A x \in B : /\ Place(new, x) \in 1..(N + 1)
                    /\ \A y \in B : Place(new, x) < Place(new, y)
                                    <=> Precedes(entry'[x], entry'[y])
    <3>1. Listed(new, B, entry')
      BY <1>6 DEF B
    <3>2. \A x \in B : Place(new, x) \in 1..(N + 1)
      BY <2>1, <3>1 DEF Listed
    <3>3. \A x, y \in B : Place(new, x) < Place(new, y) <=> Precedes(entry'[x], entry'[y])
      BY <3>1 DEF Listed
    <3> QED  BY <3>2, <3>3
  <2>10. \A x \in A : Place(new, x) < Place(new, i) /\ ~(Place(new, i) < Place(new, x))
    BY <1>7, <2>1, <2>9 DEF B
  <2>11. \A x, y \in B : Place(new, x) < Place(new, y) <=> Place(w, x) < Place(w, y)
    <3> SUFFICES ASSUME NEW x \in B, NEW y \in B
                 PROVE  Place(new, x) < Place(new, y) <=> Place(w, x) < Place(w, y)
      OBVIOUS
    <3>1. CASE x \in A /\ y \in A
      BY <2>7, <2>8, <3>1
    <3>2. CASE x \in A /\ y = i
      BY <2>1, <2>7, <2>10, <3>2
    <3>3. CASE x = i /\ y \in A
      BY <2>1, <2>7, <2>10, <3>3
    <3>4. CASE x = i /\ y = i
      BY <2>1, <2>7, <2>9, <3>4
    <3> QED  BY <3>1, <3>2, <3>3, <3>4 DEF B
  <2>12. new = w
    BY <2>1, <2>2, <2>6, <2>11, SameOrder
  <2> QED  BY <2>12 DEF w
<1>9. List!Entered(old, new, i)
  BY <1>1, <1>8 DEF List!Entered
<1>10. Rows' = Rows \cup List!ToSet(new)
  BY <1>1, <1>5, <1>6 DEF Listed
<1>11. List!IsList(new)
  BY <1>6 DEF Listed
<1> QED  BY <1>2, <1>4, <1>9, <1>10, <1>11 DEF List!Next, List!ItemsChange

\* Items whose entries a step leaves alone stay in the order they are in.
LEMMA KeepsFacts ==
    ASSUME NEW old, NEW A, NEW e, Listed(old, A, e),
           NEW new, NEW B, NEW f, Listed(new, B, f),
           NEW S \in SUBSET (A \cap B), \A x \in S : f[x] = e[x]
    PROVE  List!Keeps(old, new, S)
<1>1. ASSUME NEW x \in S, NEW y \in S
      PROVE  List!Place(old, x) < List!Place(old, y) <=> List!Place(new, x) < List!Place(new, y)
  <2>1. List!Place(old, x) < List!Place(old, y) <=> Precedes(e[x], e[y])
    BY DEF Listed
  <2>2. List!Place(new, x) < List!Place(new, y) <=> Precedes(f[x], f[y])
    BY DEF Listed
  <2> QED  BY <2>1, <2>2
<1> QED  BY <1>1 DEF List!Keeps

LEMMA ReopenStep ==
    ASSUME IndInv, NEW i \in ItemIds, Reopen(i)
    PROVE  IndInv' /\ List!Next
<1> DEFINE old == EffectiveOrder
           new == EffectiveOrder'
           A == Active
<1>1. PICK replaced \in {{}} \cup {{r} : r \in {x \in ItemIds : status[x] = "retriggered"}} :
         status' = [x \in ItemIds |-> IF x = i THEN "pending"
                                     ELSE IF x \in replaced THEN "resolved"
                                     ELSE status[x]]
  BY DEF Reopen
<1>2. /\ status[i] = "resolved" /\ CreateEntries({i}) /\ UNCHANGED request
      /\ i \notin A /\ i \in Rows
  BY DEF Reopen, Active, Rows, EffectiveOrderStatuses
<1>3. \A x \in replaced : x \in ItemIds /\ status[x] = "retriggered"
  BY <1>1
<1>4. /\ status' \in [ItemIds -> EffectiveOrderStatuses \cup {"absent", "resolved"}]
      /\ status'[i] = "pending"
      /\ \A x \in ItemIds : x # i /\ x \notin replaced => status'[x] = status[x]
      /\ \A x \in ItemIds : x # i /\ x \in replaced => status'[x] = "resolved"
  BY <1>1 DEF IndInv, EffectiveOrderStatuses
<1>5. \A x \in ItemIds : x # i => (status'[x] = "absent" <=> status[x] = "absent")
  BY <1>3, <1>4
<1>6. IndInv' /\ \A x \in ItemIds : x # i => entry'[x] = entry[x]
  BY <1>2, <1>4, <1>5, CreateFacts
<1>7. Active' = (A \ replaced) \cup {i} /\ Rows' = Rows
  <2>1. \A x \in ItemIds : x \in Active' <=> x \in (A \ replaced) \cup {i}
    BY <1>2, <1>3, <1>4 DEF Active, EffectiveOrderStatuses
  <2>2. Active' \subseteq ItemIds /\ A \subseteq ItemIds
    BY DEF Active
  <2>3. Rows' = Rows
    BY <1>2, <1>4, <1>5 DEF Rows
  <2> QED  BY <2>1, <2>2, <2>3
<1>8. Listed(old, A, entry) /\ Listed(new, Active', entry')
  BY <1>6, Read, ReadNext
<1>9. A \subseteq ItemIds /\ A \subseteq Rows
  BY ActiveFacts
<1> HIDE DEF A, old, new
<1>10. List!Keeps(old, new, A \ replaced)
  <2>1. A \ replaced \in SUBSET (A \cap Active') /\ \A x \in A \ replaced : entry'[x] = entry[x]
    BY <1>2, <1>6, <1>7, <1>9
  <2> QED  BY <1>8, <2>1, KeepsFacts
<1>11. A \ replaced \in {A} \cup {A \ {j} : j \in A}
  <2>1. CASE replaced = {}
    BY <2>1
  <2>2. CASE replaced # {}
    <3>1. PICK r \in ItemIds : replaced = {r} /\ status[r] = "retriggered"
      BY <1>1, <2>2
    <3>2. r \in A
      BY <3>1 DEF A, Active, EffectiveOrderStatuses
    <3> QED  BY <3>1, <3>2
  <2> QED  BY <2>1, <2>2
<1>12. List!ToSet(old) = A /\ List!ToSet(new) = (A \ replaced) \cup {i} /\ List!IsList(new)
  BY <1>7, <1>8 DEF Listed
<1>13. List!Rejoined(old, new, i)
  BY <1>2, <1>10, <1>11, <1>12 DEF List!Rejoined
<1>14. Rows' = Rows \cup List!ToSet(new)
  BY <1>2, <1>7, <1>9, <1>12
<1> QED  BY <1>2, <1>6, <1>12, <1>13, <1>14 DEF List!Next, List!ItemsChange, old, new

LEMMA ReopenStaleStep ==
    ASSUME IndInv, NEW i \in ItemIds, ReopenStale(i)
    PROVE  IndInv' /\ [List!Next]_List!listVars
<1> DEFINE old == EffectiveOrder
           new == EffectiveOrder'
           A == Active
<1>1. /\ status[i] = "retriggered" /\ CreateEntries({i}) /\ UNCHANGED request
      /\ status' \in [ItemIds -> EffectiveOrderStatuses \cup {"absent", "resolved"}]
      /\ status'[i] = "pending" /\ \A x \in ItemIds : x # i => status'[x] = status[x]
  BY DEF ReopenStale, IndInv, EffectiveOrderStatuses
<1>2. Active' = A /\ Rows' = Rows /\ i \in A
  BY <1>1 DEF Active, Rows, EffectiveOrderStatuses
<1>3. /\ IndInv'
      /\ \A x \in ItemIds : x # i => entry'[x] = entry[x]
      /\ entry[i] # NoEntry => entry' = entry
      /\ entry[i] = NoEntry => entry'[i] = [id |-> lastEntry + 1, position |-> Unplaced]
  BY <1>1, CreateFacts
<1>4. CASE entry[i] # NoEntry
  <2>1. UNCHANGED <<EffectiveOrder, Rows, request>>
    BY <1>1, <1>2, <1>3, <1>4, ListStutters
  <2> QED  BY <1>3, <2>1 DEF List!listVars
<1>5. CASE entry[i] = NoEntry
  <2>1. Listed(old, A, entry) /\ Listed(new, A, entry') /\ A \subseteq ItemIds /\ A \subseteq Rows
    BY <1>2, <1>3, Read, ReadNext, ActiveFacts
  <2>2. i \in Legacy
    BY <1>1, <1>5 DEF IndInv, EntryOK
  <2> HIDE DEF A, old, new
  <2>3. List!Keeps(old, new, A \ {i})
    <3>1. A \ {i} \in SUBSET (A \cap A) /\ \A x \in A \ {i} : entry'[x] = entry[x]
      BY <1>3, <2>1
    <3> QED  BY <2>1, <3>1, KeepsFacts
  <2>4. \A x \in A : x # i => Precedes(entry'[x], entry'[i])
    <3> SUFFICES ASSUME NEW x \in A, x # i
                 PROVE  Precedes(entry'[x], entry'[i])
      OBVIOUS
    <3>1. entry'[x] = entry[x] /\ x \in ItemIds
      BY <1>3, <2>1
    <3>2. entry[x].id \in 0..lastEntry /\ lastEntry \in Nat
      BY <3>1 DEF IndInv, EntryOK, Entries
    <3> QED  BY <1>3, <1>5, <3>1, <3>2 DEF Precedes, Unplaced
  <2>5. i = List!Last(new)
    <3> DEFINE N == Cardinality(A)
               z == new[N]
    <3>1. N \in Nat /\ Len(new) = N /\ \A x \in A : List!Place(new, x) \in 1..N
      BY <2>1 DEF Listed
    <3>2. N \in 1..N
      BY <1>2, <3>1
    <3>3. z \in A /\ List!Place(new, z) = N
      <4>1. Orders(new, A) /\ \A x \in A : List!Place(new, x) = Place(new, x)
        BY <2>1 DEF Listed
      <4>2. IsFiniteSet(A)
        BY ActiveFacts DEF A
      <4>3. z \in A /\ Place(new, z) = N
        BY <3>2, <4>1, <4>2, PlaceFacts
      <4> QED  BY <4>1, <4>3
    <3> HIDE DEF z, N
    <3>4. ASSUME z # i
          PROVE  FALSE
      <4>1. List!Place(new, z) < List!Place(new, i)
        BY <1>2, <2>1, <2>4, <3>3, <3>4 DEF Listed
      <4>2. List!Place(new, i) \in 1..N
        BY <1>2, <3>1
      <4> QED  BY <3>1, <3>3, <4>1, <4>2
    <3> QED  BY <3>1, <3>4 DEF List!Last, z
  <2>6. List!ToSet(old) = A /\ List!ToSet(new) = A /\ List!IsList(new)
    BY <2>1 DEF Listed
  <2>7. List!Requeued(old, new, i)
    BY <2>3, <2>5, <2>6 DEF List!Requeued
  <2>8. Rows' = Rows \cup List!ToSet(new)
    BY <1>2, <2>1, <2>6
  <2>9. List!Next
    BY <1>1, <2>2, <2>6, <2>7, <2>8 DEF List!Next, List!ItemsChange, old, new
  <2> QED  BY <1>3, <2>9
<1> QED  BY <1>4, <1>5

LEMMA StatusStep ==
    ASSUME IndInv, NEW i \in ItemIds, Retrigger(i) \/ Resolve(i)
    PROVE  IndInv'
<1>1. /\ status' \in [ItemIds -> EffectiveOrderStatuses \cup {"absent", "resolved"}]
      /\ \A x \in ItemIds : status'[x] = "absent" <=> status[x] = "absent"
      /\ UNCHANGED <<entry, lastEntry, request>>
  <2>1. CASE Retrigger(i)
    BY <2>1 DEF IndInv, Retrigger, EffectiveOrderStatuses
  <2>2. CASE Resolve(i)
    BY <2>2 DEF IndInv, Resolve, Active, EffectiveOrderStatuses
  <2> QED  BY <2>1, <2>2
<1> QED  BY <1>1, OrderAssumption DEF IndInv, EntryOK

LEMMA RetriggerStep ==
    ASSUME IndInv, NEW i \in ItemIds, Retrigger(i)
    PROVE  UNCHANGED List!listVars
<1>1. Active' = Active /\ Rows' = Rows
  BY DEF Retrigger, IndInv, Active, Rows, EffectiveOrderStatuses
<1>2. UNCHANGED <<entry, request>>
  BY DEF Retrigger
<1>3. UNCHANGED <<EffectiveOrder, Rows, request>>
  BY <1>1, <1>2, ListStutters
<1> QED  BY <1>3 DEF List!listVars

LEMMA ResolveStep ==
    ASSUME IndInv, NEW i \in ItemIds, Resolve(i)
    PROVE  List!Next
<1> DEFINE old == EffectiveOrder
           new == EffectiveOrder'
           A == Active
<1>1. Active' = A \ {i} /\ Rows' = Rows /\ A \subseteq Rows
  BY DEF Resolve, IndInv, Active, Rows, EffectiveOrderStatuses
<1>2. UNCHANGED <<entry, lastEntry, request>>
  BY DEF Resolve
<1>3. Listed(old, A, entry) /\ Listed(new, A \ {i}, entry)
  BY <1>1, <1>2, StatusStep, Read, ReadNext
<1> HIDE DEF A, old, new
<1>4. List!Keeps(old, new, A \ {i})
  <2>1. A \ {i} \in SUBSET (A \cap (A \ {i})) /\ \A x \in A \ {i} : entry[x] = entry[x]
    OBVIOUS
  <2> QED  BY <1>3, <2>1, KeepsFacts
<1>5. List!ToSet(old) = A /\ List!ToSet(new) = A \ {i} /\ List!IsList(new)
  BY <1>3 DEF Listed
<1>6. List!Left(old, new, i)
  BY <1>4, <1>5 DEF List!Left
<1>7. Rows' = Rows \cup List!ToSet(new)
  BY <1>1, <1>5
<1> QED  BY <1>2, <1>5, <1>6, <1>7 DEF List!Next, List!ItemsChange, old, new

LEMMA RequestMoveStep ==
    ASSUME IndInv, RequestMove
    PROVE  IndInv' /\ List!Next
<1>1. PICK items \in SUBSET Active \ {{}}, up \in BOOLEAN :
         request' = [items |-> items, up |-> up]
  BY DEF RequestMove
<1>2. UNCHANGED <<status, entry, lastEntry>>
  BY DEF RequestMove
<1>3. request' \in [items : SUBSET ItemIds, up : BOOLEAN] /\ request'.items \subseteq Active
  BY <1>1, ActiveFacts
<1>4. IndInv'
  BY <1>2, <1>3 DEF IndInv, EntryOK
<1>5. UNCHANGED <<EffectiveOrder, Rows>>
  BY <1>2 DEF EffectiveOrder, Before, Active, Rows
<1>6. List!ToSet(EffectiveOrder) = Active /\ List!IsList(EffectiveOrder)
  BY Read DEF Listed
<1>7. List!IsList(EffectiveOrder')
  BY <1>5, <1>6
<1> QED  BY <1>3, <1>4, <1>5, <1>6, <1>7 DEF List!Next, List!Ask

\* Taken out and put in front, an item leaves the order of the others alone.
LEMMA TopFacts ==
    ASSUME NEW A, IsFiniteSet(A), NEW o, Orders(o, A), NEW i \in A
    PROVE  /\ Orders(<<i>> \o RemoveAt(o, Place(o, i)), A)
           /\ List!MovedToTop(o, <<i>> \o RemoveAt(o, Place(o, i)), i)
<1> DEFINE N == Cardinality(A)
           k == Place(o, i)
           rest == RemoveAt(o, k)
           w == <<i>> \o rest
<1>1. N \in Nat /\ o \in Seq(A) /\ Len(o) = N /\ k \in 1..N /\ o[k] = i
  BY OrderFacts, PlaceFacts
<1> HIDE DEF N, k
<1>2. /\ rest \in Seq(A) /\ Len(rest) = N - 1
      /\ \A m \in 1..(N - 1) : rest[m] = IF m < k THEN o[m] ELSE o[m + 1]
  <2>1. /\ SubSeq(o, 1, k - 1) \in Seq(A) /\ Len(SubSeq(o, 1, k - 1)) = k - 1
        /\ \A m \in 1..(k - 1) : SubSeq(o, 1, k - 1)[m] = o[m]
    BY <1>1
  <2>2. /\ SubSeq(o, k + 1, N) \in Seq(A) /\ Len(SubSeq(o, k + 1, N)) = N - k
        /\ \A m \in 1..(N - k) : SubSeq(o, k + 1, N)[m] = o[k + m]
    BY <1>1
  <2> DEFINE left == SubSeq(o, 1, k - 1)
             right == SubSeq(o, k + 1, N)
  <2>3. rest = left \o right
    BY <1>1 DEF RemoveAt
  <2> HIDE DEF left, right, rest
  <2>4. /\ left \in Seq(A) /\ Len(left) = k - 1 /\ \A m \in 1..(k - 1) : left[m] = o[m]
        /\ right \in Seq(A) /\ Len(right) = N - k /\ \A m \in 1..(N - k) : right[m] = o[k + m]
    BY <2>1, <2>2 DEF left, right
  <2>5. rest \in Seq(A) /\ Len(rest) = N - 1
    <3>1. rest \in Seq(A)
      BY <2>3, <2>4
    <3>2. Len(rest) = Len(left) + Len(right)
      BY <2>3, <2>4, ConcatProperties
    <3> QED  BY <1>1, <2>4, <3>1, <3>2
  <2>6. ASSUME NEW m \in 1..(N - 1)
        PROVE  rest[m] = IF m < k THEN o[m] ELSE o[m + 1]
    <3>1. CASE m < k
      BY <1>1, <2>3, <2>4, <3>1
    <3>2. CASE ~(m < k)
      <4>1. rest[m] = right[m - (k - 1)]
        BY <1>1, <2>3, <2>4, <3>2
      <4>2. m - (k - 1) \in 1..(N - k) /\ k + (m - (k - 1)) = m + 1
        BY <1>1, <3>2
      <4>3. right[m - (k - 1)] = o[k + (m - (k - 1))]
        BY <2>4, <4>2
      <4> QED  BY <3>2, <4>1, <4>2, <4>3
    <3> QED  BY <3>1, <3>2
  <2> QED  BY <2>5, <2>6
<1> HIDE DEF rest
<1>3. w \in Seq(A) /\ Len(w) = N /\ w[1] = i
  BY <1>1, <1>2
<1>4. \A m \in 2..N : w[m] = IF m <= k THEN o[m - 1] ELSE o[m]
  <2> SUFFICES ASSUME NEW m \in 2..N
               PROVE  w[m] = IF m <= k THEN o[m - 1] ELSE o[m]
    OBVIOUS
  <2>1. w[m] = rest[m - 1]
    BY <1>1, <1>2
  <2>2. m - 1 \in 1..(N - 1) /\ (m - 1 < k <=> m <= k) /\ m - 1 + 1 = m
    BY <1>1
  <2> QED  BY <1>2, <2>1, <2>2
<1> HIDE DEF w
<1>5. \A m, l \in 1..N : o[m] = o[l] => m = l
  BY DEF Orders, N
<1>6. \A m \in 2..N : w[m] # i
  <2> SUFFICES ASSUME NEW m \in 2..N, w[m] = i
               PROVE  FALSE
    OBVIOUS
  <2>1. CASE m <= k
    BY <1>1, <1>4, <1>5, <2>1
  <2>2. CASE ~(m <= k)
    BY <1>1, <1>4, <1>5, <2>2
  <2> QED  BY <2>1, <2>2
<1>7. ASSUME NEW m \in 2..N, NEW l \in 2..N, w[m] = w[l]
      PROVE  m = l
  <2>1. CASE m <= k /\ l <= k
    <3>1. o[m - 1] = o[l - 1] /\ m - 1 \in 1..N /\ l - 1 \in 1..N
      BY <1>1, <1>4, <1>7, <2>1
    <3>2. m - 1 = l - 1
      BY <1>5, <3>1
    <3> QED  BY <3>2
  <2>2. CASE m <= k /\ ~(l <= k)
    <3>1. o[m - 1] = o[l] /\ m - 1 \in 1..N /\ l \in 1..N
      BY <1>1, <1>4, <1>7, <2>2
    <3>2. m - 1 = l
      BY <1>5, <3>1
    <3> QED  BY <1>1, <2>2, <3>2
  <2>3. CASE ~(m <= k) /\ l <= k
    <3>1. o[m] = o[l - 1] /\ m \in 1..N /\ l - 1 \in 1..N
      BY <1>1, <1>4, <1>7, <2>3
    <3>2. m = l - 1
      BY <1>5, <3>1
    <3> QED  BY <1>1, <2>3, <3>2
  <2>4. CASE ~(m <= k) /\ ~(l <= k)
    <3>1. o[m] = o[l] /\ m \in 1..N /\ l \in 1..N
      BY <1>1, <1>4, <1>7, <2>4
    <3> QED  BY <1>5, <3>1
  <2> QED  BY <2>1, <2>2, <2>3, <2>4
<1>8. ASSUME NEW m \in 1..N, m # k
      PROVE  LET n == IF m < k THEN m + 1 ELSE m IN n \in 2..N /\ w[n] = o[m]
  <2>1. CASE m < k
    <3>1. m + 1 \in 2..N /\ m + 1 <= k /\ m + 1 - 1 = m
      BY <1>1, <2>1
    <3> QED  BY <1>4, <2>1, <3>1
  <2>2. CASE ~(m < k)
    <3>1. m \in 2..N /\ ~(m <= k)
      BY <1>1, <1>8, <2>2
    <3> QED  BY <1>4, <2>2, <3>1
  <2> QED  BY <2>1, <2>2
<1>9. Orders(w, A)
  <2>1. w \in [1..N -> A]
    BY <1>3
  <2>2. \A m, l \in 1..N : w[m] = w[l] => m = l
    <3> SUFFICES ASSUME NEW m \in 1..N, NEW l \in 1..N, w[m] = w[l]
                 PROVE  m = l
      OBVIOUS
    <3>1. m \in {1} \cup 2..N /\ l \in {1} \cup 2..N
      BY <1>1
    <3> QED  BY <1>3, <1>6, <1>7, <3>1
  <2>3. ASSUME NEW x \in A
        PROVE  \E m \in 1..N : w[m] = x
    <3>1. PICK m \in 1..N : o[m] = x
      BY DEF Orders, N
    <3>2. CASE m = k
      <4>1. w[1] = x /\ 1 \in 1..N
        BY <1>1, <1>3, <3>1, <3>2
      <4> QED  BY <4>1
    <3>3. CASE m # k
      <4>1. PICK n \in 2..N : w[n] = o[m]
        BY <1>8, <3>3
      <4>2. n \in 1..N
        BY <1>1
      <4> QED  BY <3>1, <4>1, <4>2
    <3> QED  BY <3>2, <3>3
  <2> QED  BY <2>1, <2>2, <2>3 DEF Orders, N
<1>10. \A x \in A : /\ List!Place(o, x) = Place(o, x) /\ Place(o, x) \in 1..N
                   /\ o[Place(o, x)] = x /\ List!Place(w, x) = Place(w, x)
  BY <1>9, PlaceFacts DEF N
<1>11. ASSUME NEW x \in A, x # i
       PROVE  Place(w, x) = IF Place(o, x) < k THEN Place(o, x) + 1 ELSE Place(o, x)
  <2> DEFINE m == Place(o, x)
             n == IF m < k THEN m + 1 ELSE m
  <2>1. m \in 1..N /\ o[m] = x /\ m # k
    BY <1>1, <1>10, <1>11
  <2>2. n \in 2..N /\ w[n] = x
    <3> HIDE DEF m
    <3> QED  BY <1>8, <2>1
  <2>3. n \in 1..Cardinality(A)
    BY <1>1, <2>2 DEF N
  <2> HIDE DEF n
  <2>4. Place(w, x) = n
    BY <1>9, <2>2, <2>3, PlaceFacts
  <2> QED  BY <2>4 DEF n
<1>12. List!Keeps(o, w, A \ {i})
  <2> SUFFICES ASSUME NEW x \in A \ {i}, NEW y \in A \ {i}
               PROVE  Place(o, x) < Place(o, y) <=> Place(w, x) < Place(w, y)
    BY <1>10 DEF List!Keeps
  <2>1. /\ Place(o, x) \in 1..N /\ Place(o, x) # k
        /\ Place(o, y) \in 1..N /\ Place(o, y) # k
    BY <1>1, <1>10
  <2>2. /\ Place(w, x) = IF Place(o, x) < k THEN Place(o, x) + 1 ELSE Place(o, x)
        /\ Place(w, y) = IF Place(o, y) < k THEN Place(o, y) + 1 ELSE Place(o, y)
    BY <1>11
  <2> QED  BY <1>1, <2>1, <2>2
<1>13. List!ToSet(o) = A /\ List!ToSet(w) = A
  <2>1. ToSet(o) = A /\ ToSet(w) = A
    BY <1>9, OrderFacts
  <2> QED  BY <2>1 DEF List!ToSet, ToSet
<1>14. List!MovedToTop(o, w, i)
  <2>1. i = Head(w)
    BY <1>3
  <2> QED  BY <1>12, <1>13, <2>1 DEF List!MovedToTop
<1> QED  BY <1>9, <1>14 DEF w, rest, k

LEMMA MoveToTopStep ==
    ASSUME IndInv, NEW i \in ItemIds, MoveToTop(i)
    PROVE  IndInv' /\ List!Next
<1> DEFINE w == <<i>> \o RemoveAt(EffectiveOrder, Place(EffectiveOrder, i))
<1>1. /\ i \in Active /\ NormalizePositionsToOrder(w) /\ UNCHANGED <<status, request>>
      /\ request' \in [items : SUBSET ItemIds, up : BOOLEAN]
  BY DEF MoveToTop, IndInv
<1>2. Orders(EffectiveOrder, Active) /\ IsFiniteSet(Active) /\ Active \subseteq Rows
  BY Read, ActiveFacts DEF Listed
<1>3. Orders(w, Active) /\ List!MovedToTop(EffectiveOrder, w, i)
  BY <1>1, <1>2, TopFacts
<1> HIDE DEF w
<1>4. IndInv' /\ EffectiveOrder' = w
  BY <1>1, <1>3, Normalized
<1>5. List!ToSet(w) = Active /\ List!IsList(w)
  <2>1. ToSet(w) = Active /\ List!IsList(w)
    BY <1>2, <1>3, OrderFacts
  <2> QED  BY <2>1 DEF List!ToSet, ToSet
<1>6. Rows' = Rows \cup List!ToSet(w)
  BY <1>1, <1>2, <1>5 DEF Rows
<1> QED  BY <1>1, <1>3, <1>4, <1>5, <1>6 DEF List!Next, List!ItemsChange

LEMMA MoveItemsStep ==
    ASSUME IndInv, MoveItems
    PROVE  IndInv' /\ List!Next
<1> DEFINE o == EffectiveOrder
           selected == request.items \cap Active
           w == Moved(o, selected, request.up)
<1>1. /\ request' = NoRequest /\ UNCHANGED status
      /\ IF selected = {} THEN UNCHANGED <<entry, lastEntry>>
         ELSE NormalizePositionsToOrder(w)
  BY DEF MoveItems
<1>2. /\ request' \in [items : SUBSET ItemIds, up : BOOLEAN] /\ request'.items = {}
      /\ request.up \in BOOLEAN /\ selected \in SUBSET Active
  BY <1>1 DEF NoRequest, IndInv
<1>3. /\ Orders(o, Active) /\ IsFiniteSet(Active)
      /\ List!ToSet(o) = Active /\ List!IsList(o)
  BY Read, ActiveFacts DEF Listed
<1>4. Rows' = Rows
  BY <1>1 DEF Rows
<1>5. CASE selected = {}
  <2>1. UNCHANGED <<entry, lastEntry>> /\ Active' = Active
    BY <1>1, <1>5 DEF Active
  <2>2. IndInv'
    BY <1>1, <1>2, <2>1 DEF IndInv, EntryOK
  <2>3. EffectiveOrder' = o
    BY <2>1 DEF EffectiveOrder, Before
  <2>4. List!Moved(o, o, selected, request.up)
    BY <1>3, <1>5 DEF List!Moved, List!Keeps
  <2> HIDE DEF o
  <2>5. List!Moved(o, EffectiveOrder', request.items \cap List!ToSet(o), request.up)
    BY <1>3, <2>3, <2>4
  <2> QED  BY <1>2, <1>3, <1>4, <2>2, <2>3, <2>5 DEF List!Next, List!Move, o
<1>6. CASE selected # {}
  <2>1. Orders(w, Active) /\ List!Moved(o, w, selected, request.up)
    <3> HIDE DEF o, selected
    <3> QED  BY <1>2, <1>3, MovedFacts
  <2> HIDE DEF w
  <2>2. IndInv' /\ EffectiveOrder' = w
    BY <1>1, <1>2, <1>6, <2>1, Normalized
  <2>3. List!IsList(w)
    BY <1>3, <2>1, OrderFacts
  <2> QED  BY <1>2, <1>3, <1>4, <2>1, <2>2, <2>3 DEF List!Next, List!Move
<1> QED  BY <1>5, <1>6

-----------------------------------------------------------------------------
(* The theorems.                                                            *)

LEMMA InitList == Init => List!Init
<1> SUFFICES ASSUME Init PROVE List!Init
  OBVIOUS
<1>1. IndInv
  BY InitInv
<1>2. /\ List!ToSet(EffectiveOrder) = Active /\ List!IsList(EffectiveOrder)
      /\ Active \subseteq Rows
  BY <1>1, Read, ActiveFacts DEF Listed
<1>3. Rows \subseteq ItemIds /\ request.items = {}
  BY DEF Rows, Init, NoRequest
<1> QED  BY <1>2, <1>3 DEF List!Init

LEMMA Step == IndInv /\ [Next]_vars => IndInv' /\ [List!Next]_List!listVars
<1> SUFFICES ASSUME IndInv, [Next]_vars
             PROVE  IndInv' /\ [List!Next]_List!listVars
  OBVIOUS
<1>1. ASSUME NEW i \in ItemIds, Enqueue(i) \/ Reopen(i) \/ MoveToTop(i)
      PROVE  IndInv' /\ List!Next
  BY <1>1, EnqueueStep, ReopenStep, MoveToTopStep
<1>2. ASSUME NEW i \in ItemIds, ReopenStale(i)
      PROVE  IndInv' /\ [List!Next]_List!listVars
  BY <1>2, ReopenStaleStep
<1>3. ASSUME NEW i \in ItemIds, Retrigger(i)
      PROVE  IndInv' /\ UNCHANGED List!listVars
  BY <1>3, StatusStep, RetriggerStep
<1>4. ASSUME NEW i \in ItemIds, Resolve(i)
      PROVE  IndInv' /\ List!Next
  BY <1>4, StatusStep, ResolveStep
<1>5. ASSUME RequestMove \/ MoveItems
      PROVE  IndInv' /\ List!Next
  BY <1>5, RequestMoveStep, MoveItemsStep
<1>6. CASE UNCHANGED vars
  <2>1. IndInv'
    BY <1>6 DEF vars, IndInv, EntryOK
  <2>2. UNCHANGED List!listVars
    BY <1>6 DEF vars, List!listVars, EffectiveOrder, Before, Active, Rows
  <2> QED  BY <2>1, <2>2
<1> QED  BY <1>1, <1>2, <1>3, <1>4, <1>5, <1>6 DEF Next

LEMMA Inductive == Spec => []IndInv
BY InitInv, Step, PTL DEF Spec

\* Positions stay within the number of items, entry ids within the counter,
\* and the counter within the number of rows: queueOrderRepository.ts creates
\* at most one queue_order row for each.
THEOREM OrderTypes == Spec => []TypeOK
<1>1. IndInv => TypeOK
  <2> SUFFICES ASSUME IndInv PROVE TypeOK
    OBVIOUS
  <2>1. IsFiniteSet({i \in ItemIds : entry[i] # NoEntry})
        /\ Cardinality({i \in ItemIds : entry[i] # NoEntry}) <= Cardinality(ItemIds)
    <3> DEFINE given == {i \in ItemIds : entry[i] # NoEntry}
    <3>1. given \in SUBSET ItemIds
      OBVIOUS
    <3> HIDE DEF given
    <3>2. IsFiniteSet(given) /\ Cardinality(given) <= Cardinality(ItemIds)
      BY <3>1, FS_Subset, OrderAssumption
    <3> QED  BY <3>2 DEF given
  <2>2. lastEntry \in 0..Cardinality(ItemIds)
    BY <2>1, ActiveFacts DEF IndInv, EntryOK, Entries
  <2> QED  BY <2>2 DEF TypeOK, IndInv, EntryOK, Entries
<1> QED  BY <1>1, Inductive, PTL

\* The sort of readEffectiveOrder never meets a tie, although positions are
\* left behind by resolved items and missing for rows older than the table.
THEOREM Total == Spec => []OrderIsTotal
<1>1. IndInv => OrderIsTotal
  BY ActiveFacts, StrictOrder DEF OrderIsTotal, Before
<1> QED  BY <1>1, Inductive, PTL

\* Nullable positions, entry ids and the renumbering of a move together
\* behave as one list of the active items.
THEOREM IsAList == Spec => ImplementsList
<1>1. Spec => List!Init /\ [][List!Next]_List!listVars
  BY InitList, Inductive, Step, PTL DEF Spec
<1> QED  BY <1>1 DEF ImplementsList, List!Spec

=================================================================================
