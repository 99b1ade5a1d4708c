-------------------------- MODULE Services_proofs --------------------------
(***************************************************************************)
(* Proofs about services of the host that the run of MCServices checks: the  *)
(* report on a turn's verification (CompletionReport), the questions of a    *)
(* plan (PlanPrompt), the executions of commands (CommandExecutions), the    *)
(* queue of messages (MessageQueue), bounded processes (ProcessRuns) and     *)
(* shells (ShellSessions).  The first lemmas are general: an induction over  *)
(* a finite set is a least counterexample of it.                             *)
(***************************************************************************)
EXTENDS CompletionReport, PlanPrompt, CommandExecutions, MessageQueue, ProcessRuns,
        ShellSessions, Integers, FiniteSetTheorems, SequenceTheorems, TLAPS

----------------------------------------------------------------------------
(* Finite sets and orders.                                                  *)

\* Among finite sets one has no other inside it.
LEMMA LeastSet ==
    ASSUME NEW F, F # {}, \A T \in F : IsFiniteSet(T)
    PROVE  \E T \in F : \A U \in F : U \subseteq T => U = T
<1> DEFINE S == UNION F
<1>0. \A T \in F : T \subseteq S
  OBVIOUS
<1> HIDE DEF S
<1>1. IsWellFoundedOn(StrictSubsetOrdering(S), FiniteSubsetsOf(S))
  BY FS_StrictSubsetOrderingWellFounded
<1>2. F \subseteq FiniteSubsetsOf(S)
  BY <1>0 DEF FiniteSubsetsOf
<1>3. \E T \in F : \A U \in F : ~(<<U, T>> \in StrictSubsetOrdering(S))
  BY <1>1, <1>2, WFMin
<1>4. PICK T \in F : \A U \in F : ~(<<U, T>> \in StrictSubsetOrdering(S))
  BY <1>3
<1>5. ASSUME NEW U \in F, U \subseteq T PROVE U = T
  <2>1. U \in SUBSET S /\ T \in SUBSET S
    BY <1>0
  <2> SUFFICES ASSUME U # T PROVE <<U, T>> \in StrictSubsetOrdering(S)
    BY <1>4
  <2> QED
    BY <1>5, <2>1 DEF StrictSubsetOrdering
<1> QED
  BY <1>5

\* A function from a finite set to numbers has a greatest value.
LEMMA GreatestValue ==
    ASSUME NEW S, IsFiniteSet(S), S # {}, NEW f \in [S -> Nat]
    PROVE  \E x \in S : \A y \in S : f[y] <= f[x]
<1> DEFINE Above(x) == {y \in S : f[y] > f[x]}
           F == {Above(x) : x \in S}
<1>1. F # {} /\ \A T \in F : IsFiniteSet(T)
  <2>1. \A x \in S : IsFiniteSet(Above(x))
    BY FS_Subset
  <2>2. ASSUME NEW T \in F PROVE IsFiniteSet(T)
    <3>1. PICK x \in S : T = Above(x)
      OBVIOUS
    <3> QED
      BY <2>1, <3>1
  <2>3. F # {}
    <3>1. PICK x \in S : TRUE
      OBVIOUS
    <3>2. Above(x) \in F
      OBVIOUS
    <3> HIDE DEF F
    <3> QED
      BY <3>2
  <2> QED
    BY <2>2, <2>3
<1>2. PICK T \in F : \A U \in F : U \subseteq T => U = T
  <2> HIDE DEF F
  <2> QED
    BY <1>1, LeastSet
<1>3. PICK x \in S : T = Above(x)
  OBVIOUS
<1>4. ASSUME NEW y \in S, ~(f[y] <= f[x]) PROVE FALSE
  <2>1. y \in Above(x) /\ y \notin Above(y)
    BY <1>4
  <2>2. Above(y) \subseteq Above(x)
    BY <1>4
  <2> QED
    BY <1>2, <1>3, <2>1, <2>2
<1> QED
  BY <1>4

\* An enumeration of a finite set without repetitions takes all of it.
Lists(s, n, S) == s \in [1..n -> S] /\ \A a, b \in 1..n : s[a] = s[b] => a = b
Covers(s, n, S) == \A y \in S : \E a \in 1..n : s[a] = y

LEMMA EnumerationCovers ==
    ASSUME NEW S, IsFiniteSet(S), NEW n \in Nat, n = Cardinality(S), NEW s, Lists(s, n, S)
    PROVE  Covers(s, n, S)
<1>1. s \in Injection(1..n, S)
  BY DEF Injection, IsInjective, Lists
<1>2. Cardinality(1..n) = n
  <2>1. n \in Int /\ 1 \in Int
    OBVIOUS
  <2>2. Cardinality(1..n) = IF 1 > n THEN 0 ELSE n - 1 + 1
    BY <2>1, FS_Interval
  <2> QED
    BY <2>2
<1>3. s \in Surjection(1..n, S)
  BY <1>1, <1>2, FS_Injection
<1> QED
  BY <1>3 DEF Surjection, Covers

\* A finite set in a strict order has its enumeration in this order.
StrictOrder(R, S) ==
    /\ \A x \in S : <<x, x>> \notin R
    /\ \A x, y, z \in S : <<x, y>> \in R /\ <<y, z>> \in R => <<x, z>> \in R
    /\ \A x, y \in S : x # y => <<x, y>> \in R \/ <<y, x>> \in R

LEMMA SortedExists ==
    ASSUME NEW S, IsFiniteSet(S), NEW R, StrictOrder(R, S), NEW n \in Nat, n = Cardinality(S)
    PROVE  \E s \in [1..n -> S] : \A i, j \in 1..n : i < j => <<s[i], s[j]>> \in R
<1> DEFINE Below(x) == {y \in S : <<y, x>> \in R}
           rank == [x \in S |-> Cardinality(Below(x)) + 1]
<1>1. ASSUME NEW x \in S
      PROVE  IsFiniteSet(Below(x)) /\ Cardinality(Below(x)) \in Nat /\ Cardinality(Below(x)) + 1 <= n
  <2>1. IsFiniteSet(Below(x)) /\ Cardinality(Below(x)) \in Nat
    BY FS_Subset, FS_CardinalityType
  <2>2. x \notin Below(x) /\ Below(x) \subseteq S \ {x}
    BY DEF StrictOrder
  <2>3. IsFiniteSet(S \ {x}) /\ Cardinality(S \ {x}) = n - 1
    BY FS_RemoveElement
  <2> HIDE DEF Below
  <2>4. Cardinality(Below(x)) <= Cardinality(S \ {x})
    BY <2>2, <2>3, FS_Subset
  <2> QED
    BY <2>1, <2>3, <2>4
<1>2. ASSUME NEW x \in S, NEW y \in S, <<x, y>> \in R PROVE rank[x] < rank[y]
  <2>1. Below(x) \subseteq Below(y) /\ x \in Below(y) /\ x \notin Below(x)
    BY <1>2 DEF StrictOrder
  <2>2. IsFiniteSet(Below(x)) /\ IsFiniteSet(Below(y)) /\ Cardinality(Below(x)) \in Nat /\ Cardinality(Below(y)) \in Nat
    BY <1>1
  <2>3. rank[x] = Cardinality(Below(x)) + 1 /\ rank[y] = Cardinality(Below(y)) + 1
    OBVIOUS
  <2> HIDE DEF Below, rank
  <2>4. Cardinality(Below(x)) <= Cardinality(Below(y)) /\ Cardinality(Below(x)) # Cardinality(Below(y))
    BY <2>1, <2>2, FS_Subset
  <2> QED
    BY <2>2, <2>3, <2>4
<1>3. rank \in [S -> 1..n]
  <2>1. \A x \in S : Cardinality(Below(x)) + 1 \in 1..n
    <3> TAKE x \in S
    <3>1. Cardinality(Below(x)) \in Nat /\ Cardinality(Below(x)) + 1 <= n
      BY <1>1
    <3> HIDE DEF Below
    <3> QED
      BY <3>1
  <2> QED
    BY <2>1
<1> HIDE DEF rank, Below
<1>4. \A x, y \in S : rank[x] = rank[y] => x = y
  <2> SUFFICES ASSUME NEW x \in S, NEW y \in S, rank[x] = rank[y], x # y PROVE FALSE
    OBVIOUS
  <2>1. <<x, y>> \in R \/ <<y, x>> \in R
    BY DEF StrictOrder
  <2>2. rank[x] < rank[y] \/ rank[y] < rank[x]
    BY <1>2, <2>1
  <2>3. rank[x] \in Int /\ rank[y] \in Int
    BY <1>3
  <2> QED
    BY <2>2, <2>3
<1>5. rank \in Surjection(S, 1..n)
  <2>1. rank \in Injection(S, 1..n)
    BY <1>3, <1>4 DEF Injection, IsInjective
  <2>2. IsFiniteSet(1..n) /\ Cardinality(1..n) = n
    <3>1. n \in Int /\ 1 \in Int
      OBVIOUS
    <3>2. IsFiniteSet(1..n) /\ Cardinality(1..n) = IF 1 > n THEN 0 ELSE n - 1 + 1
      BY <3>1, FS_Interval
    <3> QED
      BY <3>2
  <2> QED
    BY <2>1, <2>2, FS_Injection
<1> DEFINE s == [i \in 1..n |-> CHOOSE x \in S : rank[x] = i]
<1>6. \A i \in 1..n : s[i] \in S /\ rank[s[i]] = i
  BY <1>5 DEF Surjection
<1>7. s \in [1..n -> S]
  BY <1>6
<1> HIDE DEF s
<1>8. \A i, j \in 1..n : i < j => <<s[i], s[j]>> \in R
  <2> SUFFICES ASSUME NEW i \in 1..n, NEW j \in 1..n, i < j PROVE <<s[i], s[j]>> \in R
    OBVIOUS
  <2>1. s[i] \in S /\ s[j] \in S /\ rank[s[i]] = i /\ rank[s[j]] = j
    BY <1>6
  <2>2. s[i] # s[j]
    BY <2>1
  <2>3. ~(<<s[j], s[i]>> \in R)
    <3> SUFFICES ASSUME <<s[j], s[i]>> \in R PROVE FALSE
      OBVIOUS
    <3>1. rank[s[j]] < rank[s[i]]
      BY <1>2, <2>1
    <3> QED
      BY <2>1, <3>1
  <2> QED
    BY <2>1, <2>2, <2>3 DEF StrictOrder
<1> QED
  BY <1>7, <1>8

----------------------------------------------------------------------------
(* Sums of natural numbers.                                                 *)

\* The sum of w over S is the number of the dots of its rows.
DotRow(w, x) == {x} \X (1..w[x])
Dots(w, S) == UNION {DotRow(w, x) : x \in S}
Total(w, S) == Cardinality(Dots(w, S))

LEMMA InDots ==
    ASSUME NEW w, NEW S, NEW p
    PROVE  p \in Dots(w, S) <=> \E x \in S : \E i \in 1..w[x] : p = <<x, i>>
BY DEF Dots, DotRow

LEMMA RowSize ==
    ASSUME NEW w, NEW x, w[x] \in Nat
    PROVE  IsFiniteSet(DotRow(w, x)) /\ Cardinality(DotRow(w, x)) = w[x]
<1>1. IsFiniteSet({x}) /\ Cardinality({x}) = 1
  BY FS_Singleton
<1>2. IsFiniteSet(1..w[x]) /\ Cardinality(1..w[x]) = w[x]
  <2> DEFINE n == w[x]
  <2> n \in Nat
    OBVIOUS
  <2> HIDE DEF n
  <2>1. 1 \in Int /\ n \in Int
    OBVIOUS
  <2>2. IsFiniteSet(1..n) /\ Cardinality(1..n) = IF 1 > n THEN 0 ELSE n - 1 + 1
    BY <2>1, FS_Interval
  <2>3. IsFiniteSet(1..n) /\ Cardinality(1..n) = n
    BY <2>2
  <2> QED
    BY <2>3 DEF n
<1>3. IsFiniteSet({x} \X (1..w[x])) /\ Cardinality({x} \X (1..w[x])) = Cardinality({x}) * Cardinality(1..w[x])
  BY <1>1, <1>2, FS_Product
<1> QED
  BY <1>1, <1>2, <1>3 DEF DotRow

LEMMA DotsSplit ==
    ASSUME NEW w, NEW S, NEW x \in S
    PROVE  /\ Dots(w, S) = Dots(w, S \ {x}) \cup DotRow(w, x)
           /\ Dots(w, S \ {x}) \cap DotRow(w, x) = {}
<1>1. ASSUME NEW p PROVE p \in Dots(w, S) <=> p \in Dots(w, S \ {x}) \/ p \in DotRow(w, x)
  <2>1. p \in Dots(w, S) <=> \E y \in S : p \in DotRow(w, y)
    BY DEF Dots
  <2>2. p \in Dots(w, S \ {x}) <=> \E y \in S \ {x} : p \in DotRow(w, y)
    BY DEF Dots
  <2> QED
    BY <2>1, <2>2
<1>2. ASSUME NEW p \in Dots(w, S \ {x}), p \in DotRow(w, x) PROVE FALSE
  <2>1. PICK y \in S \ {x} : p \in DotRow(w, y)
    BY DEF Dots
  <2>2. p[1] = y /\ p[1] = x
    BY <1>2, <2>1 DEF DotRow
  <2> QED
    BY <2>1, <2>2
<1> QED
  BY <1>1, <1>2

LEMMA DotsFinite ==
    ASSUME NEW w, NEW S, IsFiniteSet(S), \A x \in S : w[x] \in Nat
    PROVE  IsFiniteSet(Dots(w, S))
<1> DEFINE F == {T \in SUBSET S : ~IsFiniteSet(Dots(w, T))}
<1> SUFFICES ASSUME F # {} PROVE FALSE
  OBVIOUS
<1>1. \A T \in F : IsFiniteSet(T)
  BY FS_Subset
<1>2. PICK T \in F : \A U \in F : U \subseteq T => U = T
  <2> HIDE DEF F
  <2> QED
    BY <1>1, LeastSet
<1>3. CASE T = {}
  <2>1. Dots(w, {}) = {}
    BY DEF Dots
  <2> QED
    BY <1>2, <1>3, <2>1, FS_EmptySet
<1>4. ASSUME NEW x \in T PROVE FALSE
  <2>1. T \ {x} \notin F
    BY <1>2
  <2>2. IsFiniteSet(Dots(w, T \ {x}))
    BY <1>2, <2>1
  <2>3. IsFiniteSet(DotRow(w, x))
    BY <1>2, RowSize
  <2>4. IsFiniteSet(Dots(w, T \ {x}) \cup DotRow(w, x))
    BY <2>2, <2>3, FS_Union
  <2>5. Dots(w, T) = Dots(w, T \ {x}) \cup DotRow(w, x)
    BY DotsSplit
  <2> QED
    BY <1>2, <2>4, <2>5
<1> QED
  BY <1>3, <1>4

LEMMA SumNat ==
    ASSUME NEW w, NEW S, IsFiniteSet(S), \A x \in S : w[x] \in Nat
    PROVE  Total(w, S) \in Nat
BY DotsFinite, FS_CardinalityType DEF Total

\* What one element adds.
LEMMA SumSplit ==
    ASSUME NEW w, NEW S, IsFiniteSet(S), \A x \in S : w[x] \in Nat, NEW x \in S
    PROVE  /\ Total(w, S) = w[x] + Total(w, S \ {x})
           /\ Total(w, S \ {x}) \in Nat /\ w[x] \in Nat
<1>1. IsFiniteSet(S \ {x})
  BY FS_Subset
<1>2. IsFiniteSet(Dots(w, S \ {x})) /\ Cardinality(Dots(w, S \ {x})) \in Nat
  BY <1>1, DotsFinite, FS_CardinalityType
<1>3. IsFiniteSet(DotRow(w, x)) /\ Cardinality(DotRow(w, x)) = w[x]
  BY RowSize
<1>4. Cardinality(Dots(w, S \ {x}) \cup DotRow(w, x)) =
        Cardinality(Dots(w, S \ {x})) + Cardinality(DotRow(w, x)) - Cardinality(Dots(w, S \ {x}) \cap DotRow(w, x))
  BY <1>2, <1>3, FS_Union
<1>5. Cardinality({}) = 0
  BY FS_EmptySet
<1>6. /\ Dots(w, S) = Dots(w, S \ {x}) \cup DotRow(w, x)
      /\ Dots(w, S \ {x}) \cap DotRow(w, x) = {}
  BY DotsSplit
<1>7. Cardinality(Dots(w, S)) = Cardinality(Dots(w, S \ {x})) + w[x]
  <2>1. Cardinality(Dots(w, S)) = Cardinality(Dots(w, S \ {x})) + Cardinality(DotRow(w, x)) - Cardinality({})
    BY <1>4, <1>6, Zenon
  <2> QED
    BY <1>2, <1>3, <1>5, <2>1
<1>8. w[x] \in Nat
  OBVIOUS
<1> QED
  BY <1>2, <1>7, <1>8 DEF Total

LEMMA SumEmpty == ASSUME NEW w PROVE Total(w, {}) = 0
BY FS_EmptySet DEF Total, Dots

\* Sums of the same numbers are equal, and of smaller ones smaller.
LEMMA SumSame ==
    ASSUME NEW v, NEW w, NEW S, \A x \in S : v[x] = w[x]
    PROVE  Total(v, S) = Total(w, S)
<1>1. \A x \in S : DotRow(v, x) = DotRow(w, x)
  BY DEF DotRow
<1> QED
  BY <1>1 DEF Total, Dots

\* Every number is covered by one of two others: so is the sum.
LEMMA SumCovered ==
    ASSUME NEW u, NEW v, NEW w, NEW S, NEW T, NEW R, S \subseteq T, S \subseteq R, IsFiniteSet(T), IsFiniteSet(R),
           \A x \in T : v[x] \in Nat, \A x \in R : w[x] \in Nat,
           \A x \in S : u[x] \in Nat /\ (u[x] <= v[x] \/ u[x] <= w[x])
    PROVE  Total(u, S) <= Total(v, T) + Total(w, R)
<1>1. IsFiniteSet(Dots(v, T)) /\ IsFiniteSet(Dots(w, R))
  BY DotsFinite
<1>2. Dots(u, S) \subseteq Dots(v, T) \cup Dots(w, R)
  <2> SUFFICES ASSUME NEW p \in Dots(u, S) PROVE p \in Dots(v, T) \cup Dots(w, R)
    OBVIOUS
  <2>1. PICK x \in S : p \in DotRow(u, x)
    BY DEF Dots
  <2>2. PICK i \in 1..u[x] : p = <<x, i>>
    BY <2>1 DEF DotRow
  <2>3. u[x] \in Nat /\ v[x] \in Nat /\ w[x] \in Nat
    OBVIOUS
  <2>4. CASE u[x] <= v[x]
    <3>1. i \in 1..v[x]
      BY <2>3, <2>4
    <3> QED
      BY <2>2, <3>1 DEF Dots, DotRow
  <2>5. CASE u[x] <= w[x]
    <3>1. i \in 1..w[x]
      BY <2>3, <2>5
    <3> QED
      BY <2>2, <3>1 DEF Dots, DotRow
  <2> QED
    BY <2>4, <2>5
<1>3. /\ IsFiniteSet(Dots(v, T) \cup Dots(w, R))
      /\ Cardinality(Dots(v, T) \cup Dots(w, R)) =
           Cardinality(Dots(v, T)) + Cardinality(Dots(w, R)) - Cardinality(Dots(v, T) \cap Dots(w, R))
  BY <1>1, FS_Union
<1>4. /\ Cardinality(Dots(v, T)) \in Nat /\ Cardinality(Dots(w, R)) \in Nat
      /\ Cardinality(Dots(v, T) \cap Dots(w, R)) \in Nat
  <2>1. IsFiniteSet(Dots(v, T) \cap Dots(w, R))
    BY <1>1, FS_Subset
  <2> QED
    BY <1>1, <2>1, FS_CardinalityType
<1>5. IsFiniteSet(Dots(u, S)) /\ Cardinality(Dots(u, S)) <= Cardinality(Dots(v, T) \cup Dots(w, R))
  BY <1>2, <1>3, FS_Subset
<1>6. Cardinality(Dots(u, S)) \in Nat
  BY <1>5, FS_CardinalityType
<1> QED
  BY <1>3, <1>4, <1>5, <1>6 DEF Total

LEMMA SumWithin ==
    ASSUME NEW v, NEW w, NEW S, NEW T, IsFiniteSet(T), \A x \in T : w[x] \in Nat,
           \A x \in S : v[x] = 0 \/ (x \in T /\ v[x] \in Nat /\ v[x] <= w[x])
    PROVE  Total(v, S) <= Total(w, T)
<1>1. Dots(v, S) \subseteq Dots(w, T)
  <2> SUFFICES ASSUME NEW p \in Dots(v, S) PROVE p \in Dots(w, T)
    OBVIOUS
  <2>1. PICK x \in S : p \in DotRow(v, x)
    BY DEF Dots
  <2>2. PICK i \in 1..v[x] : p = <<x, i>>
    BY <2>1 DEF DotRow
  <2>3. v[x] # 0
    BY <2>2
  <2>4. x \in T /\ v[x] \in Nat /\ w[x] \in Nat /\ v[x] <= w[x]
    BY <2>3
  <2>5. i \in 1..w[x]
    BY <2>2, <2>4
  <2> QED
    BY <2>2, <2>4, <2>5 DEF Dots, DotRow
<1>2. IsFiniteSet(Dots(w, T))
  BY DotsFinite
<1> QED
  BY <1>1, <1>2, FS_Subset DEF Total

LEMMA SumZero ==
    ASSUME NEW w, NEW S, \A x \in S : w[x] = 0
    PROVE  Total(w, S) = 0
<1>1. \A x \in S : 1..w[x] = {}
  OBVIOUS
<1>2. Dots(w, S) = {}
  BY <1>1 DEF Dots, DotRow
<1> QED
  BY <1>2, FS_EmptySet DEF Total

\* The same, in words that need no more than to be matched.
AllNumbers(w, S) == \A y \in S : w[y] \in Nat
TakesOut(w, S, x) == Total(w, S) = w[x] + Total(w, S \ {x}) /\ Total(w, S \ {x}) \in Nat
LEMMA SumTakesOut ==
    ASSUME NEW w, NEW S, NEW x, IsFiniteSet(S), x \in S, AllNumbers(w, S)
    PROVE  TakesOut(w, S, x)
BY SumSplit DEF AllNumbers, TakesOut

\* One number of a sum changes.
LEMMA SumChange ==
    ASSUME NEW v, NEW w, NEW S, IsFiniteSet(S), \A x \in S : v[x] \in Nat /\ w[x] \in Nat,
           NEW x \in S, \A y \in S \ {x} : v[y] = w[y]
    PROVE  /\ Total(w, S) = Total(v, S) - v[x] + w[x] /\ v[x] <= Total(v, S)
           /\ Total(w, S) \in Nat /\ Total(v, S) \in Nat
<1>1. TakesOut(v, S, x)
  <2>1. AllNumbers(v, S)
    BY DEF AllNumbers
  <2> QED
    BY ONLY IsFiniteSet(S), x \in S, <2>1, SumTakesOut
<1>2. TakesOut(w, S, x)
  <2>1. AllNumbers(w, S)
    BY DEF AllNumbers
  <2> QED
    BY ONLY IsFiniteSet(S), x \in S, <2>1, SumTakesOut
<1>3. Total(v, S \ {x}) = Total(w, S \ {x})
  BY SumSame
<1>4. v[x] \in Nat /\ w[x] \in Nat
  OBVIOUS
<1> QED
  BY <1>1, <1>2, <1>3, <1>4 DEF TakesOut

\* The recursion the library sums with: p picks what is added next, and where.
Adds(iter, w, S, p, o) ==
    iter = [s \in SUBSET S |-> IF s = {} THEN 0
                               ELSE IF o = "first" THEN w[p[s]] + iter[s \ {p[s]}] ELSE iter[s \ {p[s]}] + w[p[s]]]
Picks(p, S) == \A s \in SUBSET S : s # {} => p[s] \in s

LEMMA AddsSum ==
    ASSUME NEW w, NEW S, IsFiniteSet(S), \A x \in S : w[x] \in Nat, NEW p, Picks(p, S), NEW o,
           NEW iter, Adds(iter, w, S, p, o)
    PROVE  iter[S] = Total(w, S)
<1> DEFINE F == {T \in SUBSET S : iter[T] # Total(w, T)}
<1>1. CASE F = {}
  BY <1>1
<1>2. CASE F # {}
  <2>1. \A T \in F : IsFiniteSet(T)
    BY FS_Subset
  <2>2. PICK T \in F : \A U \in F : U \subseteq T => U = T
    <3> HIDE DEF F
    <3> QED
      BY <1>2, <2>1, LeastSet
  <2>3. iter[T] = IF T = {} THEN 0
                    ELSE IF o = "first" THEN w[p[T]] + iter[T \ {p[T]}] ELSE iter[T \ {p[T]}] + w[p[T]]
    BY <2>2 DEF Adds
  <2>4. CASE T = {}
    BY <2>2, <2>3, <2>4, SumEmpty
  <2>5. CASE T # {}
    <3>1. PICK c \in T : c = p[T]
      BY <2>2, <2>5 DEF Picks
    <3>2. T \ {c} \notin F
      BY <2>2
    <3>3. iter[T \ {c}] = Total(w, T \ {c})
      BY <2>2, <3>2
    <3>4. IsFiniteSet(T) /\ \A x \in T : w[x] \in Nat
      BY <2>1, <2>2
    <3>5. Total(w, T) = w[c] + Total(w, T \ {c}) /\ Total(w, T \ {c}) \in Nat /\ w[c] \in Nat
      BY <3>4, SumSplit
    <3> QED
      BY <2>2, <2>3, <2>5, <3>1, <3>3, <3>5
  <2> QED
    BY <2>4, <2>5
<1> QED
  BY <1>1, <1>2

LEMMA AddsExists ==
    ASSUME NEW w, NEW S, IsFiniteSet(S), \A x \in S : w[x] \in Nat, NEW p, Picks(p, S), NEW o
    PROVE  \E iter : Adds(iter, w, S, p, o)
<1> DEFINE iter == [s \in SUBSET S |-> Total(w, s)]
           next == [s \in SUBSET S |-> IF s = {} THEN 0
                               ELSE IF o = "first" THEN w[p[s]] + iter[s \ {p[s]}] ELSE iter[s \ {p[s]}] + w[p[s]]]
<1>1. ASSUME NEW s \in SUBSET S PROVE iter[s] = next[s]
  <2>1. CASE s = {}
    BY <2>1, SumEmpty
  <2>2. CASE s # {}
    <3>1. PICK c \in s : c = p[s]
      BY <2>2 DEF Picks
    <3>2. IsFiniteSet(s) /\ \A x \in s : w[x] \in Nat
      BY FS_Subset
    <3>3. Total(w, s) = w[c] + Total(w, s \ {c}) /\ Total(w, s \ {c}) \in Nat /\ w[c] \in Nat
      BY <3>2, SumSplit
    <3>4. iter[s \ {c}] = Total(w, s \ {c}) /\ iter[s] = Total(w, s)
      OBVIOUS
    <3>5. next[s] = w[c] + iter[s \ {c}] \/ next[s] = iter[s \ {c}] + w[c]
      BY <2>2, <3>1
    <3> QED
      BY <3>3, <3>4, <3>5
  <2> QED
    BY <2>1, <2>2
<1>2. iter = next
  BY <1>1
<1> QED
  BY <1>2 DEF Adds

\* What the files of S hold, and what the runs of S have reserved.
FilesIn(o, S) == MapThenSumSet(LAMBDA r : o[r], S)
HeldIn(p, S) == MapThenSumSet(LAMBDA r : p[r].held, S)

LEMMA FilesInSum ==
    ASSUME NEW o, NEW S, IsFiniteSet(S), \A x \in S : o[x] \in Nat
    PROVE  FilesIn(o, S) = Total(o, S)
<1> DEFINE Body(f) == [s \in SUBSET S |-> IF s = {} THEN 0 ELSE o[CHOOSE x \in s : TRUE] + f[s \ {CHOOSE x \in s : TRUE}]]
           it == CHOOSE iter : iter = Body(iter)
<1>1. FilesIn(o, S) = MapThenFoldSet(+, 0, LAMBDA r : o[r], LAMBDA s : CHOOSE x \in s : TRUE, S)
  BY DEF FilesIn, MapThenSumSet
<1>2. MapThenFoldSet(+, 0, LAMBDA r : o[r], LAMBDA s : CHOOSE x \in s : TRUE, S) = it[S]
  BY DEF MapThenFoldSet
<1>0. PICK p : p = [s \in SUBSET S |-> CHOOSE x \in s : TRUE]
  OBVIOUS
<1>3. Picks(p, S)
  BY <1>0 DEF Picks
<1>4. ASSUME NEW iter
      PROVE  iter = Body(iter) <=> Adds(iter, o, S, p, "first")
  BY <1>0 DEF Adds
<1>5. PICK g : Adds(g, o, S, p, "first")
  BY <1>3, AddsExists
<1>7. it = Body(it)
  <2>1. g = Body(g)
    BY <1>4, <1>5
  <2> HIDE DEF Body
  <2> QED
    BY <2>1, Zenon
<1>6. Adds(it, o, S, p, "first")
  BY <1>4, <1>7
<1> QED
  BY <1>1, <1>2, <1>3, <1>6, AddsSum

LEMMA HeldInSum ==
    ASSUME NEW p, NEW w, NEW S, IsFiniteSet(S), \A x \in S : p[x].held = w[x] /\ w[x] \in Nat
    PROVE  HeldIn(p, S) = Total(w, S)
<1> DEFINE Body(f) == [s \in SUBSET S |-> IF s = {} THEN 0 ELSE p[CHOOSE x \in s : TRUE].held + f[s \ {CHOOSE x \in s : TRUE}]]
           it == CHOOSE iter : iter = Body(iter)
<1>1. HeldIn(p, S) = MapThenFoldSet(+, 0, LAMBDA r : p[r].held, LAMBDA s : CHOOSE x \in s : TRUE, S)
  BY DEF HeldIn, MapThenSumSet
<1>2. MapThenFoldSet(+, 0, LAMBDA r : p[r].held, LAMBDA s : CHOOSE x \in s : TRUE, S) = it[S]
  BY DEF MapThenFoldSet
<1>0. PICK c : c = [s \in SUBSET S |-> CHOOSE x \in s : TRUE]
  OBVIOUS
<1>6. Picks(c, S)
  BY <1>0 DEF Picks
<1>3. ASSUME NEW iter
      PROVE  iter = Body(iter) <=> Adds(iter, w, S, c, "first")
  <2> DEFINE one == [s \in SUBSET S |-> IF s = {} THEN 0 ELSE p[CHOOSE x \in s : TRUE].held + iter[s \ {CHOOSE x \in s : TRUE}]]
             two == [s \in SUBSET S |-> IF s = {} THEN 0 ELSE w[c[s]] + iter[s \ {c[s]}]]
  <2>1. ASSUME NEW s \in SUBSET S PROVE one[s] = two[s]
    <3>1. CASE s = {}
      BY <3>1
    <3>2. CASE s # {}
      <4>1. PICK x \in s : x = CHOOSE y \in s : TRUE
        BY <3>2
      <4>2. p[x].held = w[x] /\ c[s] = x
        BY <1>0, <4>1
      <4> QED
        BY <3>2, <4>1, <4>2
    <3> QED
      BY <3>1, <3>2
  <2>2. one = two
    BY <2>1
  <2> QED
    BY <2>2 DEF Adds
<1>4. PICK g : Adds(g, w, S, c, "first")
  BY <1>6, AddsExists
<1>7. it = Body(it)
  <2>1. g = Body(g)
    BY <1>3, <1>4
  <2> HIDE DEF Body
  <2> QED
    BY <2>1, Zenon
<1>5. Adds(it, w, S, c, "first")
  BY <1>3, <1>7
<1>8. it[S] = Total(w, S)
  <2>1. \A x \in S : w[x] \in Nat
    OBVIOUS
  <2> HIDE DEF it
  <2> QED
    BY <1>5, <1>6, <2>1, AddsSum
<1> QED
  BY <1>1, <1>2, <1>8


\* The sum over two sets that share nothing, and over a part of a sequence.
LEMMA SumUnion ==
    ASSUME NEW w, NEW S, NEW T, IsFiniteSet(S), IsFiniteSet(T), S \cap T = {},
           \A x \in S \cup T : w[x] \in Nat
    PROVE  Total(w, S \cup T) = Total(w, S) + Total(w, T)
<1>1. Dots(w, S \cup T) = Dots(w, S) \cup Dots(w, T)
  BY DEF Dots
<1>2. Dots(w, S) \cap Dots(w, T) = {}
  <2> SUFFICES ASSUME NEW p \in Dots(w, S), p \in Dots(w, T) PROVE FALSE
    OBVIOUS
  <2>1. PICK x \in S : p \in DotRow(w, x)
    BY DEF Dots
  <2>2. PICK y \in T : p \in DotRow(w, y)
    BY DEF Dots
  <2>3. p[1] = x /\ p[1] = y
    BY <2>1, <2>2 DEF DotRow
  <2> QED
    BY <2>3
<1>3. IsFiniteSet(Dots(w, S)) /\ IsFiniteSet(Dots(w, T))
  BY DotsFinite
<1>4. Cardinality(Dots(w, S) \cup Dots(w, T)) =
        Cardinality(Dots(w, S)) + Cardinality(Dots(w, T)) - Cardinality(Dots(w, S) \cap Dots(w, T))
  BY <1>3, FS_Union
<1>5. Cardinality(Dots(w, S)) \in Nat /\ Cardinality(Dots(w, T)) \in Nat /\ Cardinality({}) = 0
  BY <1>3, FS_CardinalityType, FS_EmptySet
<1>6. Cardinality(Dots(w, S \cup T)) =
        Cardinality(Dots(w, S)) + Cardinality(Dots(w, T)) - Cardinality({})
  BY <1>1, <1>2, <1>4, Zenon
<1> QED
  BY <1>5, <1>6 DEF Total

LEMMA RangeFinite ==
    ASSUME NEW a \in Int, NEW b \in Int
    PROVE  IsFiniteSet(a..b) /\ (a <= b + 1 => Cardinality(a..b) = b - a + 1)
BY FS_Interval

LEMMA SumLast ==
    ASSUME NEW w, NEW a \in Nat, NEW b \in Nat, a <= b, \A i \in a..b : w[i] \in Nat
    PROVE  Total(w, a..b) = Total(w, a..(b - 1)) + w[b]
<1>1. (a..b) \ {b} = a..(b - 1) /\ b \in a..b
  OBVIOUS
<1>2. IsFiniteSet(a..b)
  BY RangeFinite
<1>3. /\ Total(w, a..b) = w[b] + Total(w, (a..b) \ {b})
      /\ Total(w, (a..b) \ {b}) \in Nat /\ w[b] \in Nat
  BY <1>1, <1>2, SumSplit
<1>4. Total(w, a..b) = w[b] + Total(w, a..(b - 1)) /\ Total(w, a..(b - 1)) \in Nat /\ w[b] \in Nat
  BY <1>1, <1>3, Zenon
<1> QED
  BY <1>4

\* The first m numbers of v are those of w after its first g.
Shifted(v, w, g, m) == \A i \in 1..m : v[i] = w[g + i] /\ w[g + i] \in Nat

LEMMA SumShift ==
    ASSUME NEW v, NEW w, NEW g \in Nat, NEW m \in Nat, Shifted(v, w, g, m)
    PROVE  Total(v, 1..m) = Total(w, (g + 1)..(g + m))
<1> DEFINE F == {1..k : k \in {k \in 0..m : Total(v, 1..k) # Total(w, (g + 1)..(g + k))}}
<1> USE DEF Shifted
<1> SUFFICES ASSUME F # {} PROVE FALSE
  <2>1. m \in 0..m
    OBVIOUS
  <2> QED
    BY <2>1
<1>1. \A T \in F : IsFiniteSet(T)
  <2> SUFFICES ASSUME NEW k \in 0..m PROVE IsFiniteSet(1..k)
    OBVIOUS
  <2> QED
    BY RangeFinite
<1>2. PICK T \in F : \A U \in F : U \subseteq T => U = T
  <2> HIDE DEF F
  <2> QED
    BY <1>1, LeastSet
<1>3. PICK k \in 0..m : T = 1..k /\ Total(v, 1..k) # Total(w, (g + 1)..(g + k))
  BY <1>2
<1>4. CASE k = 0
  <2>1. 1..k = {} /\ (g + 1)..(g + k) = {}
    BY <1>4
  <2> QED
    BY <1>3, <2>1, SumEmpty
<1>5. CASE k > 0
  <2>1. Total(v, 1..(k - 1)) = Total(w, (g + 1)..(g + (k - 1)))
    <3>1. k - 1 \in 0..m /\ 1..(k - 1) \subseteq T /\ 1..(k - 1) # T
      BY <1>3, <1>5
    <3>2. 1..(k - 1) \notin F
      BY <1>2, <3>1
    <3> QED
      BY <3>1, <3>2
  <2>2. Total(v, 1..k) = Total(v, 1..(k - 1)) + v[k]
    <3>1. \A i \in 1..k : v[i] \in Nat
      OBVIOUS
    <3> QED
      BY <1>5, <3>1, SumLast
  <2>3. Total(w, (g + 1)..(g + k)) = Total(w, (g + 1)..(g + k - 1)) + w[g + k]
    <3>1. \A i \in (g + 1)..(g + k) : w[i] \in Nat
      <4> SUFFICES ASSUME NEW i \in (g + 1)..(g + k) PROVE w[i] \in Nat
        OBVIOUS
      <4>1. i - g \in 1..m /\ g + (i - g) = i
        OBVIOUS
      <4> QED
        BY <4>1
    <3>2. g + 1 \in Nat /\ g + k \in Nat /\ g + 1 <= g + k
      BY <1>5
    <3> QED
      BY <3>1, <3>2, SumLast
  <2>4. g + (k - 1) = g + k - 1 /\ v[k] = w[g + k]
    BY <1>5
  <2> QED
    BY <1>3, <2>1, <2>2, <2>3, <2>4
<1> QED
  BY <1>4, <1>5

----------------------------------------------------------------------------
(* The report on a turn's verification.                                     *)

EndKinds == {"absent", "running", "ok", "bad", "unknown", "evicted"}
ReportRows == [end : EndKinds, before : SourceStates, after : SourceStates]

\* What the look at the timeline found stays true until the report is made: an owner is
\* a turn in which the execution answered, and an execution that answered is over.
LookedUp ==
    /\ proof \in [Evidence -> ReportRows]
    /\ answers \in [Evidence -> Seq(1..2)] /\ turn \in 1..2 /\ sources \in 0..1
    /\ \A x \in Evidence :
          /\ answers[x] # <<>> => proof[x].end \in {"ok", "bad", "unknown", "evicted"}
          /\ proof[x].end \in {"absent", "running"} => ~proof[x].after.known
    /\ quality = [at |-> quality.at, input |-> quality.input, owners |-> quality.owners,
                   verdict |-> quality.verdict]
    /\ quality.at = "looked" =>
          /\ quality.input \in Inputs
          /\ DOMAIN quality.owners = requested_refs(quality.input)
          /\ \A x \in requested_refs(quality.input) :
                quality.owners[x] # 0 => quality.owners[x] \in ToSet(answers[x])

LEMMA SnapshotTypes ==
    ASSUME sources \in 0..1, NEW s \in Snapshots
    PROVE  s \in SourceStates /\ s.known /\ (s.whole => s.digest = sources)
<1>1. CASE s = [digest |-> sources, whole |-> TRUE, known |-> TRUE]
  BY <1>1 DEF SourceStates
<1>2. CASE s = [digest |-> 0, whole |-> FALSE, known |-> TRUE]
  <2>1. s \in SourceStates /\ s.known
    BY <1>2 DEF SourceStates
  <2>2. ~s.whole
    BY <1>2
  <2>3. QED BY <2>1, <2>2
<1>3. QED BY <1>1, <1>2 DEF Snapshots

LEMMA NothingRecorded ==
    /\ NoState \in SourceStates /\ ~NoState.known
    /\ Absent = [end |-> "absent", before |-> NoState, after |-> NoState]
<1>1. NoState \in SourceStates
  BY DEF NoState, SourceStates
<1>2. ~NoState.known
  BY DEF NoState
<1>3. QED BY <1>1, <1>2 DEF Absent

LEMMA LookedUpInit == ReportInit => LookedUp
<1> SUFFICES ASSUME ReportInit PROVE LookedUp
  OBVIOUS
<1>1. proof \in [Evidence -> ReportRows] /\ \A x \in Evidence : proof[x] = Absent
  BY NothingRecorded DEF ReportInit, ReportRows, EndKinds
<1>2. answers \in [Evidence -> Seq(1..2)] /\ \A x \in Evidence : answers[x] = <<>>
  BY DEF ReportInit
<1>3. \A x \in Evidence : ~proof[x].after.known
  BY <1>1, NothingRecorded
<1>4. QED BY <1>1, <1>2, <1>3 DEF ReportInit, LookedUp, NoQuality

\* An answer stays in the list it was appended to.
LEMMA AnswersGrow ==
    ASSUME NEW s \in Seq(1..2), NEW t \in 1..2
    PROVE  /\ Append(s, t) \in Seq(1..2)
           /\ ToSet(s) \subseteq ToSet(Append(s, t))
           /\ s # <<>> => Last(s) \in ToSet(s) /\ Last(s) \in 1..2
  BY DEF ToSet, Last

LEMMA LookedUpStep ==
    ASSUME LookedUp, [ReportNext]_reportVars
    PROVE  LookedUp'
<1> USE DEF LookedUp
<1>1. CASE EditTree
  BY <1>1 DEF EditTree
<1>2. CASE Restarted
  <2> DEFINE gone == [Absent EXCEPT !.end = "unknown"]
  <2>1. gone \in ReportRows
    BY NothingRecorded DEF ReportRows, EndKinds
  <2>2. proof' = [x \in Evidence |-> IF proof[x].end = "running" THEN gone ELSE proof[x]]
    BY <1>2 DEF Restarted
  <2>3. \A x \in Evidence : gone.end = "unknown"
    BY NothingRecorded
  <2> HIDE DEF gone
  <2>4. /\ UNCHANGED <<sources, answers, turn>>
        /\ quality' = IF quality.at = "looked" THEN NoQuality ELSE quality
    BY <1>2 DEF Restarted
  <2>5. /\ quality'.at # "looked"
        /\ quality' = [at |-> quality'.at, input |-> quality'.input, owners |-> quality'.owners,
                       verdict |-> quality'.verdict]
    BY <2>4 DEF NoQuality
  <2>6. /\ proof' \in [Evidence -> ReportRows]
        /\ \A x \in Evidence : proof'[x] = IF proof[x].end = "running" THEN gone ELSE proof[x]
    BY <2>1, <2>2
  <2>7. QED BY <2>3, <2>4, <2>5, <2>6
<1>3. CASE NextTurn
  BY <1>3 DEF NextTurn, NoQuality
<1>4. CASE Conclude
  BY <1>4 DEF Conclude, NoQuality
<1>5. ASSUME NEW x \in Evidence, Launch(x)
      PROVE  LookedUp'
  <2>1. PICK s \in Snapshots : proof' = [proof EXCEPT ![x].end = "running", ![x].before = s]
    BY <1>5 DEF Launch
  <2>2. s \in SourceStates
    BY SnapshotTypes
  <2>3. /\ proof' \in [Evidence -> ReportRows]
        /\ \A y \in Evidence \ {x} : proof'[y] = proof[y]
        /\ proof'[x].end = "running" /\ proof'[x].after = proof[x].after
    BY <2>1, <2>2 DEF ReportRows, EndKinds
  <2>4. /\ proof[x].end = "absent" /\ ~proof[x].after.known
        /\ UNCHANGED <<sources, trees, answers, turn, quality>>
    BY <1>5 DEF Launch
  <2>5. QED BY <2>3, <2>4
<1>6. ASSUME NEW x \in Evidence, NEW end \in {"ok", "bad"}, Complete(x, end)
      PROVE  LookedUp'
  <2>1. PICK s \in Snapshots : proof' = [proof EXCEPT ![x].end = end, ![x].after = s]
    BY <1>6 DEF Complete
  <2>2. s \in SourceStates
    BY SnapshotTypes
  <2>3. /\ proof' \in [Evidence -> ReportRows]
        /\ \A y \in Evidence \ {x} : proof'[y] = proof[y]
        /\ proof'[x].end = end
    BY <2>1, <2>2 DEF ReportRows, EndKinds
  <2>4. UNCHANGED <<sources, trees, answers, turn, quality>>
    BY <1>6 DEF Complete
  <2>5. QED BY <2>3, <2>4
<1>7. ASSUME NEW x \in Evidence, Evicted(x)
      PROVE  LookedUp'
  <2> DEFINE gone == [Absent EXCEPT !.end = "evicted"]
  <2>1. gone \in ReportRows /\ gone.end = "evicted"
    BY NothingRecorded DEF ReportRows, EndKinds
  <2>2. /\ proof' = [proof EXCEPT ![x] = gone]
        /\ UNCHANGED <<sources, trees, answers, turn, quality>>
    BY <1>7 DEF Evicted
  <2> HIDE DEF gone
  <2>3. QED BY <2>1, <2>2
<1>8. ASSUME NEW x \in Evidence, Answered(x)
      PROVE  LookedUp'
  <2>1. /\ answers' = [answers EXCEPT ![x] = Append(answers[x], turn)]
        /\ proof[x].end \in {"ok", "bad", "unknown"}
        /\ UNCHANGED <<sources, proof, turn, quality>>
    BY <1>8 DEF Answered
  <2>2. \A y \in Evidence : answers'[y] \in Seq(1..2) /\ ToSet(answers[y]) \subseteq ToSet(answers'[y])
    BY <2>1, AnswersGrow
  <2>3. \A y \in Evidence \ {x} : answers'[y] = answers[y]
    BY <2>1
  <2>4. quality.at = "looked" => requested_refs(quality.input) \subseteq Evidence
    BY ReportAssumption
  <2>5. QED BY <2>1, <2>2, <2>3, <2>4
<1>9. ASSUME NEW input \in Inputs, Look(input)
      PROVE  LookedUp'
  <2> DEFINE refs == requested_refs(input)
             found == [x \in refs |-> IF Found(x) THEN Owner(x) ELSE 0]
  <2>1. /\ quality' = [quality EXCEPT !.at = "looked", !.input = input, !.owners = found]
        /\ UNCHANGED <<sources, trees, proof, answers, turn>>
    BY <1>9 DEF Look
  <2>2. refs \subseteq Evidence
    BY ReportAssumption
  <2>3. \A x \in refs : found[x] # 0 => found[x] \in ToSet(answers[x])
    BY <2>2, AnswersGrow DEF Found, Owner
  <2>4. DOMAIN found = refs
    OBVIOUS
  <2> HIDE DEF found, refs
  <2>5. quality'.at = "looked" => quality'.input = input /\ quality'.owners = found
    BY <2>1
  <2>6. QED BY <2>1, <2>3, <2>4, <2>5 DEF refs
<1>10. CASE UNCHANGED reportVars
  BY <1>10 DEF reportVars
<1>11. QED
  BY <1>1, <1>2, <1>3, <1>4, <1>5, <1>6, <1>7, <1>8, <1>9, <1>10 DEF ReportNext

LEMMA LookedUpAlways == ReportSpec => []LookedUp
<1>1. LookedUp /\ [ReportNext]_reportVars => LookedUp'
  BY LookedUpStep
<1>2. QED BY <1>1, LookedUpInit, PTL DEF ReportSpec

\* An execution that counts as passed ended with 0 and saw the whole tree as it is now.
LEMMA PassedStatus ==
    ASSUME LookedUp, quality.at = "looked", NEW now \in Snapshots,
           NEW x \in DOMAIN quality.owners, quality.owners[x] # 0, proof[x].end # "evicted",
           evidence_status(x, now) \notin {"failed", "stale", "unknown"}
    PROVE  /\ proof[x].end = "ok" /\ turn \in ToSet(answers[x])
           /\ proof[x].before.whole /\ proof[x].after.whole
           /\ proof[x].before.digest = sources /\ proof[x].after.digest = sources
<1>1. x \in Evidence /\ quality.owners[x] \in ToSet(answers[x])
  BY ReportAssumption DEF LookedUp
<1>2. answers[x] # <<>>
  BY <1>1 DEF ToSet
<1>3. proof[x].end \in {"ok", "bad", "unknown"}
  BY <1>1, <1>2 DEF LookedUp
<1>4. quality.owners[x] = turn /\ ~source_state_changed(x, now)
  BY DEF evidence_status
<1>5. proof[x].end = "ok" /\ has_fresh_source_state(x, now)
  BY <1>3, <1>4 DEF evidence_status
<1>6. /\ proof[x].before = proof[x].after /\ proof[x].after = now
      /\ proof[x].before.whole
  BY <1>5 DEF has_fresh_source_state
<1>7. now.whole => now.digest = sources
  BY SnapshotTypes DEF LookedUp
<1>8. QED BY <1>1, <1>4, <1>5, <1>6, <1>7

\* What the aggregate asks for before it says "passed".
LEMMA PassedAggregate ==
    ASSUME NEW input, NEW refs, NEW lost \in BOOLEAN, NEW endings,
           aggregate_verification(input, refs, lost, endings) = "passed"
    PROVE  /\ refs # {} /\ ~lost
           /\ "failed" \notin endings /\ "stale" \notin endings /\ "unknown" \notin endings
           /\ \A i \in DOMAIN input.criteria : input.criteria[i] # <<>>
<1>1. CASE refs = {} /\ ~input.notApplicable
  BY <1>1 DEF aggregate_verification
<1>2. CASE refs = {} /\ input.notApplicable
  BY <1>2 DEF aggregate_verification
<1>3. CASE refs # {} /\ "failed" \in endings
  BY <1>3 DEF aggregate_verification
<1>4. CASE refs # {} /\ "failed" \notin endings /\ "stale" \in endings
  BY <1>4 DEF aggregate_verification
<1>5. CASE refs # {} /\ "failed" \notin endings /\ "stale" \notin endings
  BY <1>5 DEF aggregate_verification
<1>6. QED BY <1>1, <1>2, <1>3, <1>4, <1>5

LEMMA PassedStep ==
    ASSUME LookedUp, [ReportNext]_reportVars, Concludes, quality'.verdict = "passed"
    PROVE  /\ DOMAIN quality.owners # {}
           /\ \A x \in DOMAIN quality.owners :
                 /\ proof[x].end = "ok" /\ turn \in ToSet(answers[x])
                 /\ proof[x].before.whole /\ proof[x].after.whole
                 /\ proof[x].before.digest = sources /\ proof[x].after.digest = sources
           /\ Within(quality.input) => \A i \in DOMAIN quality.input.criteria :
                 /\ quality.input.criteria[i] # <<>>
                 /\ ToSet(quality.input.criteria[i]) \subseteq DOMAIN quality.owners
<1>1. Conclude
  <2>1. quality.at = "looked" /\ quality'.at = "stored"
    BY DEF Concludes
  <2>2. CASE Restarted \/ NextTurn
    BY <2>1, <2>2 DEF Restarted, NextTurn, NoQuality
  <2>3. CASE EditTree \/ UNCHANGED reportVars
    BY <2>1, <2>3 DEF EditTree, reportVars
  <2>4. ASSUME NEW x \in Evidence, \/ Launch(x) \/ Evicted(x) \/ Answered(x)
                                   \/ \E end \in {"ok", "bad"} : Complete(x, end)
        PROVE  FALSE
    BY <2>1, <2>4 DEF Launch, Evicted, Answered, Complete
  <2>5. ASSUME NEW input \in Inputs, Look(input)
        PROVE  FALSE
    BY <2>1, <2>5 DEF Look
  <2>6. QED BY <2>2, <2>3, <2>4, <2>5 DEF ReportNext
<1> DEFINE refs == DOMAIN quality.owners
           kept == {x \in refs : quality.owners[x] # 0 /\ proof[x].end # "evicted"}
<1>2. PICK now \in Snapshots :
         quality' = [NoQuality EXCEPT !.at = "stored",
                       !.verdict = aggregate_verification(quality.input, refs, kept # refs,
                                                          {evidence_status(x, now) : x \in kept})]
  BY <1>1 DEF Conclude
<1> DEFINE endings == {evidence_status(x, now) : x \in kept}
<1>3. aggregate_verification(quality.input, refs, kept # refs, endings) = "passed"
  BY <1>2 DEF NoQuality
<1>4. /\ refs # {} /\ kept = refs
      /\ "failed" \notin endings /\ "stale" \notin endings /\ "unknown" \notin endings
      /\ \A i \in DOMAIN quality.input.criteria : quality.input.criteria[i] # <<>>
  <2> HIDE DEF endings, refs, kept
  <2>1. (kept # refs) \in BOOLEAN
    OBVIOUS
  <2>2. QED BY <1>3, <2>1, PassedAggregate
<1>5. quality.at = "looked"
  BY DEF Concludes
<1>6. \A x \in refs :
         /\ quality.owners[x] # 0 /\ proof[x].end # "evicted"
         /\ evidence_status(x, now) \notin {"failed", "stale", "unknown"}
  <2>1. \A x \in refs : x \in kept /\ evidence_status(x, now) \in endings
    BY <1>4
  <2>2. QED BY <1>4, <2>1
<1>7. Within(quality.input) => \A i \in DOMAIN quality.input.criteria :
         ToSet(quality.input.criteria[i]) \subseteq refs
  BY <1>5, ReportAssumption DEF LookedUp
<1>8. QED BY <1>4, <1>5, <1>6, <1>7, PassedStatus

\* A report that says "passed" says it of executions that ended with 0, in this turn, of the
\* tree as it is, whatever was edited, restarted, repeated or forgotten meanwhile.
THEOREM PassedFresh == ReportSpec => PassedIsFresh
<1> DEFINE Fresh == Concludes /\ quality'.verdict = "passed" =>
          /\ DOMAIN quality.owners # {}
          /\ \A x \in DOMAIN quality.owners :
                /\ proof[x].end = "ok" /\ turn \in ToSet(answers[x])
                /\ proof[x].before.whole /\ proof[x].after.whole
                /\ proof[x].before.digest = sources /\ proof[x].after.digest = sources
          /\ Within(quality.input) => \A i \in DOMAIN quality.input.criteria :
                /\ quality.input.criteria[i] # <<>>
                /\ ToSet(quality.input.criteria[i]) \subseteq DOMAIN quality.owners
<1>1. LookedUp /\ [ReportNext]_reportVars => [Fresh]_reportVars
  BY PassedStep
<1>2. QED BY <1>1, LookedUpAlways, PTL DEF ReportSpec, PassedIsFresh

----------------------------------------------------------------------------
(* The questions of a plan.                                                 *)

Answering == [at : {"idle", "viewed", "stored", "done"}, resolution : Resolutions, late : BOOLEAN,
              said : {"none", "accepted", "refused"}]

\* Until the call is over it was told nothing, and before its row is there nobody can have
\* closed it; an answer in the channel, or on its way to it, is the one in the row; and the
\* entry of an answer that was accepted is gone.
PromptInv ==
    /\ PromptTypes
    /\ asker.at \in {"idle", "inserting"} => question = "none"
    /\ asker.at \in {"idle", "inserting", "waiting", "elapsed", "abandoned"} => asker.got = "none"
    /\ asker.at \in {"elapsed", "over", "abandoned", "down"} => slot = "gone"
    /\ slot \in Resolutions => question = slot
    /\ \A a \in Answerers :
          /\ answering[a].at = "stored" => question = answering[a].resolution
          /\ answering[a].said = "accepted" => ~listed
    /\ PromptsSafe

LEMMA PromptInvInit == PromptInit => PromptInv
<1> SUFFICES ASSUME PromptInit PROVE PromptInv
  OBVIOUS
<1>1. NoAnswer \in Answering
  BY DEF NoAnswer, Answering, Resolutions
<1>2. answering \in [Answerers -> Answering] /\ \A a \in Answerers : answering[a] = NoAnswer
  BY <1>1 DEF PromptInit, Quiet
<1>3. PromptTypes
  BY <1>2 DEF PromptInit, PromptTypes, Answering
<1>4. NoAnswer.at = "idle" /\ NoAnswer.said = "none"
  BY DEF NoAnswer
<1>5. QED
  BY <1>2, <1>3, <1>4 DEF PromptInit, PromptInv, PromptsSafe, ToldIsStored, AcceptedIsStored,
                          NoneLeftPending, Resolutions, Terminal

\* A step of the asking call, of its guard or of the host; none of them writes an answer.
LEMMA AskerStep ==
    ASSUME PromptInv,
           \/ register \/ persist_pending_plan_prompt \/ NotPersisted \/ receive \/ elapse
           \/ persist_plan_prompt_timeout \/ Abort \/ cancel_abandoned_plan_prompt \/ Deadline
           \/ expire_pending_plan_questions_on_startup
    PROVE  PromptInv'
<1> USE DEF PromptInv, PromptTypes, PromptsSafe, ToldIsStored, AcceptedIsStored, NoneLeftPending,
            Resolutions, Terminal
<1>1. CASE register
  BY <1>1 DEF register
<1>2. CASE persist_pending_plan_prompt
  BY <1>2 DEF persist_pending_plan_prompt
<1>3. CASE NotPersisted
  BY <1>3 DEF NotPersisted, DropGuard
<1>4. CASE receive
  BY <1>4 DEF receive, DropGuard
<1>5. CASE elapse
  BY <1>5 DEF elapse
<1>6. CASE persist_plan_prompt_timeout
  <2>1. /\ asker.at = "elapsed" /\ asker'.at = "over"
        /\ \/ question = "pending" /\ question' = "expired" /\ asker'.got = "expired"
           \/ asker'.got = "error" /\ question' \in {question, "expired"}
              /\ (question' # question => question = "pending")
    BY <1>6 DEF persist_plan_prompt_timeout, Transition
  <2>2. /\ DropGuard(TRUE) /\ UNCHANGED <<answering, late>>
        /\ \E got \in {"expired", "error"} : asker' = [at |-> "over", got |-> got]
    BY <1>6 DEF persist_plan_prompt_timeout
  <2>3. PromptTypes'
    BY <2>1, <2>2 DEF DropGuard
  <2>4. QED BY <2>1, <2>2, <2>3 DEF DropGuard
<1>7. CASE Abort
  BY <1>7 DEF Abort, DropGuard, Transition
<1>8. CASE cancel_abandoned_plan_prompt
  BY <1>8 DEF cancel_abandoned_plan_prompt, Transition
<1>9. CASE Deadline
  BY <1>9 DEF Deadline
<1>10. CASE expire_pending_plan_questions_on_startup
  BY <1>10 DEF expire_pending_plan_questions_on_startup, Transition
<1>11. QED BY <1>1, <1>2, <1>3, <1>4, <1>5, <1>6, <1>7, <1>8, <1>9, <1>10

LEMMA PromptCrashStep ==
    ASSUME PromptInv, PromptCrash
    PROVE  PromptInv'
<1>1. /\ answering' \in [Answerers -> Answering]
      /\ \A a \in Answerers :
            /\ answering'[a].at = "done"
            /\ answering'[a].resolution = answering[a].resolution
            /\ answering'[a].said = answering[a].said
  BY DEF PromptCrash, PromptInv, PromptTypes, Answering
<1>2. /\ asker'.at = "down" /\ asker'.got = asker.got /\ asker' = [at |-> "down", got |-> asker.got]
      /\ listed' = FALSE /\ slot' = "gone" /\ closing' = "none"
      /\ UNCHANGED <<question, late>>
  BY DEF PromptCrash, PromptInv, PromptTypes
<1>3. PromptTypes'
  BY <1>1, <1>2 DEF PromptInv, PromptTypes, Answering
<1>4. QED
  BY <1>1, <1>2, <1>3 DEF PromptCrash, PromptInv, PromptTypes, PromptsSafe, ToldIsStored,
                          AcceptedIsStored, NoneLeftPending, Resolutions, Terminal

LEMMA AnswerStep ==
    ASSUME PromptInv, NEW a \in Answerers, Answer(a)
    PROVE  PromptInv'
<1> USE DEF PromptInv, PromptTypes, PromptsSafe, ToldIsStored, AcceptedIsStored, NoneLeftPending,
            Resolutions, Terminal
<1>1. ASSUME NEW r \in Resolutions, view(a, r)
      PROVE  PromptInv'
  BY <1>1 DEF view, Said
<1>2. CASE persist_plan_prompt_resolution(a)
  BY <1>2 DEF persist_plan_prompt_resolution, Transition, Said
<1>3. CASE resolve(a)
  <2> DEFINE row == answering[a]
             reply == IF listed /\ slot = "empty" THEN "accepted" ELSE "refused"
  <2>1. /\ row.at = "stored" /\ listed' = FALSE
        /\ slot' = IF listed /\ slot = "empty" THEN row.resolution ELSE slot
        /\ answering' = [answering EXCEPT ![a] = [row EXCEPT !.at = "done", !.said = reply]]
        /\ UNCHANGED <<question, asker, closing, late>>
    BY <1>3 DEF resolve, Said
  <2>2. row \in Answering
    BY DEF Answering
  <2>3. /\ answering' \in [Answerers -> Answering]
        /\ \A b \in Answerers \ {a} : answering'[b] = answering[b]
        /\ answering'[a].at = "done" /\ answering'[a].said = reply
        /\ answering'[a].resolution = row.resolution
    BY <2>1, <2>2 DEF Answering
  <2>4. PromptTypes'
    BY <2>1, <2>2, <2>3 DEF Answering
  <2>5. QED BY <2>1, <2>2, <2>3, <2>4 DEF Answering
<1>4. QED BY <1>1, <1>2, <1>3 DEF Answer

LEMMA PromptInvStep ==
    ASSUME PromptInv, [PromptNext]_promptVars
    PROVE  PromptInv'
<1>1. CASE UNCHANGED promptVars
  BY <1>1 DEF promptVars, PromptInv, PromptTypes, PromptsSafe, ToldIsStored, AcceptedIsStored,
              NoneLeftPending
<1>2. QED BY <1>1, AskerStep, AnswerStep, PromptCrashStep DEF PromptNext

\* What the agent is told of a question is what its row says for ever, an answer that was
\* accepted is that one and no other, and no question of a call that is over stays pending.
THEOREM PromptsKept == PromptSpec => []PromptsSafe
<1>1. PromptInv /\ [PromptNext]_promptVars => PromptInv'
  BY PromptInvStep
<1>2. PromptInv => PromptsSafe
  BY DEF PromptInv
<1>3. QED BY <1>1, <1>2, PromptInvInit, PTL DEF PromptSpec

----------------------------------------------------------------------------
(* The executions of commands.                                              *)

Digests == {"none"} \cup {d[c].digest : d \in Demands, c \in Callers}
CallerSteps == {"idle", "claim", "create", "write", "wait", "parked", "stray", "answered", "refused", "lost"}
Creating == {"create", "write"}
ExecSteps == {"none", "over", "dropped", "lost"} \cup UnderWay
Launched == UnderWay \ {"claimed"}
RegistryRows == [id : 0..MaxExecutions, digest : Digests, outcome : Outcomes]
JournalFiles == [state : {"absent", "torn", "whole"}, id : 0..MaxExecutions, digest : Digests, outcome : Outcomes]

ExecTyped ==
    /\ demand \in Demands
    /\ records \in [Keys -> RegistryRows]
    /\ completed \in Seq(Keys)
    /\ disk \in [Keys -> [running : JournalFiles, finished : JournalFiles]]
    /\ available \in BOOLEAN
    /\ caller \in [Callers -> [step : CallerSteps, id : 0..MaxExecutions]]
    /\ exec \in [Ids -> [step : ExecSteps, key : Keys \cup {NoExec.key}, digest : Digests,
                         outcome : Outcomes, spawns : Nat, kept : BOOLEAN]]
    /\ said \in [Ids -> SUBSET Outcomes]
    /\ evictions \in [Keys -> Nat]

\* An execution stands in the entry of its key from the claim to its publication, and its
\* command is started at most once.
ExecAt(i) ==
    /\ exec[i].spawns <= 1
    /\ exec[i].step # "none" => exec[i].key \in Keys
    /\ exec[i].step \in {"none", "claimed", "queued", "dropped"} => exec[i].spawns = 0
    /\ exec[i].step \in {"none"} \cup UnderWay => said[i] = {}
    /\ exec[i].step \in {"ended", "recording", "recorded"} => exec[i].outcome = "reported"
    /\ exec[i].step \in UnderWay => /\ records[exec[i].key].id = i
                                    /\ records[exec[i].key].outcome = "none"
    /\ exec[i].step \in Launched => disk[exec[i].key].running.state # "absent"
    /\ exec[i].step = "recorded" /\ exec[i].kept =>
          /\ disk[exec[i].key].finished.state = "whole"
          /\ disk[exec[i].key].finished.id = i
          /\ disk[exec[i].key].finished.outcome = exec[i].outcome

\* r, an entry or a file, is about an execution of key k.
About(e, r, k) ==
    /\ r.id \in Ids /\ e[r.id].step # "none"
    /\ e[r.id].key = k /\ e[r.id].digest = r.digest

RecordAt(k) ==
    records[k] # NoRecord =>
        /\ available /\ About(exec, records[k], k)
        /\ records[k].outcome = "none" => exec[records[k].id].step \in UnderWay
        /\ records[k].outcome # "none" => exec[records[k].id].step \in {"over", "lost", "dropped"}

\* What was published of an execution that could be recorded is in its file as long as there
\* is one, and no file that says that it runs is taken for its end.
RunningAt(k) ==
    disk[k].running.state = "whole" =>
        /\ About(exec, disk[k].running, k)
        /\ exec[disk[k].running.id].kept /\ said[disk[k].running.id] # {} => disk[k].finished.state # "absent"

FinishedAt(k) ==
    disk[k].finished.state = "whole" =>
        /\ About(exec, disk[k].finished, k) /\ disk[k].finished.outcome # "none"
        /\ exec[disk[k].finished.id].kept /\ said[disk[k].finished.id] # {} =>
              said[disk[k].finished.id] = {disk[k].finished.outcome}

SaidOnce == \A i \in Ids : exec[i].kept => \A a, b \in said[i] : a = b

\* What a caller asked for was forgotten or rolled back.
Forgotten(c) ==
    \/ evictions[KeyOf(c)] > 0
    \/ \E i \in Ids : exec[i].step = "dropped" /\ exec[i].key = KeyOf(c) /\ exec[i].digest = demand[c].digest

CallerAt(c) ==
    LET i == caller[c].id
        k == KeyOf(c) IN
    /\ caller[c].step \in Creating =>
          /\ i \in Ids /\ exec[i].step = "claimed"
          /\ exec[i].key = k /\ exec[i].digest = demand[c].digest
    /\ caller[c].step = "wait" =>
          /\ i \in Ids /\ exec[i].step # "none"
          /\ exec[i].key = k /\ exec[i].digest = demand[c].digest
          /\ records[k].id # i => Forgotten(c)
    /\ caller[c].step = "parked" =>
          i \in Ids /\ exec[i].step \in UnderWay /\ exec[i].key = k
    /\ caller[c].step = "answered" =>
          /\ i \in Ids /\ exec[i].step # "none" /\ exec[i].key = k
          /\ exec[i].digest # demand[c].digest => Forgotten(c)

OneCreator ==
    \A c, d \in Callers : caller[c].step \in Creating /\ caller[d].step \in Creating /\ caller[c].id = caller[d].id => c = d

\* A key may be started anew only if it was forgotten as often as it was started.
StartsAt(k) ==
    /\ Cardinality(Started(k)) <= evictions[k] + 1
    /\ available /\ records[k] = NoRecord => Cardinality(Started(k)) <= evictions[k]
    /\ disk[k].running.state = "absent" /\ disk[k].finished.state = "absent" =>
          Cardinality(Started(k)) <= evictions[k]
    /\ \A i \in Ids : exec[i].step \in {"claimed", "queued"} /\ exec[i].key = k =>
          Cardinality(Started(k)) <= evictions[k]

Queued ==
    /\ \A m, n \in DOMAIN completed : completed[m] = completed[n] => m = n
    /\ \A k \in Keys : IsFinished(k) <=> \E n \in DOMAIN completed : completed[n] = k
    /\ Cardinality(Held) <= MAX_RECORDS

ExecInv ==
    /\ ExecTyped /\ SaidOnce /\ OneCreator /\ Queued
    /\ \A i \in Ids : ExecAt(i)
    /\ \A k \in Keys : RecordAt(k) /\ RunningAt(k) /\ FinishedAt(k) /\ StartsAt(k)
    /\ \A c \in Callers : CallerAt(c)

LEMMA DemandKeys == ExecTyped => \A c \in Callers : KeyOf(c) \in Keys /\ demand[c].digest \in Digests
BY ExecutionAssumption DEF ExecTyped, KeyOf, Digests

LEMMA ExecInvInit == ExecutionInit => ExecInv
<1> SUFFICES ASSUME ExecutionInit PROVE ExecInv
  OBVIOUS
<1>0. MaxExecutions \in Nat /\ MAX_RECORDS \in Nat \ {0} /\ IsFiniteSet(Keys)
  BY ExecutionAssumption
<1>1. ExecTyped
  <2>1. 0 \in 0..MaxExecutions /\ "none" \in Digests /\ "none" \in Outcomes
    BY <1>0 DEF Digests, Outcomes
  <2>2. completed \in Seq(Keys)
    BY DEF ExecutionInit
  <2>3. records \in [Keys -> RegistryRows] /\ disk \in [Keys -> [running : JournalFiles, finished : JournalFiles]]
    BY <2>1 DEF ExecutionInit, NoRecord, NoJournals, NoJournal, RegistryRows, JournalFiles
  <2>4. caller \in [Callers -> [step : CallerSteps, id : 0..MaxExecutions]]
    BY <2>1 DEF ExecutionInit, NoCaller, CallerSteps
  <2>5. exec \in [Ids -> [step : ExecSteps, key : Keys \cup {NoExec.key}, digest : Digests,
                          outcome : Outcomes, spawns : Nat, kept : BOOLEAN]]
    BY <2>1 DEF ExecutionInit, NoExec, ExecSteps
  <2> QED
    BY <2>2, <2>3, <2>4, <2>5 DEF ExecTyped, ExecutionInit
<1>2. SaidOnce /\ OneCreator
  BY DEF SaidOnce, OneCreator, ExecutionInit, NoCaller, Creating
<1>3. Queued
  <2>1. Held = {}
    BY DEF Held, ExecutionInit
  <2>2. Cardinality(Held) = 0
    BY <2>1, FS_EmptySet
  <2>3. DOMAIN completed = {}
    BY DEF ExecutionInit
  <2> QED
    BY <1>0, <2>2, <2>3 DEF Queued, IsFinished, ExecutionInit, NoRecord
<1>4. ASSUME NEW i \in Ids PROVE ExecAt(i)
  BY DEF ExecAt, ExecutionInit, NoExec, UnderWay, Launched
<1>5. ASSUME NEW k \in Keys PROVE RecordAt(k) /\ RunningAt(k) /\ FinishedAt(k)
  BY DEF RecordAt, RunningAt, FinishedAt, ExecutionInit, NoJournals, NoJournal
<1>6. ASSUME NEW k \in Keys PROVE StartsAt(k)
  <2>1. Started(k) = {}
    BY DEF Started, ExecutionInit, NoExec
  <2>2. Cardinality(Started(k)) = 0
    BY <2>1, FS_EmptySet
  <2> QED
    BY <2>2 DEF StartsAt, ExecutionInit
<1>7. ASSUME NEW c \in Callers PROVE CallerAt(c)
  BY DEF CallerAt, ExecutionInit, NoCaller, Creating
<1> QED
  BY <1>1, <1>2, <1>3, <1>4, <1>5, <1>6, <1>7 DEF ExecInv

\* A step takes nothing back of what was said of an execution, and forgets no eviction.
Grows ==
    /\ demand' = demand
    /\ \A i \in Ids : exec[i].step # "none" =>
          /\ exec'[i].step # "none" /\ exec'[i].key = exec[i].key /\ exec'[i].digest = exec[i].digest
          /\ exec[i].step = "dropped" => exec'[i].step = "dropped"
    /\ \A k \in Keys : evictions[k] > 0 => evictions'[k] > 0

LEMMA ForgottenStays ==
    ASSUME ExecTyped, Grows, NEW c \in Callers, Forgotten(c)
    PROVE  Forgotten(c)'
<1>1. KeyOf(c) \in Keys /\ KeyOf(c)' = KeyOf(c) /\ demand'[c].digest = demand[c].digest
  BY DemandKeys DEF Grows, KeyOf
<1>2. CASE evictions[KeyOf(c)] > 0
  BY <1>1, <1>2 DEF Grows, Forgotten
<1>3. CASE ~(evictions[KeyOf(c)] > 0)
  <2>1. PICK i \in Ids : exec[i].step = "dropped" /\ exec[i].key = KeyOf(c) /\ exec[i].digest = demand[c].digest
    BY <1>3 DEF Forgotten
  <2>2. exec'[i].step = "dropped" /\ exec'[i].key = KeyOf(c)' /\ exec'[i].digest = demand'[c].digest
    BY <2>1, <1>1 DEF Grows
  <2> QED
    BY <2>2 DEF Forgotten
<1> QED
  BY <1>2, <1>3

LEMMA AboutStays ==
    ASSUME Grows, NEW r, NEW k, About(exec, r, k)
    PROVE  About(exec', r, k)
BY DEF Grows, About

\* A step of a caller that changes nothing but where the caller is.
Moves(c) ==
    /\ UNCHANGED <<demand, records, completed, disk, available, exec, said, evictions>>
    /\ \/ Goes(c, "claim", 0) \/ Goes(c, "refused", 0)
       \/ \E i \in 0..MaxExecutions, step \in {"answered", "wait", "parked", "stray"} :
             Goes(c, step, i) /\ CallerAt(c)'

LEMMA MoveStep ==
    ASSUME ExecInv, NEW c \in Callers, Moves(c)
    PROVE  ExecInv'
<1>0. ExecTyped /\ SaidOnce /\ OneCreator /\ Queued
  BY DEF ExecInv
<1>1. PICK step \in CallerSteps \ Creating, i \in 0..MaxExecutions : Goes(c, step, i) /\ CallerAt(c)'
  <2>1. CASE Goes(c, "claim", 0) \/ Goes(c, "refused", 0)
    <3>1. PICK step \in {"claim", "refused"} : Goes(c, step, 0)
      BY <2>1
    <3>2. caller'[c] = [step |-> step, id |-> 0]
      BY <3>1, <1>0 DEF Goes, ExecTyped
    <3>3. CallerAt(c)'
      BY <3>2 DEF CallerAt, Creating
    <3> QED
      BY <3>1, <3>3, ExecutionAssumption DEF CallerSteps, Creating
  <2>2. CASE ~(Goes(c, "claim", 0) \/ Goes(c, "refused", 0))
    BY <2>2 DEF Moves, CallerSteps, Creating
  <2> QED
    BY <2>1, <2>2
<1>2. caller' = [caller EXCEPT ![c] = [step |-> step, id |-> i]]
  BY <1>1 DEF Goes
<1>3. UNCHANGED <<demand, records, completed, disk, available, exec, said, evictions>>
  BY DEF Moves
<1>4. ExecTyped'
  BY <1>0, <1>2, <1>3 DEF ExecTyped
<1>5. OneCreator'
  BY <1>0, <1>2, <1>3 DEF OneCreator, ExecTyped
<1>6. ASSUME NEW d \in Callers PROVE CallerAt(d)'
  <2>1. CASE d = c
    BY <1>1, <2>1
  <2>2. CASE d # c
    <3>1. CallerAt(d) /\ caller'[d] = caller[d]
      BY <2>2, <1>0, <1>2 DEF ExecInv, ExecTyped
    <3> QED
      BY <3>1, <1>3 DEF CallerAt, KeyOf, Forgotten
  <2> QED
    BY <2>1, <2>2
<1>7. SaidOnce' /\ Queued'
  BY <1>0, <1>3 DEF SaidOnce, Queued, IsFinished, Held
<1>8. ASSUME NEW j \in Ids PROVE ExecAt(j)'
  BY <1>3 DEF ExecInv, ExecAt
<1>9. ASSUME NEW k \in Keys PROVE (RecordAt(k) /\ RunningAt(k) /\ FinishedAt(k) /\ StartsAt(k))'
  BY <1>3 DEF ExecInv, RecordAt, RunningAt, FinishedAt, StartsAt, Started
<1> QED
  BY <1>4, <1>5, <1>6, <1>7, <1>8, <1>9 DEF ExecInv

LEMMA ClaimKnownStep ==
    ASSUME ExecInv, NEW c \in Callers, ClaimKnown(c)
    PROVE  Moves(c)
<1> DEFINE k == KeyOf(c)
           r == records[k]
<1>0. ExecTyped /\ k \in Keys
  BY DemandKeys DEF ExecInv
<1>1. RecordAt(k) /\ r # NoRecord
  BY <1>0 DEF ExecInv, ClaimKnown
<1>2. About(exec, r, k) /\ r.id \in 0..MaxExecutions
  BY <1>0, <1>1, ExecutionAssumption DEF RecordAt, About, Ids
<1>3. UNCHANGED <<demand, records, completed, disk, available, exec, said, evictions>>
  BY DEF ClaimKnown
<1>4. CASE r.digest # demand[c].digest
  BY <1>3, <1>4 DEF ClaimKnown, Moves
<1>5. CASE r.digest = demand[c].digest
  <2>1. PICK step \in {"answered", "wait"} : Goes(c, step, r.id)
    BY <1>5 DEF ClaimKnown
  <2>2. caller'[c] = [step |-> step, id |-> r.id]
    BY <2>1, <1>0 DEF Goes, ExecTyped
  <2>3. CallerAt(c)'
    BY <2>2, <1>2, <1>3, <1>5 DEF CallerAt, Creating, KeyOf, About
  <2> QED
    BY <1>2, <1>3, <2>1, <2>3 DEF Moves
<1> QED
  BY <1>4, <1>5

LEMMA SubscribeStep ==
    ASSUME ExecInv, NEW c \in Callers, Subscribe(c)
    PROVE  Moves(c)
<1> DEFINE k == KeyOf(c)
           r == records[k]
           i == caller[c].id
<1>0. ExecTyped /\ k \in Keys /\ CallerAt(c) /\ RecordAt(k)
  BY DemandKeys DEF ExecInv
<1>1. caller[c].step = "wait" /\ UNCHANGED <<demand, records, completed, disk, available, exec, said, evictions>>
  BY DEF Subscribe
<1>2. /\ i \in Ids /\ exec[i].step # "none"
      /\ exec[i].key = k /\ exec[i].digest = demand[c].digest
      /\ r.id # i => Forgotten(c)
  BY <1>0, <1>1 DEF CallerAt
<1>3. Forgotten(c) => Forgotten(c)'
  BY <1>1 DEF Forgotten, KeyOf
<1>4. CASE r # NoRecord /\ r.outcome # "none"
  <2>1. Goes(c, "answered", r.id)
    BY <1>4 DEF Subscribe, IsFinished
  <2>2. About(exec, r, k) /\ r.id \in 0..MaxExecutions
    BY <1>0, <1>4, ExecutionAssumption DEF RecordAt, About, Ids
  <2>3. caller'[c] = [step |-> "answered", id |-> r.id]
    BY <2>1, <1>0 DEF Goes, ExecTyped
  <2>4. CallerAt(c)'
    BY <2>2, <2>3, <1>1, <1>2, <1>3 DEF CallerAt, Creating, KeyOf, About
  <2> QED
    BY <1>1, <2>1, <2>2, <2>4 DEF Moves
<1>5. CASE ~(r # NoRecord /\ r.outcome # "none")
  <2>1. Goes(c, IF r.id = i THEN "parked" ELSE "stray", i)
    BY <1>5 DEF Subscribe, IsFinished
  <2>2. i \in 0..MaxExecutions
    BY <1>2, ExecutionAssumption DEF Ids
  <2>3. CASE r.id = i
    <3>1. r # NoRecord
      BY <2>3, <1>2, ExecutionAssumption DEF NoRecord, Ids
    <3>2. exec[i].step \in UnderWay
      BY <3>1, <2>3, <1>5, <1>0 DEF RecordAt
    <3>3. caller'[c] = [step |-> "parked", id |-> i]
      BY <2>1, <2>3, <1>0 DEF Goes, ExecTyped
    <3>4. CallerAt(c)'
      BY <3>2, <3>3, <1>1, <1>2 DEF CallerAt, Creating, KeyOf
    <3> QED
      BY <1>1, <2>1, <2>2, <2>3, <3>4 DEF Moves
  <2>4. CASE r.id # i
    <3>3. caller'[c] = [step |-> "stray", id |-> i]
      BY <2>1, <2>4, <1>0 DEF Goes, ExecTyped
    <3>4. CallerAt(c)'
      BY <3>3 DEF CallerAt, Creating
    <3> QED
      BY <1>1, <2>1, <2>2, <2>4, <3>4 DEF Moves
  <2> QED
    BY <2>3, <2>4
<1> QED
  BY <1>4, <1>5

LEMMA CallerMoves ==
    ASSUME ExecInv, NEW c \in Callers,
           Request(c) \/ ClaimUnavailable(c) \/ ClaimKnown(c) \/ ClaimBusy(c) \/ Subscribe(c)
    PROVE  ExecInv'
<1>1. Moves(c)
  BY ClaimKnownStep, SubscribeStep DEF Request, ClaimUnavailable, ClaimBusy, Goes, Moves
<1> QED
  BY <1>1, MoveStep

Executions == [step : ExecSteps, key : Keys \cup {NoExec.key}, digest : Digests,
               outcome : Outcomes, spawns : Nat, kept : BOOLEAN]

LEMMA IdsFinite == IsFiniteSet(Ids) /\ \A k : IsFiniteSet(Started(k)) /\ Cardinality(Started(k)) \in Nat
<1>1. IsFiniteSet(Ids)
  BY FS_Interval, ExecutionAssumption DEF Ids
<1>2. ASSUME NEW k PROVE IsFiniteSet(Started(k)) /\ Cardinality(Started(k)) \in Nat
  <2>1. IsFiniteSet(Started(k))
    BY <1>1, FS_Subset DEF Started
  <2> QED
    BY <2>1, FS_CardinalityType
<1> QED
  BY <1>1, <1>2

\* Who owns a key: two executions of it are not under way.
LEMMA OneUnderWay ==
    ASSUME ExecInv, NEW i \in Ids, NEW j \in Ids, exec[i].step \in UnderWay, exec[j].step \in UnderWay,
           exec[i].key = exec[j].key
    PROVE  i = j
BY DEF ExecInv, ExecAt

\* A step of an execution between its start and its publication.
Works(i) ==
    \E e \in Executions, f \in JournalFiles :
        LET k == exec[i].key IN
        /\ exec[i].step \in Launched
        /\ UNCHANGED <<demand, records, completed, available, caller, said, evictions>>
        /\ exec' = [exec EXCEPT ![i] = e]
        /\ disk' = [disk EXCEPT ![k].finished = f]
        /\ e.key = k /\ e.digest = exec[i].digest /\ e.step \in Launched \ {"queued"}
        /\ e.kept => exec[i].kept
        /\ e.step \in {"ended", "recording", "recorded"} => e.outcome = "reported"
        /\ e.step = "recorded" /\ e.kept => f.state = "whole" /\ f.id = i /\ f.outcome = e.outcome
        /\ e.spawns <= 1 /\ (exec[i].step # "queued" => e.spawns = exec[i].spawns)
        /\ \/ f = disk[k].finished \/ f.state = "torn"
           \/ f.state = "whole" /\ f.id = i /\ f.digest = exec[i].digest /\ f.outcome = "reported"

LEMMA WorkStep ==
    ASSUME ExecInv, NEW i \in Ids, Works(i)
    PROVE  ExecInv'
<1> DEFINE k == exec[i].key
<1>0. ExecTyped /\ ExecAt(i) /\ exec[i].step \in Launched /\ exec[i].step \in UnderWay
  BY DEF ExecInv, Works, Launched
<1>1. PICK e \in Executions, f \in JournalFiles :
        /\ exec' = [exec EXCEPT ![i] = e]
        /\ disk' = [disk EXCEPT ![k].finished = f]
        /\ e.key = k /\ e.digest = exec[i].digest /\ e.step \in Launched \ {"queued"}
        /\ e.kept => exec[i].kept
        /\ e.step \in {"ended", "recording", "recorded"} => e.outcome = "reported"
        /\ e.step = "recorded" /\ e.kept => f.state = "whole" /\ f.id = i /\ f.outcome = e.outcome
        /\ e.spawns <= 1 /\ (exec[i].step # "queued" => e.spawns = exec[i].spawns)
        /\ \/ f = disk[k].finished \/ f.state = "torn"
           \/ f.state = "whole" /\ f.id = i /\ f.digest = exec[i].digest /\ f.outcome = "reported"
  BY DEF Works
<1>2. UNCHANGED <<demand, records, completed, available, caller, said, evictions>>
  BY DEF Works
<1>3. k \in Keys /\ records[k].id = i /\ records[k].outcome = "none" /\ said[i] = {}
      /\ disk[k].running.state # "absent" /\ exec[i].step # "none" /\ exec[i].step # "claimed"
      /\ exec[i].step # "dropped" /\ records[k] # NoRecord
  <2>1. k \in Keys /\ records[k].id = i /\ records[k].outcome = "none" /\ said[i] = {}
      /\ disk[k].running.state # "absent" /\ exec[i].step # "none" /\ exec[i].step # "claimed"
      /\ exec[i].step # "dropped"
    BY <1>0 DEF ExecAt, Launched, UnderWay
  <2>2. i # 0
    BY ExecutionAssumption DEF Ids
  <2> QED
    BY <2>1, <2>2 DEF NoRecord
<1>4. exec'[i] = e /\ \A j \in Ids \ {i} : exec'[j] = exec[j]
  BY <1>0, <1>1 DEF ExecTyped
<1>5. /\ disk'[k].running = disk[k].running /\ disk'[k].finished = f
      /\ \A x \in Keys \ {k} : disk'[x] = disk[x]
  BY <1>0, <1>1, <1>3 DEF ExecTyped
<1>6. Grows
  BY <1>2, <1>3, <1>4, <1>1 DEF Grows, Launched, UnderWay
<1>7. ExecTyped'
  <2>1. exec' \in [Ids -> Executions]
    BY <1>0, <1>1 DEF ExecTyped, Executions
  <2>2. disk' \in [Keys -> [running : JournalFiles, finished : JournalFiles]]
    BY <1>0, <1>1 DEF ExecTyped
  <2> QED
    BY <1>0, <1>2, <2>1, <2>2 DEF ExecTyped, Executions
<1>8. SaidOnce'
  BY <1>1, <1>2, <1>3, <1>4 DEF ExecInv, SaidOnce
<1>9. OneCreator' /\ Queued'
  BY <1>2 DEF ExecInv, OneCreator, Queued, IsFinished, Held
<1>10. ASSUME NEW j \in Ids PROVE ExecAt(j)'
  <2>1. CASE j = i
    BY <2>1, <1>1, <1>2, <1>3, <1>4, <1>5 DEF ExecAt, Launched, UnderWay
  <2>2. CASE j # i
    <3>1. exec'[j] = exec[j] /\ ExecAt(j)
      BY <2>2, <1>4 DEF ExecInv
    <3>2. exec[j].step \in UnderWay => exec[j].key # k
      BY <2>2, <1>0, OneUnderWay
    <3>3. exec[j].step \in UnderWay => exec[j].key \in Keys /\ disk'[exec[j].key] = disk[exec[j].key]
      BY <3>1, <3>2, <1>5 DEF ExecAt, UnderWay
    <3> QED
      BY <3>1, <3>3, <1>2 DEF ExecAt, Launched, UnderWay
  <2> QED
    BY <2>1, <2>2
<1>11. ASSUME NEW x \in Keys PROVE RecordAt(x)'
  <2>1. RecordAt(x)
    BY DEF ExecInv
  <2>2. CASE records[x] # NoRecord
    <3>1. About(exec', records[x], x) /\ records[x].id \in Ids
      BY <2>1, <2>2, <1>6, AboutStays DEF RecordAt, About
    <3>2. CASE records[x].id = i
      BY <3>1, <3>2, <2>1, <2>2, <1>0, <1>1, <1>2, <1>4 DEF RecordAt, Launched, UnderWay
    <3>3. CASE records[x].id # i
      BY <3>1, <3>3, <2>1, <2>2, <1>2, <1>4 DEF RecordAt
    <3> QED
      BY <3>2, <3>3
  <2> QED
    BY <2>2, <1>2 DEF RecordAt
<1>12. ASSUME NEW x \in Keys PROVE RunningAt(x)'
  <2>1. RunningAt(x) /\ disk'[x].running = disk[x].running
    BY <1>5 DEF ExecInv
  <2>2. CASE disk[x].running.state = "whole"
    <3>1. About(exec', disk[x].running, x) /\ disk[x].running.id \in Ids
      BY <2>1, <2>2, <1>6, AboutStays DEF RunningAt, About
    <3>2. CASE disk[x].running.id = i
      BY <3>1, <3>2, <2>1, <1>2, <1>3 DEF RunningAt
    <3>3. CASE disk[x].running.id # i
      <4>1. disk'[x].finished.state = "absent" => disk[x].finished.state = "absent"
        BY <1>1, <1>5
      <4> QED
        BY <3>1, <3>3, <4>1, <2>1, <2>2, <1>2, <1>4 DEF RunningAt
    <3> QED
      BY <3>2, <3>3
  <2> QED
    BY <2>1, <2>2 DEF RunningAt
<1>13. ASSUME NEW x \in Keys PROVE FinishedAt(x)'
  <2>1. FinishedAt(x)
    BY DEF ExecInv
  <2>2. CASE disk'[x].finished = disk[x].finished
    <3>1. CASE disk[x].finished.state = "whole"
      <4>1. About(exec', disk[x].finished, x) /\ disk[x].finished.id \in Ids
        BY <2>1, <3>1, <1>6, AboutStays DEF FinishedAt, About
      <4> QED
        BY <4>1, <2>1, <2>2, <3>1, <1>1, <1>2, <1>4 DEF FinishedAt
    <3> QED
      BY <2>2, <3>1 DEF FinishedAt
  <2>3. CASE disk'[x].finished # disk[x].finished
    <3>1. x = k /\ disk'[x].finished = f
      BY <2>3, <1>5
    <3>2. CASE f.state = "torn"
      BY <3>1, <3>2 DEF FinishedAt
    <3>3. CASE f.state = "whole" /\ f.id = i /\ f.digest = exec[i].digest /\ f.outcome = "reported"
      BY <3>1, <3>3, <1>1, <1>2, <1>3, <1>4 DEF FinishedAt, About, Launched, UnderWay
    <3> QED
      BY <3>1, <3>2, <3>3, <2>3, <1>1, <1>5
  <2> QED
    BY <2>2, <2>3
<1>14. ASSUME NEW x \in Keys PROVE StartsAt(x)'
  <2>1. StartsAt(x) /\ evictions[x] \in Nat
    BY <1>0 DEF ExecInv, ExecTyped
  <2>2. CASE x # k \/ exec[i].step # "queued"
    <3>1. Started(x)' = Started(x)
      BY <2>2, <1>1, <1>4 DEF Started
    <3>2. disk'[x].running.state = disk[x].running.state
          /\ (disk'[x].finished.state = "absent" => disk[x].finished.state = "absent")
      BY <1>1, <1>5
    <3>3. \A j \in Ids : exec'[j].step \in {"claimed", "queued"} => exec'[j] = exec[j]
      BY <1>1, <1>4 DEF Launched, UnderWay
    <3>4. DEFINE n == Cardinality(Started(x))
    <3>5. n' = n
      BY <3>1
    <3> HIDE DEF n
    <3> QED
      BY <3>2, <3>3, <3>5, <2>1, <1>2 DEF StartsAt, n
  <2>3. CASE x = k /\ exec[i].step = "queued"
    <3>1. Started(x)' \subseteq Started(x) \cup {i}
      BY <1>4 DEF Started
    <3>2. Cardinality(Started(x)) <= evictions[x]
      BY <2>1, <2>3 DEF StartsAt
    <3>3. Cardinality(Started(x)') <= Cardinality(Started(x)) + 1
      <4>1. IsFiniteSet(Started(x)) /\ Cardinality(Started(x)) \in Nat
        BY IdsFinite
      <4>2. /\ IsFiniteSet(Started(x) \cup {i})
            /\ Cardinality(Started(x) \cup {i}) = IF i \in Started(x) THEN Cardinality(Started(x)) ELSE Cardinality(Started(x)) + 1
        BY <4>1, FS_AddElement
      <4>3. Cardinality(Started(x)') <= Cardinality(Started(x) \cup {i})
        BY <3>1, <4>2, FS_Subset
      <4>4. Cardinality(Started(x)') \in Nat
        BY <3>1, <4>2, FS_Subset, FS_CardinalityType
      <4> QED
        BY <4>1, <4>2, <4>3, <4>4
    <3>4. Cardinality(Started(x))' <= evictions'[x] + 1
      <4>1. Cardinality(Started(x)') \in Nat /\ Cardinality(Started(x)) \in Nat
        <5>1. Cardinality(Started(x)) \in Nat /\ IsFiniteSet(Started(x) \cup {i})
          BY IdsFinite, FS_AddElement
        <5> QED
          BY <3>1, <5>1, FS_Subset, FS_CardinalityType
      <4> QED
        BY <4>1, <3>2, <3>3, <2>1, <1>2
    <3>5. records'[x] # NoRecord /\ disk'[x].running.state # "absent"
      BY <2>3, <1>2, <1>3, <1>5
    <3>6. \A j \in Ids : exec'[j].step \in {"claimed", "queued"} => exec'[j].key # x
      <4> SUFFICES ASSUME NEW j \in Ids, exec'[j].step \in {"claimed", "queued"}, exec'[j].key = x PROVE FALSE
        OBVIOUS
      <4>1. j # i
        BY <1>1, <1>4 DEF Launched, UnderWay
      <4>2. exec[j].step \in UnderWay /\ exec[j].key = exec[i].key
        BY <4>1, <1>4, <2>3 DEF UnderWay
      <4> QED
        BY <4>1, <4>2, <1>0, OneUnderWay
    <3> QED
      BY <3>4, <3>5, <3>6 DEF StartsAt
  <2> QED
    BY <2>2, <2>3
<1>15. ASSUME NEW c \in Callers PROVE CallerAt(c)'
  <2>1. CallerAt(c) /\ caller'[c] = caller[c] /\ KeyOf(c)' = KeyOf(c)
    BY <1>2 DEF ExecInv, KeyOf
  <2>2. Forgotten(c) => Forgotten(c)'
    BY <1>0, <1>6, ForgottenStays
  <2>3. \A j \in Ids : /\ exec[j].step # "none" => exec'[j].step # "none" /\ exec'[j].key = exec[j].key
                                                   /\ exec'[j].digest = exec[j].digest
                       /\ exec[j].step \in UnderWay => exec'[j].step \in UnderWay
                       /\ exec[j].step = "claimed" => exec'[j].step = "claimed"
    BY <1>1, <1>3, <1>4 DEF Launched, UnderWay
  <2>4. exec[caller[c].id].step \in {"claimed"} \cup UnderWay => exec[caller[c].id].step # "none"
    BY DEF UnderWay
  <2> QED
    BY <2>1, <2>2, <2>3, <2>4, <1>2 DEF CallerAt, Creating
<1> QED
  BY <1>7, <1>8, <1>9, <1>10, <1>11, <1>12, <1>13, <1>14, <1>15 DEF ExecInv

LEMMA WorksBy ==
    ASSUME ExecInv, NEW i \in Ids, Execute(i) \/ Exit(i) \/ CreateFinished(i) \/ WriteFinished(i)
    PROVE  Works(i)
<1> DEFINE k == exec[i].key
           x == exec[i]
<1>0. ExecTyped /\ ExecAt(i) /\ x \in Executions
  BY DEF ExecInv, ExecTyped, Executions
<1>1. x.step \in Launched /\ x.step \in UnderWay
  BY DEF Execute, Exit, CreateFinished, WriteFinished, Launched, UnderWay
<1>2. k \in Keys /\ disk[k] \in [running : JournalFiles, finished : JournalFiles]
  BY <1>0, <1>1 DEF ExecAt, UnderWay, ExecTyped
<1>3. disk[k].finished \in JournalFiles /\ [disk EXCEPT ![k].finished = disk[k].finished] = disk
  <2>1. disk[k] = [running |-> disk[k].running, finished |-> disk[k].finished]
    BY <1>2
  <2> QED
    BY <1>0, <1>2, <2>1 DEF ExecTyped
<1>4. x = [step |-> x.step, key |-> x.key, digest |-> x.digest, outcome |-> x.outcome,
           spawns |-> x.spawns, kept |-> x.kept]
  BY <1>0 DEF Executions
<1>5. UNCHANGED <<demand, records, completed, available, caller, said, evictions>>
  BY DEF Execute, Exit, CreateFinished, WriteFinished
<1>6. x.spawns \in Nat /\ x.spawns <= 1
  BY <1>0 DEF Executions, ExecAt
<1>7. ASSUME Ends(i), x.step \in {"queued", "running"}, UNCHANGED disk
      PROVE  Works(i)
  <2> DEFINE e == [x EXCEPT !.step = "ended", !.outcome = "reported"]
  <2>1. exec' = [exec EXCEPT ![i] = e]
    BY <1>0, <1>4, <1>7 DEF Ends, ExecTyped
  <2>2. e \in Executions
    BY <1>0 DEF Executions, ExecSteps, UnderWay, Outcomes
  <2>3. e.key = k /\ e.digest = x.digest /\ e.step = "ended" /\ e.outcome = "reported" /\ e.spawns = x.spawns /\ (e.kept => x.kept)
    OBVIOUS
  <2>4. disk' = [disk EXCEPT ![k].finished = disk[k].finished]
    BY <1>3, <1>7
  <2> HIDE DEF e
  <2> QED
    BY <1>1, <1>3, <1>5, <1>6, <1>7, <2>1, <2>2, <2>3, <2>4 DEF Works, Launched, UnderWay
<1>8. CASE Execute(i)
  <2>1. CASE Ends(i)
    BY <1>7, <1>8, <2>1 DEF Execute
  <2>2. CASE exec' = [exec EXCEPT ![i].step = "running", ![i].spawns = @ + 1]
    <3> DEFINE e == [x EXCEPT !.step = "running", !.spawns = 1]
    <3>2. x.spawns = 0 /\ x.step = "queued"
      BY <1>0, <1>8 DEF ExecAt, Execute
    <3>1. exec' = [exec EXCEPT ![i] = e]
      BY <1>0, <1>4, <2>2, <3>2 DEF ExecTyped
    <3>3. e \in Executions
      BY <1>0, <1>6 DEF Executions, ExecSteps, UnderWay
    <3>4. e.key = k /\ e.digest = x.digest /\ e.step = "running" /\ e.spawns = 1 /\ e.spawns <= 1 /\ (e.kept => x.kept)
      BY <1>0, <3>2 DEF Executions
    <3>5. disk' = [disk EXCEPT ![k].finished = disk[k].finished]
      BY <1>3, <1>8 DEF Execute
    <3> HIDE DEF e
    <3> QED
      BY <1>1, <1>3, <1>5, <3>1, <3>2, <3>3, <3>4, <3>5 DEF Works, Launched, UnderWay
  <2> QED
    BY <1>8, <2>1, <2>2 DEF Execute
<1>9. CASE Exit(i)
  BY <1>7, <1>9 DEF Exit
<1>10. CASE CreateFinished(i)
  <2>0. x.outcome = "reported" /\ x.step = "ended"
    BY <1>0, <1>10 DEF ExecAt, CreateFinished
  <2>1. CASE /\ disk' = [disk EXCEPT ![k].finished = TornJournal]
             /\ exec' = [exec EXCEPT ![i].step = "recording"]
    <3> DEFINE e == [x EXCEPT !.step = "recording"]
    <3>1. exec' = [exec EXCEPT ![i] = e]
      BY <1>0, <1>4, <2>1 DEF ExecTyped
    <3>2. e \in Executions
      BY <1>0 DEF Executions, ExecSteps, UnderWay
    <3>3. TornJournal \in JournalFiles /\ TornJournal.state = "torn"
      BY ExecutionAssumption DEF TornJournal, NoJournal, JournalFiles, Digests, Outcomes
    <3>4. e.key = k /\ e.digest = x.digest /\ e.step = "recording" /\ e.outcome = x.outcome /\ e.spawns = x.spawns /\ (e.kept => x.kept)
      OBVIOUS
    <3> HIDE DEF e
    <3> QED
      BY <1>1, <1>5, <1>6, <2>0, <2>1, <3>1, <3>2, <3>3, <3>4 DEF Works, Launched, UnderWay
  <2>2. CASE exec' = [exec EXCEPT ![i].step = "recorded", ![i].kept = FALSE] /\ UNCHANGED disk
    <3> DEFINE e == [x EXCEPT !.step = "recorded", !.kept = FALSE]
    <3>1. exec' = [exec EXCEPT ![i] = e]
      BY <1>0, <1>4, <2>2 DEF ExecTyped
    <3>2. e \in Executions
      BY <1>0 DEF Executions, ExecSteps, UnderWay
    <3>4. e.key = k /\ e.digest = x.digest /\ e.step = "recorded" /\ e.outcome = x.outcome /\ e.spawns = x.spawns /\ ~e.kept
      OBVIOUS
    <3>5. disk' = [disk EXCEPT ![k].finished = disk[k].finished]
      BY <1>3, <2>2
    <3> HIDE DEF e
    <3> QED
      BY <1>1, <1>3, <1>5, <1>6, <2>0, <3>1, <3>2, <3>4, <3>5 DEF Works, Launched, UnderWay
  <2> QED
    BY <1>10, <2>1, <2>2 DEF CreateFinished
<1>11. CASE WriteFinished(i)
  <2> DEFINE whole == Written(i, records[k].digest, x.outcome)
  <2>0. x.outcome = "reported" /\ x.step = "recording"
    BY <1>0, <1>11 DEF ExecAt, WriteFinished
  <2>1. records[k].digest = x.digest
    <3>1. RecordAt(k) /\ records[k].id = i /\ i # 0
      BY <1>0, <1>1, <1>2, ExecutionAssumption DEF ExecInv, ExecAt, Ids
    <3> QED
      BY <3>1 DEF RecordAt, About, NoRecord
  <2>2. whole \in JournalFiles /\ whole.state = "whole" /\ whole.id = i /\ whole.digest = x.digest /\ whole.outcome = "reported"
    <3>1. i \in 0..MaxExecutions /\ x.digest \in Digests
      BY <1>0, ExecutionAssumption DEF Ids, Executions
    <3> QED
      BY <2>0, <2>1, <3>1 DEF Written, JournalFiles, Outcomes
  <2>3. TornJournal \in JournalFiles /\ TornJournal.state = "torn"
    BY ExecutionAssumption DEF TornJournal, NoJournal, JournalFiles, Digests, Outcomes
  <2>4. PICK f \in {TornJournal, whole}, kept \in {x.kept, FALSE} :
          /\ disk' = [disk EXCEPT ![k].finished = f]
          /\ \/ exec' = [exec EXCEPT ![i].step = "recorded"] /\ kept = x.kept /\ f = whole
             \/ exec' = [exec EXCEPT ![i].step = "recorded", ![i].kept = FALSE] /\ kept = FALSE
    BY <1>11 DEF WriteFinished
  <2> DEFINE e == [step |-> "recorded", key |-> x.key, digest |-> x.digest, outcome |-> x.outcome,
                spawns |-> x.spawns, kept |-> kept]
  <2>5. exec' = [exec EXCEPT ![i] = e]
    BY <1>0, <1>4, <2>4 DEF ExecTyped
  <2>6. e \in Executions
    BY <1>0 DEF Executions, ExecSteps, UnderWay
  <2>7. f \in JournalFiles /\ (f.state = "torn" \/ (f.state = "whole" /\ f.id = i /\ f.digest = x.digest /\ f.outcome = "reported"))
    BY <2>2, <2>3, <2>4
  <2>8. (e.kept => x.kept) /\ (e.kept => f = whole)
    BY <2>4
  <2>9. e.key = k /\ e.digest = x.digest /\ e.step = "recorded" /\ e.outcome = x.outcome /\ e.spawns = x.spawns
    OBVIOUS
  <2>10. disk' = [disk EXCEPT ![k].finished = f]
    BY <2>4
  <2> HIDE DEF whole, e
  <2>11. e.step = "recorded" /\ e.kept => f.state = "whole" /\ f.id = i /\ f.outcome = e.outcome
    BY <2>0, <2>2, <2>8, <2>9
  <2> QED
    BY <1>1, <1>5, <1>6, <2>0, <2>5, <2>6, <2>7, <2>8, <2>9, <2>10, <2>11 DEF Works, Launched, UnderWay
<1> QED
  BY <1>8, <1>9, <1>10, <1>11

LEMMA PublishStep ==
    ASSUME ExecInv, NEW i \in Ids, Publish(i)
    PROVE  ExecInv'
<1> DEFINE k == exec[i].key
<1>0. ExecTyped /\ ExecAt(i) /\ exec[i].step = "recorded" /\ exec[i].step \in UnderWay /\ exec[i].step \in Launched
  BY DEF ExecInv, Publish, Launched, UnderWay
<1>1. k \in Keys /\ records[k].id = i /\ records[k].outcome = "none" /\ said[i] = {}
      /\ disk[k].running.state # "absent" /\ exec[i].outcome = "reported"
  BY <1>0 DEF ExecAt
<1>2. UNCHANGED <<demand, disk, available, evictions>>
  BY DEF Publish
<1>3. /\ records'[k] = [records[k] EXCEPT !.outcome = "reported"]
      /\ \A x \in Keys \ {k} : records'[x] = records[x]
  BY <1>0, <1>1 DEF Publish, ExecTyped
<1>4. /\ exec'[i] = [exec[i] EXCEPT !.step = "over"]
      /\ \A j \in Ids \ {i} : exec'[j] = exec[j]
  BY <1>0 DEF Publish, ExecTyped
<1>5. said'[i] = {"reported"} /\ \A j \in Ids \ {i} : said'[j] = said[j]
  BY <1>0, <1>1 DEF Publish, ExecTyped
<1>6. /\ exec'[i].step = "over" /\ exec'[i].key = k /\ exec'[i].digest = exec[i].digest
      /\ (exec'[i].kept => exec[i].kept) /\ exec'[i].spawns = exec[i].spawns
  BY <1>0, <1>4 DEF ExecTyped
<1>7. \A c \in Callers : \/ caller'[c] = [step |-> "claim", id |-> 0]
                         \/ caller'[c] = caller[c] /\ caller[c] # [step |-> "parked", id |-> i]
  BY DEF Publish, Woken
<1>8. Grows
  BY <1>0, <1>2, <1>4, <1>6 DEF Grows
<1>9. ExecTyped'
  <2>1. records' \in [Keys -> RegistryRows]
    <3>1. "reported" \in Outcomes /\ exec[i].outcome = "reported"
      BY <1>1 DEF Outcomes
    <3>2. [records[k] EXCEPT !.outcome = "reported"] \in RegistryRows
      <4>1. records[k] \in RegistryRows
        BY <1>0, <1>1 DEF ExecTyped
      <4> QED
        BY <4>1, <3>1 DEF RegistryRows
    <3>3. records' = [records EXCEPT ![k] = [records[k] EXCEPT !.outcome = "reported"]]
      BY <1>0, <1>1, <3>1 DEF Publish, ExecTyped
    <3> QED
      BY <1>0, <3>2, <3>3 DEF ExecTyped
  <2>2. completed' \in Seq(Keys)
    BY <1>0, <1>1 DEF Publish, ExecTyped
  <2>3. exec' \in [Ids -> [step : ExecSteps, key : Keys \cup {NoExec.key}, digest : Digests,
                           outcome : Outcomes, spawns : Nat, kept : BOOLEAN]]
    <3>1. "over" \in ExecSteps
      BY DEF ExecSteps
    <3> QED
      BY <1>0, <3>1 DEF Publish, ExecTyped
  <2>4. said' \in [Ids -> SUBSET Outcomes]
    BY <1>0, <1>1 DEF Publish, ExecTyped, Outcomes
  <2>5. caller' \in [Callers -> [step : CallerSteps, id : 0..MaxExecutions]]
    BY <1>0, ExecutionAssumption DEF Publish, Woken, ExecTyped, CallerSteps
  <2> QED
    BY <1>0, <1>2, <2>1, <2>2, <2>3, <2>4, <2>5 DEF ExecTyped
<1>10. SaidOnce'
  BY <1>4, <1>5 DEF ExecInv, SaidOnce
<1>11. OneCreator'
  BY <1>7 DEF ExecInv, OneCreator, Creating
<1>12. Queued'
  <2>1. completed \in Seq(Keys) /\ Queued
    BY <1>0 DEF ExecInv, ExecTyped
  <2>2. completed' = Append(completed, k)
    BY DEF Publish
  <2>3. ~IsFinished(k)
    BY <1>1 DEF IsFinished
  <2>4. /\ DOMAIN completed' = 1..Len(completed) + 1 /\ Len(completed) \in Nat /\ DOMAIN completed = 1..Len(completed)
        /\ completed'[Len(completed) + 1] = k
        /\ \A n \in 1..Len(completed) : completed'[n] = completed[n]
    BY <2>1, <2>2, <1>1
  <2>5. \A n \in DOMAIN completed : completed[n] # k
    BY <2>1, <2>3, <1>1 DEF Queued
  <2>6. \A m, n \in DOMAIN completed' : completed'[m] = completed'[n] => m = n
    BY <2>1, <2>4, <2>5 DEF Queued
  <2>7. ASSUME NEW x \in Keys PROVE IsFinished(x)' <=> \E n \in DOMAIN completed' : completed'[n] = x
    <3>1. CASE x = k
      <4>1. IsFinished(x)'
        BY <3>1, <1>0, <1>1, <1>3 DEF IsFinished, ExecTyped, RegistryRows
      <4>2. \E n \in DOMAIN completed' : completed'[n] = x
        BY <3>1, <2>4
      <4> QED
        BY <4>1, <4>2
    <3>2. CASE x # k
      <4>1. IsFinished(x)' <=> IsFinished(x)
        BY <3>2, <1>3 DEF IsFinished
      <4>2. (\E n \in DOMAIN completed' : completed'[n] = x) <=> (\E n \in DOMAIN completed : completed[n] = x)
        BY <3>2, <2>4
      <4>3. IsFinished(x) <=> \E n \in DOMAIN completed : completed[n] = x
        BY <2>1 DEF Queued
      <4> QED
        BY <4>1, <4>2, <4>3
    <3> QED
      BY <3>1, <3>2
  <2>8. Held' = Held
    <3>1. records[k] # NoRecord /\ records'[k] # NoRecord
      <4>1. i # 0
        BY ExecutionAssumption DEF Ids
      <4>2. records'[k].id = i
        BY <1>0, <1>1, <1>3 DEF ExecTyped, RegistryRows
      <4> QED
        BY <4>1, <4>2, <1>1 DEF NoRecord
    <3> QED
      BY <3>1, <1>3 DEF Held
  <2>9. Cardinality(Held)' <= MAX_RECORDS
    BY <2>1, <2>8 DEF Queued
  <2> QED
    BY <2>6, <2>7, <2>9 DEF Queued
<1>13. ASSUME NEW j \in Ids PROVE ExecAt(j)'
  <2>1. CASE j = i
    BY <2>1, <1>0, <1>1, <1>2, <1>6 DEF ExecAt, Launched, UnderWay
  <2>2. CASE j # i
    <3>1. exec'[j] = exec[j] /\ said'[j] = said[j] /\ ExecAt(j)
      BY <2>2, <1>4, <1>5 DEF ExecInv
    <3>2. exec[j].step \in UnderWay => exec[j].key \in Keys \ {k}
      BY <2>2, <3>1, <1>0, OneUnderWay DEF ExecAt, UnderWay
    <3>3. exec[j].step \in UnderWay => records'[exec[j].key] = records[exec[j].key]
      BY <3>2, <1>3
    <3> QED
      BY <3>1, <3>3, <1>2 DEF ExecAt, Launched, UnderWay
  <2> QED
    BY <2>1, <2>2
<1>14. ASSUME NEW x \in Keys PROVE RecordAt(x)'
  <2>1. RecordAt(x)
    BY DEF ExecInv
  <2>2. CASE x = k
    <3>1. records[k] # NoRecord
      <4>1. i # 0
        BY ExecutionAssumption DEF Ids
      <4> QED
        BY <4>1, <1>1 DEF NoRecord
    <3>2. available /\ About(exec, records[k], k)
      BY <2>1, <2>2, <3>1 DEF RecordAt
    <3>3. /\ records'[k].id = i /\ records'[k].digest = records[k].digest /\ records'[k].outcome = "reported"
      BY <1>0, <1>1, <1>3 DEF ExecTyped, RegistryRows
    <3> QED
      BY <2>2, <3>2, <3>3, <1>1, <1>2, <1>6 DEF RecordAt, About
  <2>3. CASE x # k
    <3>1. CASE records[x] # NoRecord
      <4>1. About(exec', records[x], x) /\ records[x].id \in Ids \ {i}
        BY <2>1, <2>3, <3>1, <1>8, AboutStays DEF RecordAt, About
      <4> QED
        BY <2>1, <2>3, <3>1, <4>1, <1>2, <1>3, <1>4 DEF RecordAt
    <3> QED
      BY <2>3, <3>1, <1>3 DEF RecordAt
  <2> QED
    BY <2>2, <2>3
<1>15. ASSUME NEW x \in Keys PROVE RunningAt(x)'
  <2>1. RunningAt(x) /\ disk'[x] = disk[x]
    BY <1>2 DEF ExecInv
  <2>2. CASE disk[x].running.state = "whole"
    <3>1. About(exec', disk[x].running, x) /\ disk[x].running.id \in Ids
      BY <2>1, <2>2, <1>8, AboutStays DEF RunningAt, About
    <3>2. CASE disk[x].running.id = i
      <4>1. x = k
        BY <3>2, <2>1, <2>2 DEF RunningAt, About
      <4> QED
        BY <3>1, <3>2, <4>1, <2>1, <1>0, <1>6 DEF RunningAt, ExecAt
    <3>3. CASE disk[x].running.id # i
      BY <3>1, <3>3, <2>1, <2>2, <1>4, <1>5 DEF RunningAt
    <3> QED
      BY <3>2, <3>3
  <2> QED
    BY <2>1, <2>2 DEF RunningAt
<1>16. ASSUME NEW x \in Keys PROVE FinishedAt(x)'
  <2>1. FinishedAt(x) /\ disk'[x] = disk[x]
    BY <1>2 DEF ExecInv
  <2>2. CASE disk[x].finished.state = "whole"
    <3>1. About(exec', disk[x].finished, x) /\ disk[x].finished.id \in Ids
      BY <2>1, <2>2, <1>8, AboutStays DEF FinishedAt, About
    <3>2. CASE disk[x].finished.id = i
      <4>1. x = k
        BY <3>2, <2>1, <2>2 DEF FinishedAt, About
      <4> QED
        BY SMTT(40), <3>1, <3>2, <4>1, <2>1, <2>2, <1>0, <1>1, <1>5, <1>6 DEF FinishedAt, ExecAt
    <3>3. CASE disk[x].finished.id # i
      BY <3>1, <3>3, <2>1, <2>2, <1>4, <1>5 DEF FinishedAt
    <3> QED
      BY <3>2, <3>3
  <2> QED
    BY <2>1, <2>2 DEF FinishedAt
<1>17. ASSUME NEW x \in Keys PROVE StartsAt(x)'
  <2>1. StartsAt(x)
    BY DEF ExecInv
  <2>2. Started(x)' = Started(x)
    <3>1. \A j \in Ids : exec'[j].key = exec[j].key /\ exec'[j].spawns = exec[j].spawns
      BY <1>4, <1>6
    <3> QED
      BY <3>1 DEF Started
  <2>3. \A j \in Ids : exec'[j].step \in {"claimed", "queued"} => exec'[j] = exec[j]
    BY <1>4, <1>6
  <2>4. records'[x] = NoRecord => records[x] = NoRecord
    <3>1. records'[k] # NoRecord
      BY <1>0, <1>1, <1>3 DEF ExecTyped, RegistryRows, NoRecord
    <3> QED
      BY <3>1, <1>3
  <2>5. DEFINE n == Cardinality(Started(x))
  <2>6. n' = n
    BY <2>2
  <2> HIDE DEF n
  <2> QED
    BY <2>1, <2>3, <2>4, <2>6, <1>2 DEF StartsAt, n
<1>18. ASSUME NEW c \in Callers PROVE CallerAt(c)'
  <2>1. CallerAt(c) /\ KeyOf(c)' = KeyOf(c) /\ KeyOf(c) \in Keys
    BY <1>0, <1>2, DemandKeys DEF ExecInv, KeyOf
  <2>2. Forgotten(c) => Forgotten(c)'
    BY <1>0, <1>8, ForgottenStays
  <2>3. CASE caller'[c] = [step |-> "claim", id |-> 0]
    BY <2>3 DEF CallerAt, Creating
  <2>4. CASE caller'[c] = caller[c] /\ caller[c] # [step |-> "parked", id |-> i]
    <3>1. caller[c] = [step |-> caller[c].step, id |-> caller[c].id]
      BY <1>0 DEF ExecTyped
    <3>2. caller[c].step = "parked" => caller[c].id # i
      BY <2>4, <3>1
    <3>3. caller[c].step \in Creating => caller[c].id # i
      BY <2>1, <1>0 DEF CallerAt
    <3>4. \A j \in Ids : exec[j].step # "none" => exec'[j].step # "none" /\ exec'[j].key = exec[j].key
                                                   /\ exec'[j].digest = exec[j].digest
      BY <1>8 DEF Grows
    <3>5. records'[KeyOf(c)].id = records[KeyOf(c)].id
      <4>1. records'[k].id = records[k].id
        BY <1>0, <1>1, <1>3 DEF ExecTyped, RegistryRows
      <4> QED
        BY <4>1, <1>3, <2>1
    <3>6. \A j \in Ids : j # i => exec'[j] = exec[j]
      BY <1>4
    <3> QED
      BY <2>1, <2>2, <2>4, <3>2, <3>3, <3>4, <3>5, <3>6, <1>2 DEF CallerAt, Creating, UnderWay
  <2> QED
    BY <2>3, <2>4, <1>7
<1> QED
  BY <1>9, <1>10, <1>11, <1>12, <1>13, <1>14, <1>15, <1>16, <1>17, <1>18 DEF ExecInv

\* What the creation of the running record, or its failure, comes to.
Claims(c) ==
    LET i == caller[c].id
        k == KeyOf(c) IN
    /\ caller[c].step \in Creating
    /\ UNCHANGED <<demand, completed, available, said, evictions>>
    /\ \E s \in {"claimed", "queued", "dropped"}, f \in JournalFiles :
          /\ exec' = [exec EXCEPT ![i].step = s]
          /\ disk' = [disk EXCEPT ![k].running = f]
          /\ \/ f = disk[k].running \/ f.state = "torn"
             \/ f.state = "whole" /\ f.id = i /\ f.digest = demand[c].digest
          /\ s = "queued" => f.state # "absent"
          /\ records' = IF s = "dropped" THEN [records EXCEPT ![k] = NoRecord] ELSE records
          /\ caller' \in [Callers -> [step : CallerSteps, id : 0..MaxExecutions]]
          /\ \/ s = "claimed" /\ caller'[c] = [step |-> "write", id |-> i]
             \/ caller'[c] \in {[step |-> "claim", id |-> 0], [step |-> "refused", id |-> 0]}
          /\ \A d \in Callers \ {c} :
                \/ caller'[d] = [step |-> "claim", id |-> 0]
                \/ caller'[d] = caller[d] /\ (s = "dropped" => caller[d] # [step |-> "parked", id |-> i])

LEMMA ClaimsStep ==
    ASSUME ExecInv, NEW c \in Callers, Claims(c)
    PROVE  ExecInv'
<1> DEFINE i == caller[c].id
           k == KeyOf(c)
<1>0. ExecTyped /\ caller[c].step \in Creating /\ k \in Keys
  BY DemandKeys DEF ExecInv, Claims
<1>1. i \in Ids /\ exec[i].step = "claimed" /\ exec[i].key = k /\ exec[i].digest = demand[c].digest
  BY <1>0 DEF ExecInv, CallerAt
<1>2. ExecAt(i) /\ exec[i].step \in UnderWay
  BY <1>1 DEF ExecInv, UnderWay
<1>3. records[k].id = i /\ records[k].outcome = "none" /\ said[i] = {} /\ exec[i].spawns = 0 /\ records[k] # NoRecord
  <2>1. i # 0
    BY <1>1, ExecutionAssumption DEF Ids
  <2> QED
    BY <2>1, <1>1, <1>2 DEF ExecAt, NoRecord
<1>4. UNCHANGED <<demand, completed, available, said, evictions>>
  BY DEF Claims
<1>5. PICK s \in {"claimed", "queued", "dropped"}, f \in JournalFiles :
          /\ exec' = [exec EXCEPT ![i].step = s]
          /\ disk' = [disk EXCEPT ![k].running = f]
          /\ \/ f = disk[k].running \/ f.state = "torn"
             \/ f.state = "whole" /\ f.id = i /\ f.digest = demand[c].digest
          /\ s = "queued" => f.state # "absent"
          /\ records' = IF s = "dropped" THEN [records EXCEPT ![k] = NoRecord] ELSE records
          /\ caller' \in [Callers -> [step : CallerSteps, id : 0..MaxExecutions]]
          /\ \/ s = "claimed" /\ caller'[c] = [step |-> "write", id |-> i]
             \/ caller'[c] \in {[step |-> "claim", id |-> 0], [step |-> "refused", id |-> 0]}
          /\ \A d \in Callers \ {c} :
                \/ caller'[d] = [step |-> "claim", id |-> 0]
                \/ caller'[d] = caller[d] /\ (s = "dropped" => caller[d] # [step |-> "parked", id |-> i])
  BY DEF Claims
<1>6. /\ exec'[i].step = s /\ exec'[i].key = k /\ exec'[i].digest = exec[i].digest
      /\ (exec'[i].kept => exec[i].kept) /\ exec'[i].spawns = 0 /\ exec'[i].outcome = exec[i].outcome
      /\ \A j \in Ids \ {i} : exec'[j] = exec[j]
  BY <1>0, <1>1, <1>3, <1>5 DEF ExecTyped
<1>7. /\ disk'[k].running = f /\ disk'[k].finished = disk[k].finished
      /\ \A x \in Keys \ {k} : disk'[x] = disk[x]
  BY <1>0, <1>5 DEF ExecTyped
<1>8. /\ \A x \in Keys \ {k} : records'[x] = records[x]
      /\ IF s = "dropped" THEN records'[k] = NoRecord ELSE records'[k] = records[k]
  BY <1>0, <1>5 DEF ExecTyped
<1>9. Grows
  BY <1>1, <1>4, <1>6 DEF Grows
<1>10. ExecTyped'
  <2>1. records' \in [Keys -> RegistryRows]
    <3>1. NoRecord \in RegistryRows
      BY ExecutionAssumption DEF NoRecord, RegistryRows, Digests, Outcomes
    <3> QED
      BY <1>0, <1>5, <3>1 DEF ExecTyped
  <2>2. disk' \in [Keys -> [running : JournalFiles, finished : JournalFiles]]
    BY <1>0, <1>5 DEF ExecTyped
  <2>3. exec' \in [Ids -> [step : ExecSteps, key : Keys \cup {NoExec.key}, digest : Digests,
                           outcome : Outcomes, spawns : Nat, kept : BOOLEAN]]
    <3>1. s \in ExecSteps
      BY DEF ExecSteps, UnderWay
    <3> QED
      BY <1>0, <1>5, <3>1 DEF ExecTyped
  <2> QED
    BY <1>0, <1>4, <1>5, <2>1, <2>2, <2>3 DEF ExecTyped
<1>11. SaidOnce'
  BY <1>3, <1>4, <1>6 DEF ExecInv, SaidOnce
<1>12. OneCreator'
  <2>1. \A d \in Callers : caller'[d].step \in Creating => caller[d].step \in Creating /\ caller'[d].id = caller[d].id
    BY <1>0, <1>5 DEF Creating
  <2> QED
    BY <2>1 DEF ExecInv, OneCreator
<1>13. Queued'
  <2>1. Queued
    BY DEF ExecInv
  <2>2. \A x \in Keys : IsFinished(x)' <=> IsFinished(x)
    BY <1>3, <1>8 DEF IsFinished, NoRecord
  <2>3. Held' \subseteq Held /\ Held \subseteq Keys
    BY <1>8 DEF Held
  <2>4. Cardinality(Held') <= MAX_RECORDS
    <3>1. IsFiniteSet(Held)
      BY <2>3, ExecutionAssumption, FS_Subset
    <3>2. Cardinality(Held') <= Cardinality(Held) /\ Cardinality(Held') \in Nat /\ Cardinality(Held) \in Nat
      BY <2>3, <3>1, FS_Subset, FS_CardinalityType
    <3> QED
      BY <2>1, <3>2, ExecutionAssumption DEF Queued
  <2> QED
    BY <2>1, <2>2, <2>4, <1>4 DEF Queued
<1>14. ASSUME NEW j \in Ids PROVE ExecAt(j)'
  <2>1. CASE j = i
    <3>1. s = "queued" => disk'[k].running.state # "absent"
      BY <1>5, <1>7
    <3>2. s # "dropped" => records'[k].id = i /\ records'[k].outcome = "none"
      BY <1>3, <1>8
    <3>3. exec'[j].step = s /\ exec'[j].key = k /\ exec'[j].spawns = 0 /\ said'[j] = {}
      BY <2>1, <1>3, <1>4, <1>6
    <3> QED
      BY <2>1, <3>1, <3>2, <3>3, <1>0 DEF ExecAt, Launched, UnderWay
  <2>2. CASE j # i
    <3>1. exec'[j] = exec[j] /\ said'[j] = said[j] /\ ExecAt(j)
      BY <2>2, <1>4, <1>6 DEF ExecInv
    <3>2. exec[j].step \in UnderWay => exec[j].key \in Keys \ {k}
      BY <2>2, <3>1, <1>1, <1>2, OneUnderWay DEF ExecAt, UnderWay
    <3>3. exec[j].step \in UnderWay => records'[exec[j].key] = records[exec[j].key] /\ disk'[exec[j].key] = disk[exec[j].key]
      BY <3>2, <1>7, <1>8
    <3> QED
      BY <3>1, <3>3 DEF ExecAt, Launched, UnderWay
  <2> QED
    BY <2>1, <2>2
<1>15. ASSUME NEW x \in Keys PROVE RecordAt(x)'
  <2>1. RecordAt(x)
    BY DEF ExecInv
  <2>2. CASE records'[x] # NoRecord
    <3>1. records'[x] = records[x] /\ records[x] # NoRecord /\ (x = k => s # "dropped")
      BY <2>2, <1>8
    <3>2. About(exec', records[x], x) /\ records[x].id \in Ids
      BY <2>1, <3>1, <1>9, AboutStays DEF RecordAt, About
    <3>3. CASE records[x].id = i
      <4>1. x = k
        BY <3>3, <2>1, <3>1, <1>1 DEF RecordAt, About
      <4> QED
        BY <3>1, <3>2, <3>3, <4>1, <2>1, <1>3, <1>4, <1>6 DEF RecordAt, UnderWay
    <3>4. CASE records[x].id # i
      BY <3>1, <3>2, <3>4, <2>1, <1>4, <1>6 DEF RecordAt
    <3> QED
      BY <3>3, <3>4
  <2> QED
    BY <2>2 DEF RecordAt
<1>16. ASSUME NEW x \in Keys PROVE RunningAt(x)'
  <2>1. RunningAt(x) /\ disk'[x].finished = disk[x].finished
    BY <1>7 DEF ExecInv
  <2>2. CASE disk'[x].running = disk[x].running /\ disk[x].running.state = "whole"
    <3>1. About(exec', disk[x].running, x) /\ disk[x].running.id \in Ids
      BY <2>1, <2>2, <1>9, AboutStays DEF RunningAt, About
    <3>2. said'[i] = {}
      BY <1>3, <1>4
    <3> QED
      BY <3>1, <3>2, <2>1, <2>2, <1>4, <1>6 DEF RunningAt
  <2>3. CASE disk'[x].running # disk[x].running /\ disk'[x].running.state = "whole"
    <3>1. x = k /\ f.id = i /\ f.digest = demand[c].digest /\ disk'[x].running = f
      BY <2>3, <1>5, <1>7
    <3>2. About(exec', f, x)
      BY <3>1, <1>1, <1>6 DEF About
    <3> QED
      BY <3>1, <3>2, <1>3, <1>4 DEF RunningAt
  <2> QED
    BY <2>2, <2>3 DEF RunningAt
<1>17. ASSUME NEW x \in Keys PROVE FinishedAt(x)'
  <2>1. FinishedAt(x) /\ disk'[x].finished = disk[x].finished
    BY <1>7 DEF ExecInv
  <2>2. CASE disk[x].finished.state = "whole"
    <3>1. About(exec', disk[x].finished, x) /\ disk[x].finished.id \in Ids
      BY <2>1, <2>2, <1>9, AboutStays DEF FinishedAt, About
    <3>2. said'[i] = {}
      BY <1>3, <1>4
    <3> QED
      BY <3>1, <3>2, <2>1, <2>2, <1>4, <1>6 DEF FinishedAt
  <2> QED
    BY <2>1, <2>2 DEF FinishedAt
<1>18. ASSUME NEW x \in Keys PROVE StartsAt(x)'
  <2>1. StartsAt(x) /\ StartsAt(k)
    BY <1>0 DEF ExecInv
  <2>2. Started(x)' = Started(x)
    <3>1. \A j \in Ids : exec'[j].key = exec[j].key /\ exec'[j].spawns = exec[j].spawns
      BY <1>1, <1>3, <1>6
    <3> QED
      BY <3>1 DEF Started
  <2>3. DEFINE n == Cardinality(Started(x))
  <2>4. n' = n
    BY <2>2
  <2>5. n <= evictions[x] + 1
    BY <2>1 DEF StartsAt
  <2>6. x = k => n <= evictions[x]
    BY <2>1, <1>1 DEF StartsAt
  <2>7. x # k => /\ available /\ records[x] = NoRecord => n <= evictions[x]
                 /\ disk[x].running.state = "absent" /\ disk[x].finished.state = "absent" => n <= evictions[x]
                 /\ \A j \in Ids : exec[j].step \in {"claimed", "queued"} /\ exec[j].key = x => n <= evictions[x]
    BY <2>1 DEF StartsAt
  <2> HIDE DEF n
  <2>8. CASE x = k
    BY <2>4, <2>5, <2>6, <2>8, <1>4 DEF StartsAt, n
  <2>9. CASE x # k
    <3>1. \A j \in Ids : exec'[j].key = x => exec'[j] = exec[j]
      BY <2>9, <1>6
    <3>2. records'[x] = records[x] /\ disk'[x] = disk[x]
      BY <2>9, <1>7, <1>8
    <3> QED
      BY <2>4, <2>5, <2>7, <2>9, <3>1, <3>2, <1>4 DEF StartsAt, n
  <2> QED
    BY <2>8, <2>9
<1>19. ASSUME NEW d \in Callers PROVE CallerAt(d)'
  <2>1. CallerAt(d) /\ KeyOf(d)' = KeyOf(d) /\ KeyOf(d) \in Keys
    BY <1>0, <1>4, DemandKeys DEF ExecInv, KeyOf
  <2>2. Forgotten(d) => Forgotten(d)'
    BY <1>0, <1>9, ForgottenStays
  <2>3. CASE caller'[d] \in {[step |-> "claim", id |-> 0], [step |-> "refused", id |-> 0]}
    BY <2>3 DEF CallerAt, Creating
  <2>4. CASE d = c /\ s = "claimed" /\ caller'[c] = [step |-> "write", id |-> i]
    BY <2>4, <1>1, <1>4, <1>6, <2>1 DEF CallerAt, Creating
  <2>5. CASE d # c /\ caller'[d] = caller[d] /\ (s = "dropped" => caller[d] # [step |-> "parked", id |-> i])
    <3>1. caller[d] = [step |-> caller[d].step, id |-> caller[d].id]
      BY <1>0 DEF ExecTyped
    <3>2. caller[d].step = "parked" /\ caller[d].id = i => s # "dropped"
      BY <2>5, <3>1
    <3>3. caller[d].step \in Creating => caller[d].id # i
      BY <1>0, <2>5 DEF ExecInv, OneCreator
    <3>4. \A j \in Ids : exec[j].step # "none" => exec'[j].step # "none" /\ exec'[j].key = exec[j].key
                                                   /\ exec'[j].digest = exec[j].digest
      BY <1>9 DEF Grows
    <3>5. caller[d].step = "wait" /\ records'[KeyOf(d)].id # caller[d].id => Forgotten(d)'
      <4> SUFFICES ASSUME caller[d].step = "wait", records'[KeyOf(d)].id # caller[d].id PROVE Forgotten(d)'
        OBVIOUS
      <4>1. CASE records[KeyOf(d)].id # caller[d].id
        BY <4>1, <2>1, <2>2 DEF CallerAt
      <4>2. CASE records[KeyOf(d)].id = caller[d].id
        <5>1. KeyOf(d) = k /\ s = "dropped"
          BY <4>2, <2>1, <1>8
        <5>2. exec'[i].step = "dropped" /\ exec'[i].key = KeyOf(d)' /\ exec'[i].digest = demand'[d].digest
          BY <5>1, <4>2, <2>1, <1>3, <1>4, <1>6 DEF CallerAt
        <5> QED
          BY <5>2, <1>1 DEF Forgotten
      <4> QED
        BY <4>1, <4>2
    <3>6. \A j \in Ids : j # i => exec'[j] = exec[j]
      BY <1>6
    <3>7. caller[d].step = "parked" => exec'[caller[d].id].step \in UnderWay
      <4>1. caller[d].step = "parked" => caller[d].id \in Ids /\ exec[caller[d].id].step \in UnderWay
        BY <2>1 DEF CallerAt
      <4>2. s # "dropped" => s \in UnderWay
        BY DEF UnderWay
      <4> QED
        BY <3>2, <3>6, <4>1, <4>2, <1>6
    <3>8. caller[d].step = "parked" => exec[caller[d].id].step # "none"
      BY <2>1 DEF CallerAt, UnderWay
    <3> QED
      BY <2>1, <2>2, <2>5, <3>3, <3>4, <3>5, <3>6, <3>7, <3>8, <1>4 DEF CallerAt, Creating
  <2> QED
    BY <2>3, <2>4, <2>5, <1>5
<1> QED
  BY <1>10, <1>11, <1>12, <1>13, <1>14, <1>15, <1>16, <1>17, <1>18, <1>19 DEF ExecInv

LEMMA ClaimsBy ==
    ASSUME ExecInv, NEW c \in Callers, CreateRunning(c) \/ WriteRunning(c)
    PROVE  Claims(c)
<1> DEFINE i == caller[c].id
           k == KeyOf(c)
           whole == Written(i, demand[c].digest, "none")
<1>0. ExecTyped /\ caller[c].step \in Creating /\ k \in Keys
  BY DemandKeys DEF ExecInv, CreateRunning, WriteRunning, Creating
<1>1. i \in Ids /\ exec[i].step = "claimed" /\ exec[i].key = k /\ exec[i].digest = demand[c].digest
  BY <1>0 DEF ExecInv, CallerAt
<1>2. UNCHANGED <<demand, completed, available, said, evictions>>
  BY DEF CreateRunning, WriteRunning
<1>3. TornJournal \in JournalFiles /\ TornJournal.state = "torn"
  BY ExecutionAssumption DEF TornJournal, NoJournal, JournalFiles, Digests, Outcomes
<1>4. whole \in JournalFiles /\ whole.state = "whole" /\ whole.id = i /\ whole.digest = demand[c].digest
  <2>1. i \in 0..MaxExecutions /\ demand[c].digest \in Digests
    BY <1>0, <1>1, ExecutionAssumption, DemandKeys DEF Ids
  <2> QED
    BY <2>1 DEF Written, JournalFiles, Outcomes
<1>5. disk[k].running \in JournalFiles /\ [disk EXCEPT ![k].running = disk[k].running] = disk
  <2>1. disk[k] = [running |-> disk[k].running, finished |-> disk[k].finished] /\ disk[k].running \in JournalFiles
    BY <1>0 DEF ExecTyped
  <2> QED
    BY <1>0, <2>1 DEF ExecTyped
<1>6. [exec EXCEPT ![i].step = "claimed"] = exec
  <2>1. exec[i] = [exec[i] EXCEPT !.step = "claimed"]
    BY <1>0, <1>1 DEF ExecTyped
  <2> QED
    BY <1>0, <1>1, <2>1 DEF ExecTyped
<1>7. i \in 0..MaxExecutions /\ 0 \in 0..MaxExecutions
  BY <1>1, ExecutionAssumption DEF Ids
<1> HIDE DEF whole
<1>8. ASSUME NEW f \in JournalFiles, RolledBack(c), disk' = [disk EXCEPT ![k].running = f],
             f = disk[k].running \/ f.state = "torn" \/ f = whole
      PROVE  Claims(c)
  <2>1. exec' = [exec EXCEPT ![i].step = "dropped"] /\ records' = [records EXCEPT ![k] = NoRecord]
    BY <1>8 DEF RolledBack
  <2>2. caller' \in [Callers -> [step : CallerSteps, id : 0..MaxExecutions]]
    <3>1. [step |-> "claim", id |-> 0] \in [step : CallerSteps, id : 0..MaxExecutions]
          /\ [step |-> "refused", id |-> 0] \in [step : CallerSteps, id : 0..MaxExecutions]
      BY <1>7 DEF CallerSteps
    <3> QED
      BY <1>0, <1>8, <3>1 DEF RolledBack, Woken, ExecTyped
  <2>3. caller'[c] = [step |-> "refused", id |-> 0]
    BY <1>0, <1>8 DEF RolledBack, Woken, ExecTyped
  <2>4. \A d \in Callers \ {c} :
                \/ caller'[d] = [step |-> "claim", id |-> 0]
                \/ caller'[d] = caller[d] /\ caller[d] # [step |-> "parked", id |-> i]
    BY <1>0, <1>8 DEF RolledBack, Woken, ExecTyped
  <2> QED
    BY <1>0, <1>2, <1>4, <1>8, <2>1, <2>2, <2>3, <2>4 DEF Claims
<1>9. CASE CreateRunning(c)
  <2>1. CASE RolledBack(c) /\ UNCHANGED disk
    BY <1>5, <1>8, <2>1
  <2>2. CASE /\ disk' = [disk EXCEPT ![k].running = TornJournal]
             /\ Goes(c, "write", i) /\ UNCHANGED <<records, exec>>
    <3>1. caller' \in [Callers -> [step : CallerSteps, id : 0..MaxExecutions]]
          /\ caller'[c] = [step |-> "write", id |-> i]
          /\ \A d \in Callers \ {c} : caller'[d] = caller[d]
      BY <1>0, <1>7, <2>2 DEF Goes, ExecTyped, CallerSteps
    <3>2. exec' = [exec EXCEPT ![i].step = "claimed"] /\ records' = records
      BY <1>6, <2>2
    <3> QED
      BY <1>0, <1>2, <1>3, <2>2, <3>1, <3>2 DEF Claims
  <2> QED
    BY <1>9, <2>1, <2>2 DEF CreateRunning
<1>10. CASE WriteRunning(c)
  <2>1. CASE disk' = [disk EXCEPT ![k].running = whole] /\ Detached(c)
    <3>1. caller' \in [Callers -> [step : CallerSteps, id : 0..MaxExecutions]]
          /\ caller'[c] = [step |-> "claim", id |-> 0]
          /\ \A d \in Callers \ {c} : caller'[d] = caller[d]
      BY <1>0, <1>7, <2>1 DEF Detached, Goes, ExecTyped, CallerSteps
    <3>2. exec' = [exec EXCEPT ![i].step = "queued"] /\ records' = records
      BY <2>1 DEF Detached
    <3> QED
      BY <1>0, <1>2, <1>4, <2>1, <3>1, <3>2 DEF Claims
  <2>2. CASE \E remains \in {TornJournal, whole} : disk' = [disk EXCEPT ![k].running = remains] /\ RolledBack(c)
    BY <1>3, <1>4, <1>8, <2>2
  <2> QED
    BY <1>10, <2>1, <2>2 DEF WriteRunning, whole
<1> QED
  BY <1>9, <1>10

\* What a claim of a key that is not held comes to: the oldest finished entry may be evicted,
\* and execution i is registered, or (0) nothing is.
Admits(c, i, E) ==
    LET k == KeyOf(c) IN
    /\ available /\ records[k] = NoRecord
    /\ UNCHANGED <<demand, available, said>>
    /\ \/ E = {} /\ completed' = completed
       \/ completed # <<>> /\ E = {Head(completed)} /\ completed' = Tail(completed)
    /\ evictions' \in [Keys -> Nat]
    /\ \A x \in Keys : evictions'[x] = IF x \in E THEN evictions[x] + 1 ELSE evictions[x]
    /\ disk' \in [Keys -> [running : JournalFiles, finished : JournalFiles]]
    /\ \A x \in Keys : /\ x \notin E => disk'[x] = disk[x]
                       /\ disk'[x].running.state = "whole" => disk'[x] = disk[x]
                       /\ disk'[x].finished.state = "whole" => disk'[x].finished = disk[x].finished
    /\ records' \in [Keys -> RegistryRows]
    /\ \A x \in Keys \ {k} : records'[x] = IF x \in E THEN NoRecord ELSE records[x]
    /\ exec' \in [Ids -> Executions]
    /\ caller' \in [Callers -> [step : CallerSteps, id : 0..MaxExecutions]]
    /\ \A d \in Callers \ {c} : caller'[d] = caller[d]
    /\ \/ /\ i = 0 /\ exec' = exec /\ records'[k] = NoRecord
          /\ caller'[c] = [step |-> "refused", id |-> 0]
       \/ /\ i \in Ids /\ exec[i].step = "none"
          /\ \A j \in Ids \ {i} : exec'[j] = exec[j]
          /\ exec'[i].step = "claimed" /\ exec'[i].key = k /\ exec'[i].digest = demand[c].digest
          /\ exec'[i].spawns = 0
          /\ records'[k] = [id |-> i, digest |-> demand[c].digest, outcome |-> "none"]
          /\ caller'[c] = [step |-> "create", id |-> i]
          /\ E # {} \/ Cardinality(Held) < MAX_RECORDS

LEMMA TailDoes ==
    ASSUME NEW S, NEW s \in Seq(S), s # <<>>, \A m, n \in DOMAIN s : s[m] = s[n] => m = n
    PROVE  /\ Head(s) \in S /\ Tail(s) \in Seq(S) /\ \E n \in DOMAIN s : s[n] = Head(s)
           /\ \A m, n \in DOMAIN Tail(s) : Tail(s)[m] = Tail(s)[n] => m = n
           /\ \A x : (\E n \in DOMAIN Tail(s) : Tail(s)[n] = x) <=> x # Head(s) /\ \E n \in DOMAIN s : s[n] = x
<1>1. /\ Len(s) \in Nat \ {0} /\ DOMAIN s = 1..Len(s) /\ Head(s) = s[1] /\ Head(s) \in S
      /\ Tail(s) \in Seq(S) /\ Len(Tail(s)) = Len(s) - 1 /\ DOMAIN Tail(s) = 1..(Len(s) - 1)
      /\ \A n \in 1..(Len(s) - 1) : Tail(s)[n] = s[n + 1]
  OBVIOUS
<1>2. \A m, n \in DOMAIN Tail(s) : Tail(s)[m] = Tail(s)[n] => m = n
  BY <1>1
<1>3. ASSUME NEW x, NEW n \in DOMAIN Tail(s), Tail(s)[n] = x
      PROVE  x # Head(s) /\ \E m \in DOMAIN s : s[m] = x
  <2>1. n + 1 \in DOMAIN s /\ s[n + 1] = x /\ 1 \in DOMAIN s /\ n + 1 # 1
    BY <1>1, <1>3
  <2>2. x # s[1]
    BY <2>1
  <2> QED
    BY <1>1, <2>1, <2>2
<1>4. ASSUME NEW x, x # Head(s), NEW n \in DOMAIN s, s[n] = x
      PROVE  \E m \in DOMAIN Tail(s) : Tail(s)[m] = x
  <2>1. n # 1
    BY <1>1, <1>4
  <2>2. n - 1 \in DOMAIN Tail(s) /\ Tail(s)[n - 1] = s[n]
    BY <1>1, <2>1
  <2> QED
    BY <1>4, <2>2
<1>5. \E n \in DOMAIN s : s[n] = Head(s)
  BY <1>1
<1> QED
  BY <1>1, <1>2, <1>3, <1>4, <1>5

LEMMA AdmitsStep ==
    ASSUME ExecInv, NEW c \in Callers, NEW i, NEW E, Admits(c, i, E)
    PROVE  ExecInv'
<1> DEFINE k == KeyOf(c)
<1>0. ExecTyped /\ Queued /\ k \in Keys
  BY DemandKeys DEF ExecInv
<1>1. available /\ records[k] = NoRecord /\ UNCHANGED <<demand, available, said>>
  BY DEF Admits
<1>2. /\ \A x \in Keys : evictions'[x] = IF x \in E THEN evictions[x] + 1 ELSE evictions[x]
      /\ \A x \in Keys : /\ x \notin E => disk'[x] = disk[x]
                         /\ disk'[x].running.state = "whole" => disk'[x] = disk[x]
                         /\ disk'[x].finished.state = "whole" => disk'[x].finished = disk[x].finished
      /\ \A x \in Keys \ {k} : records'[x] = IF x \in E THEN NoRecord ELSE records[x]
      /\ \A d \in Callers \ {c} : caller'[d] = caller[d]
  BY DEF Admits
<1>3. \/ E = {} /\ completed' = completed
      \/ completed # <<>> /\ E = {Head(completed)} /\ completed' = Tail(completed)
  BY DEF Admits
<1>4. /\ completed' \in Seq(Keys) /\ E \subseteq Keys /\ k \notin E
      /\ \A x \in E : IsFinished(x)
      /\ \A m, n \in DOMAIN completed' : completed'[m] = completed'[n] => m = n
      /\ \A x \in Keys : (\E n \in DOMAIN completed' : completed'[n] = x) <=> x \notin E /\ IsFinished(x)
  <2>1. completed \in Seq(Keys) /\ \A m, n \in DOMAIN completed : completed[m] = completed[n] => m = n
    BY <1>0 DEF ExecTyped, Queued
  <2>2. \A x \in Keys : IsFinished(x) <=> \E n \in DOMAIN completed : completed[n] = x
    BY <1>0 DEF Queued
  <2>3. ~IsFinished(k)
    BY <1>1 DEF IsFinished, NoRecord
  <2>4. CASE E = {} /\ completed' = completed
    BY <2>1, <2>2, <2>4
  <2>5. CASE completed # <<>> /\ E = {Head(completed)} /\ completed' = Tail(completed)
    <3>1. /\ Head(completed) \in Keys /\ Tail(completed) \in Seq(Keys) /\ \E n \in DOMAIN completed : completed[n] = Head(completed)
          /\ \A m, n \in DOMAIN Tail(completed) : Tail(completed)[m] = Tail(completed)[n] => m = n
          /\ \A x : (\E n \in DOMAIN Tail(completed) : Tail(completed)[n] = x)
                       <=> x # Head(completed) /\ \E n \in DOMAIN completed : completed[n] = x
      BY <2>1, <2>5, TailDoes
    <3>2. IsFinished(Head(completed))
      BY <2>2, <3>1
    <3> QED
      BY <2>2, <2>3, <2>5, <3>1, <3>2
  <2> QED
    BY <1>3, <2>4, <2>5
<1>5. \/ /\ i = 0 /\ exec' = exec /\ records'[k] = NoRecord
         /\ caller'[c] = [step |-> "refused", id |-> 0]
      \/ /\ i \in Ids /\ exec[i].step = "none"
         /\ \A j \in Ids \ {i} : exec'[j] = exec[j]
         /\ exec'[i].step = "claimed" /\ exec'[i].key = k /\ exec'[i].digest = demand[c].digest
         /\ exec'[i].spawns = 0
         /\ records'[k] = [id |-> i, digest |-> demand[c].digest, outcome |-> "none"]
         /\ caller'[c] = [step |-> "create", id |-> i]
         /\ E # {} \/ Cardinality(Held) < MAX_RECORDS
  BY DEF Admits
<1>6. 0 \notin Ids
  BY ExecutionAssumption DEF Ids
<1>7. /\ \A j \in Ids : j # i => exec'[j] = exec[j]
      /\ i \in Ids => /\ exec[i].step = "none" /\ exec'[i].step = "claimed" /\ exec'[i].key = k
                      /\ exec'[i].digest = demand[c].digest /\ exec'[i].spawns = 0
                      /\ records'[k] = [id |-> i, digest |-> demand[c].digest, outcome |-> "none"]
                      /\ caller'[c] = [step |-> "create", id |-> i]
      /\ i \notin Ids => records'[k] = NoRecord /\ caller'[c] = [step |-> "refused", id |-> 0]
  BY <1>5, <1>6
<1>8. \A j \in Ids : exec[j].step # "none" => exec'[j] = exec[j]
  BY <1>7
<1>9. Grows
  <2>1. \A x \in Keys : evictions[x] > 0 => evictions'[x] > 0
    BY <1>0, <1>2 DEF ExecTyped
  <2> QED
    BY <1>1, <1>8, <2>1 DEF Grows
<1>10. ExecTyped'
  BY <1>0, <1>1, <1>4 DEF Admits, ExecTyped, Executions
<1>11. SaidOnce'
  <2>1. i \in Ids => said[i] = {}
    BY <1>7 DEF ExecInv, ExecAt
  <2> QED
    BY <2>1, <1>1, <1>7 DEF ExecInv, SaidOnce
<1>12. \A d \in Callers : caller[d].step \in Creating => exec[caller[d].id].step = "claimed" /\ caller[d].id \in Ids
  BY DEF ExecInv, CallerAt
<1>13. OneCreator'
  <2> SUFFICES ASSUME NEW d \in Callers, NEW e \in Callers, caller'[d].step \in Creating, caller'[e].step \in Creating,
                      caller'[d].id = caller'[e].id
               PROVE  d = e
    BY DEF OneCreator
  <2>1. CASE d # c /\ e # c
    BY <2>1, <1>2 DEF ExecInv, OneCreator
  <2>2. \A g \in Callers : g # c /\ caller'[g].step \in Creating => caller'[g].id \in Ids /\ exec[caller'[g].id].step = "claimed"
    BY <1>2, <1>12
  <2>3. caller'[c].step \in Creating => i \in Ids /\ caller'[c].id = i /\ exec[i].step = "none"
    BY <1>7 DEF Creating
  <2> QED
    BY <2>1, <2>2, <2>3
<1>14. Queued'
  <2>1. \A x \in Keys : IsFinished(x)' <=> x \notin E /\ IsFinished(x)
    <3>1. ASSUME NEW x \in Keys, x = k PROVE ~IsFinished(x) /\ ~IsFinished(x)'
      <4>1. NoRecord.outcome = "none"
        BY DEF NoRecord
      <4>2. records'[x].outcome = "none" /\ records[x].outcome = "none"
        BY <3>1, <4>1, <1>1, <1>7
      <4> QED
        BY <4>2 DEF IsFinished
    <3>2. ASSUME NEW x \in Keys \ {k} PROVE IsFinished(x)' <=> x \notin E /\ IsFinished(x)
      <4>1. NoRecord.outcome = "none"
        BY DEF NoRecord
      <4>2. records'[x] = IF x \in E THEN NoRecord ELSE records[x]
        BY <1>2
      <4>3. CASE x \in E
        BY <4>1, <4>2, <4>3 DEF IsFinished
      <4>4. CASE x \notin E
        BY <4>2, <4>4 DEF IsFinished
      <4> QED
        BY <4>3, <4>4
    <3> QED
      BY <3>1, <3>2
  <2>2. Held' \subseteq (Held \ E) \cup {k} /\ Held \subseteq Keys /\ k \notin Held /\ E \subseteq Held
    <3>1. \A x \in E : records[x] # NoRecord
      BY <1>4 DEF IsFinished, NoRecord
    <3>2. \A x \in Keys \ {k} : records'[x] # NoRecord => x \notin E /\ records[x] # NoRecord
      BY <1>2
    <3> QED
      BY <1>1, <1>4, <3>1, <3>2 DEF Held
  <2>3. IsFiniteSet(Held) /\ Cardinality(Held) \in Nat /\ Cardinality(Held) <= MAX_RECORDS /\ MAX_RECORDS \in Nat
    <3>1. IsFiniteSet(Held)
      BY <2>2, ExecutionAssumption, FS_Subset
    <3> QED
      BY <3>1, <1>0, ExecutionAssumption, FS_CardinalityType DEF Queued
  <2>4. CASE i \notin Ids
    <3>1. Held' \subseteq Held
      BY <2>2, <2>4, <1>7 DEF Held
    <3>2. Cardinality(Held') <= Cardinality(Held) /\ Cardinality(Held') \in Nat
      BY <3>1, <2>3, FS_Subset, FS_CardinalityType
    <3>3. Cardinality(Held') <= MAX_RECORDS
      BY <3>2, <2>3
    <3> QED
      BY <2>1, <3>3, <1>4 DEF Queued
  <2>5. CASE i \in Ids
    <3>1. PICK n \in Nat : n < MAX_RECORDS /\ IsFiniteSet(Held \ E) /\ Cardinality(Held \ E) = n
      <4>1. CASE E = {}
        <5>1. Held \ E = Held
          BY <4>1
        <5>2. Cardinality(Held) < MAX_RECORDS
          BY <4>1, <2>5, <1>5, <1>6
        <5> QED
          BY <5>1, <5>2, <2>3
      <4>2. CASE E # {}
        <5>1. PICK x : E = {x} /\ x \in Held
          BY <4>2, <1>3, <2>2
        <5>2. IsFiniteSet(Held \ {x}) /\ Cardinality(Held \ {x}) = Cardinality(Held) - 1
          BY <5>1, <2>3, FS_RemoveElement
        <5>3. Cardinality(Held \ {x}) \in Nat
          BY <5>2, FS_CardinalityType
        <5> QED
          BY <5>1, <5>2, <5>3, <2>3
      <4> QED
        BY <4>1, <4>2
    <3>2. IsFiniteSet((Held \ E) \cup {k}) /\ Cardinality((Held \ E) \cup {k}) <= n + 1 /\ Cardinality((Held \ E) \cup {k}) \in Nat
      <4> DEFINE D == Held \ E
      <4>1. IsFiniteSet(D) /\ Cardinality(D) = n
        BY <3>1
      <4> HIDE DEF D
      <4>2. IsFiniteSet(D \cup {k}) /\ Cardinality(D \cup {k}) = IF k \in D THEN Cardinality(D) ELSE Cardinality(D) + 1
        BY <4>1, FS_AddElement
      <4>3. Cardinality(D \cup {k}) \in Nat
        BY <4>2, FS_CardinalityType
      <4>4. Cardinality(D \cup {k}) <= n + 1
        BY <4>1, <4>2, <3>1
      <4> QED
        BY <4>2, <4>3, <4>4 DEF D
    <3>3. Cardinality(Held') <= Cardinality((Held \ E) \cup {k}) /\ Cardinality(Held') \in Nat
      BY <3>2, <2>2, FS_Subset, FS_CardinalityType
    <3>4. Cardinality(Held') <= MAX_RECORDS
      BY <3>1, <3>2, <3>3, <2>3
    <3> QED
      BY <2>1, <3>4, <1>4 DEF Queued
  <2> QED
    BY <2>4, <2>5
<1>15. ASSUME NEW j \in Ids PROVE ExecAt(j)'
  <2>1. CASE j = i
    <3>1. said[j] = {}
      BY <2>1, <1>7 DEF ExecInv, ExecAt
    <3>2. exec'[j].step = "claimed" /\ exec'[j].key = k /\ exec'[j].spawns = 0 /\ records'[k].id = j /\ records'[k].outcome = "none"
      BY <2>1, <1>7
    <3> QED
      BY <3>1, <3>2, <1>0, <1>1 DEF ExecAt, Launched, UnderWay
  <2>2. CASE j # i
    <3>1. exec'[j] = exec[j] /\ said'[j] = said[j] /\ ExecAt(j)
      BY <2>2, <1>1, <1>7 DEF ExecInv
    <3>2. ASSUME exec[j].step \in UnderWay
          PROVE  LET x == exec[j].key IN records'[x] = records[x] /\ disk'[x] = disk[x]
      <4>1. exec[j].key \in Keys /\ records[exec[j].key].id = j /\ records[exec[j].key].outcome = "none"
        BY <3>1, <3>2 DEF ExecAt, UnderWay
      <4>2. exec[j].key # k
        BY <4>1, <1>1, <1>6 DEF NoRecord
      <4>3. exec[j].key \notin E
        BY <4>1, <1>4 DEF IsFinished
      <4> QED
        BY <4>1, <4>2, <4>3, <1>2
    <3> QED
      BY <3>1, <3>2 DEF ExecAt, Launched, UnderWay
  <2> QED
    BY <2>1, <2>2
<1>16. ASSUME NEW x \in Keys PROVE RecordAt(x)'
  <2>1. RecordAt(x)
    BY DEF ExecInv
  <2>2. CASE x = k
    <3>1. CASE i \in Ids
      BY <2>2, <3>1, <1>1, <1>7 DEF RecordAt, About, UnderWay
    <3>2. CASE i \notin Ids
      BY <2>2, <3>2, <1>7 DEF RecordAt
    <3> QED
      BY <3>1, <3>2
  <2>3. CASE x # k /\ records'[x] # NoRecord
    <3>1. records'[x] = records[x] /\ records[x] # NoRecord
      BY <2>3, <1>2
    <3>2. About(exec', records[x], x) /\ records[x].id \in Ids /\ exec'[records[x].id] = exec[records[x].id]
      BY <2>1, <3>1, <1>8, <1>9, AboutStays DEF RecordAt, About
    <3> QED
      BY <3>1, <3>2, <2>1, <1>1 DEF RecordAt
  <2> QED
    BY <2>2, <2>3 DEF RecordAt
<1>17. ASSUME NEW x \in Keys PROVE RunningAt(x)'
  <2>1. RunningAt(x)
    BY DEF ExecInv
  <2>2. CASE disk'[x].running.state = "whole"
    <3>1. disk'[x] = disk[x]
      BY <2>2, <1>2
    <3>2. About(exec', disk[x].running, x) /\ exec'[disk[x].running.id] = exec[disk[x].running.id]
      BY <2>1, <2>2, <3>1, <1>8, <1>9, AboutStays DEF RunningAt, About
    <3> QED
      BY <2>1, <2>2, <3>1, <3>2, <1>1 DEF RunningAt
  <2> QED
    BY <2>2 DEF RunningAt
<1>18. ASSUME NEW x \in Keys PROVE FinishedAt(x)'
  <2>1. FinishedAt(x)
    BY DEF ExecInv
  <2>2. CASE disk'[x].finished.state = "whole"
    <3>1. disk'[x].finished = disk[x].finished
      BY <2>2, <1>2
    <3>2. About(exec', disk[x].finished, x) /\ exec'[disk[x].finished.id] = exec[disk[x].finished.id]
      BY <2>1, <2>2, <3>1, <1>8, <1>9, AboutStays DEF FinishedAt, About
    <3> QED
      BY <2>1, <2>2, <3>1, <3>2, <1>1 DEF FinishedAt
  <2> QED
    BY <2>2 DEF FinishedAt
<1>19. ASSUME NEW x \in Keys PROVE StartsAt(x)'
  <2>1. StartsAt(x) /\ evictions[x] \in Nat
    BY <1>0 DEF ExecInv, ExecTyped
  <2>2. Started(x)' = Started(x)
    <3>1. i \in Ids => exec[i].spawns = 0
      BY <1>7 DEF ExecInv, ExecAt
    <3> QED
      BY <3>1, <1>7 DEF Started
  <2>3. DEFINE n == Cardinality(Started(x))
  <2>4. n' = n /\ n \in Nat
    BY <2>2, IdsFinite
  <2>5. /\ n <= evictions[x] + 1
        /\ available /\ records[x] = NoRecord => n <= evictions[x]
        /\ disk[x].running.state = "absent" /\ disk[x].finished.state = "absent" => n <= evictions[x]
        /\ \A j \in Ids : exec[j].step \in {"claimed", "queued"} /\ exec[j].key = x => n <= evictions[x]
    BY <2>1 DEF StartsAt
  <2> HIDE DEF n
  <2>6. CASE x \in E
    <3>1. n <= evictions'[x] /\ evictions'[x] \in Nat
      BY <2>1, <2>4, <2>5, <2>6, <1>2
    <3> QED
      BY <2>4, <3>1 DEF StartsAt, n
  <2>7. CASE x = k
    <3>1. n <= evictions'[x] /\ evictions'[x] \in Nat
      BY <2>1, <2>4, <2>5, <2>7, <1>1, <1>2, <1>4
    <3> QED
      BY <2>4, <3>1 DEF StartsAt, n
  <2>8. CASE x \notin E /\ x # k
    <3>1. records'[x] = records[x] /\ disk'[x] = disk[x] /\ evictions'[x] = evictions[x]
      BY <2>8, <1>2
    <3>2. \A j \in Ids : exec'[j].key = x => exec'[j] = exec[j]
      BY <2>8, <1>7
    <3> QED
      BY <2>4, <2>5, <3>1, <3>2, <1>1 DEF StartsAt, n
  <2> QED
    BY <2>6, <2>7, <2>8
<1>20. ASSUME NEW d \in Callers PROVE CallerAt(d)'
  <2>1. CallerAt(d) /\ KeyOf(d)' = KeyOf(d) /\ KeyOf(d) \in Keys
    BY <1>0, <1>1, DemandKeys DEF ExecInv, KeyOf
  <2>2. Forgotten(d) => Forgotten(d)'
    BY <1>0, <1>9, ForgottenStays
  <2>3. CASE d = c
    <3>1. CASE i \in Ids
      BY <2>3, <3>1, <2>1, <1>1, <1>7 DEF CallerAt, Creating
    <3>2. CASE i \notin Ids
      BY <2>3, <3>2, <1>7 DEF CallerAt, Creating
    <3> QED
      BY <3>1, <3>2
  <2>4. CASE d # c
    <3>1. caller'[d] = caller[d]
      BY <2>4, <1>2
    <3>2. caller[d].step = "wait" /\ records'[KeyOf(d)].id # caller[d].id => Forgotten(d)'
      <4> SUFFICES ASSUME caller[d].step = "wait", records'[KeyOf(d)].id # caller[d].id PROVE Forgotten(d)'
        OBVIOUS
      <4>1. CASE records[KeyOf(d)].id # caller[d].id
        BY <4>1, <2>1, <2>2 DEF CallerAt
      <4>2. CASE records[KeyOf(d)].id = caller[d].id
        <5>1. caller[d].id # 0
          BY <2>1, <1>6 DEF CallerAt
        <5>2. KeyOf(d) # k
          BY <4>2, <5>1, <1>1 DEF NoRecord
        <5>3. KeyOf(d) \in E
          BY <4>2, <5>2, <2>1, <1>2
        <5>4. evictions'[KeyOf(d)] > 0
          BY <5>3, <2>1, <1>0, <1>2 DEF ExecTyped
        <5> QED
          BY <5>4, <2>1 DEF Forgotten
      <4> QED
        BY <4>1, <4>2
    <3>3. caller[d].step \in Creating \cup {"wait", "parked", "answered"} =>
             caller[d].id \in Ids /\ exec'[caller[d].id] = exec[caller[d].id]
      BY <2>1, <1>8 DEF CallerAt, UnderWay, Creating
    <3> QED
      BY <2>1, <2>2, <3>1, <3>2, <3>3, <1>1 DEF CallerAt, Creating
  <2> QED
    BY <2>3, <2>4
<1> QED
  BY <1>10, <1>11, <1>13, <1>14, <1>15, <1>16, <1>17, <1>18, <1>19, <1>20 DEF ExecInv

LEMMA NoFiles ==
    /\ NoRecord \in RegistryRows
    /\ NoJournal \in JournalFiles /\ TornJournal \in JournalFiles
    /\ NoJournal.state = "absent" /\ TornJournal.state = "torn"
    /\ NoJournals \in [running : JournalFiles, finished : JournalFiles]
    /\ NoJournals.running.state = "absent" /\ NoJournals.finished.state = "absent"
BY ExecutionAssumption DEF NoRecord, RegistryRows, NoJournals, NoJournal, TornJournal, JournalFiles, Digests, Outcomes

LEMMA AdmitsBy ==
    ASSUME ExecInv, NEW c \in Callers, ClaimNew(c) \/ EvictFails(c)
    PROVE  \E i, E : Admits(c, i, E)
<1> DEFINE k == KeyOf(c)
           v == Evictee
<1>0. ExecTyped /\ Queued /\ k \in Keys /\ demand[c].digest \in Digests
  BY DemandKeys DEF ExecInv
<1>1. available /\ records[k] = NoRecord /\ UNCHANGED <<demand, available, said>>
  BY DEF ClaimNew, EvictFails
<1>2. completed # <<>> => v \in Keys /\ IsFinished(v) /\ v # k
  <2>1. completed # <<>> => v \in Keys /\ \E n \in DOMAIN completed : completed[n] = v
    BY <1>0, TailDoes DEF ExecTyped, Queued, Evictee
  <2>2. completed # <<>> => IsFinished(v)
    BY <2>1, <1>0 DEF Queued
  <2>3. ~IsFinished(k)
    BY <1>1 DEF IsFinished, NoRecord
  <2> QED
    BY <2>1, <2>2, <2>3
<1> HIDE DEF v
<1>3. CASE EvictFails(c)
  <2>1. completed # <<>> /\ v \in Keys /\ v # k
    BY <1>2, <1>3 DEF EvictFails
  <2>2. /\ records' = [records EXCEPT ![v] = NoRecord]
        /\ completed' = Tail(completed)
        /\ evictions' = [evictions EXCEPT ![v] = @ + 1]
        /\ Goes(c, "refused", 0) /\ exec' = exec
    BY <1>3 DEF EvictFails, v
  <2>3. disk' = [disk EXCEPT ![v].running = NoJournal] \/ disk' = disk
    BY <1>3 DEF EvictFails, v
  <2>4. /\ disk' \in [Keys -> [running : JournalFiles, finished : JournalFiles]]
        /\ \A x \in Keys : /\ x \notin {v} => disk'[x] = disk[x]
                           /\ disk'[x].running.state = "whole" => disk'[x] = disk[x]
                           /\ disk'[x].finished.state = "whole" => disk'[x].finished = disk[x].finished
    <3>1. CASE disk' = disk
      BY <1>0, <3>1 DEF ExecTyped
    <3>2. CASE disk' = [disk EXCEPT ![v].running = NoJournal]
      <4>1. disk[v] \in [running : JournalFiles, finished : JournalFiles]
        BY <1>0, <2>1 DEF ExecTyped
      <4>2. /\ disk'[v].running = NoJournal /\ disk'[v].finished = disk[v].finished
            /\ \A x \in Keys \ {v} : disk'[x] = disk[x]
        BY <1>0, <2>1, <3>2, <4>1 DEF ExecTyped
      <4>3. disk' \in [Keys -> [running : JournalFiles, finished : JournalFiles]]
        BY <1>0, <3>2, NoFiles DEF ExecTyped
      <4>4. disk'[v].running.state # "whole"
        BY <4>2, NoFiles
      <4> QED
        BY <4>2, <4>3, <4>4
    <3> QED
      BY <2>3, <3>1, <3>2
  <2>5. /\ records' \in [Keys -> RegistryRows] /\ records'[k] = NoRecord
        /\ \A x \in Keys \ {k} : records'[x] = IF x \in {v} THEN NoRecord ELSE records[x]
    BY <1>0, <1>1, <2>1, <2>2, NoFiles DEF ExecTyped
  <2>6. evictions' \in [Keys -> Nat] /\ \A x \in Keys : evictions'[x] = IF x \in {v} THEN evictions[x] + 1 ELSE evictions[x]
    BY <1>0, <2>1, <2>2 DEF ExecTyped
  <2>7. /\ caller' \in [Callers -> [step : CallerSteps, id : 0..MaxExecutions]]
        /\ caller'[c] = [step |-> "refused", id |-> 0]
        /\ \A d \in Callers \ {c} : caller'[d] = caller[d]
    BY <1>0, <2>2, ExecutionAssumption DEF Goes, ExecTyped, CallerSteps
  <2>8. exec' \in [Ids -> Executions] /\ exec' = exec
    BY <1>0, <2>2 DEF ExecTyped, Executions
  <2>9. {v} = {Head(completed)}
    BY DEF v, Evictee
  <2>10. Admits(c, 0, {v})
    BY <1>1, <2>1, <2>2, <2>4, <2>5, <2>6, <2>7, <2>8, <2>9 DEF Admits
  <2> QED
    BY <2>10
<1>4. CASE ClaimNew(c)
  <2> DEFINE i == Next_id
             E == IF Evicting THEN {v} ELSE {}
             d == demand[c].digest
             new == [id |-> i, digest |-> d, outcome |-> "none"]
             e == [NoExec EXCEPT !.step = "claimed", !.key = k, !.digest = d]
  <2>1. i \in Ids /\ exec[i].step = "none"
    <3>1. \E j \in Ids : exec[j].step = "none"
      BY <1>4 DEF ClaimNew
    <3> QED
      BY <3>1 DEF Next_id
  <2>2. /\ Evicting => completed # <<>>
        /\ records' = [x \in Keys |-> IF x = k THEN new ELSE
                                      IF Evicting /\ x = v THEN NoRecord ELSE records[x]]
        /\ exec' = [exec EXCEPT ![i] = e]
        /\ Goes(c, "create", i)
        /\ IF Evicting
           THEN /\ completed' = Tail(completed)
                /\ disk' = [disk EXCEPT ![v] = NoJournals]
                /\ evictions' = [evictions EXCEPT ![v] = @ + 1]
           ELSE UNCHANGED <<completed, disk, evictions>>
    BY <1>4 DEF ClaimNew, v
  <2>3. Evicting => v \in Keys /\ v # k
    BY <1>2, <2>2
  <2>4. e.step = "claimed" /\ e.key = k /\ e.digest = d /\ e.spawns = 0 /\ e \in Executions
    BY <1>0 DEF NoExec, Executions, ExecSteps, UnderWay, Outcomes
  <2>5. new \in RegistryRows /\ i \in 0..MaxExecutions
    BY <1>0, <2>1, ExecutionAssumption DEF RegistryRows, Ids, Outcomes
  <2>6. ~Evicting => Cardinality(Held) < MAX_RECORDS
    <3>1. Cardinality(Held) \in Nat
      <4>1. IsFiniteSet(Held)
        BY ExecutionAssumption, FS_Subset DEF Held
      <4> QED
        BY <4>1, FS_CardinalityType
    <3> QED
      BY <3>1, ExecutionAssumption DEF Evicting
  <2> HIDE DEF i, e
  <2>7. /\ disk' \in [Keys -> [running : JournalFiles, finished : JournalFiles]]
        /\ \A x \in Keys : /\ x \notin E => disk'[x] = disk[x]
                           /\ disk'[x].running.state = "whole" => disk'[x] = disk[x]
                           /\ disk'[x].finished.state = "whole" => disk'[x].finished = disk[x].finished
    BY <1>0, <2>2, <2>3, NoFiles DEF ExecTyped
  <2>8. /\ records' \in [Keys -> RegistryRows] /\ records'[k] = new
        /\ \A x \in Keys \ {k} : records'[x] = IF x \in E THEN NoRecord ELSE records[x]
    <3> HIDE DEF new
    <3> QED
      BY <1>0, <2>2, <2>5, NoFiles DEF ExecTyped
  <2>9. evictions' \in [Keys -> Nat] /\ \A x \in Keys : evictions'[x] = IF x \in E THEN evictions[x] + 1 ELSE evictions[x]
    <3>1. CASE Evicting
      <4>1. v \in Keys /\ E = {v} /\ evictions' = [evictions EXCEPT ![v] = @ + 1]
        BY <2>2, <2>3, <3>1
      <4> HIDE DEF E
      <4> QED
        BY <1>0, <4>1 DEF ExecTyped
    <3>2. CASE ~Evicting
      <4>1. E = {} /\ evictions' = evictions
        BY <2>2, <3>2
      <4> HIDE DEF E
      <4> QED
        BY <1>0, <4>1 DEF ExecTyped
    <3> QED
      BY <3>1, <3>2
  <2>10. /\ caller' \in [Callers -> [step : CallerSteps, id : 0..MaxExecutions]]
         /\ caller'[c] = [step |-> "create", id |-> i]
         /\ \A g \in Callers \ {c} : caller'[g] = caller[g]
    BY <1>0, <2>2, <2>5 DEF Goes, ExecTyped, CallerSteps
  <2>11. /\ exec' \in [Ids -> Executions] /\ exec'[i] = e
         /\ \A j \in Ids \ {i} : exec'[j] = exec[j]
    BY <1>0, <2>1, <2>2, <2>4 DEF ExecTyped, Executions
  <2>12. \/ E = {} /\ completed' = completed
         \/ completed # <<>> /\ E = {Head(completed)} /\ completed' = Tail(completed)
    BY <2>2 DEF v, Evictee
  <2>13. E # {} \/ Cardinality(Held) < MAX_RECORDS
    BY <2>6
  <2> HIDE DEF E
  <2>14. Admits(c, i, E)
    BY <1>1, <2>1, <2>4, <2>7, <2>8, <2>9, <2>10, <2>11, <2>12, <2>13 DEF Admits
  <2> QED
    BY <2>14
<1> QED
  BY <1>3, <1>4

Finals == {"none", "over", "dropped", "lost"}

LEMMA LostDoes ==
    ASSUME ExecInv, Lost
    PROVE  /\ demand' = demand
           /\ exec' \in [Ids -> Executions]
           /\ \A i \in Ids : /\ exec'[i].step \in Finals /\ exec'[i].key = exec[i].key /\ exec'[i].digest = exec[i].digest
                             /\ exec'[i].spawns = exec[i].spawns
                             /\ (exec'[i].kept => exec[i].kept) /\ (exec'[i].step = "none" <=> exec[i].step = "none")
                             /\ (exec'[i].step = "dropped" <=> exec[i].step = "dropped")
           /\ caller' \in [Callers -> [step : CallerSteps, id : 0..MaxExecutions]]
           /\ \A c \in Callers : \/ caller'[c] = [step |-> "lost", id |-> 0]
                                 \/ caller'[c] = caller[c] /\ caller[c].step \in {"idle", "answered", "refused"}
<1>0. ExecTyped
  BY DEF ExecInv
<1>1. demand' = demand
  BY DEF Lost
<1>2. "lost" \in ExecSteps /\ "lost" \in CallerSteps /\ 0 \in 0..MaxExecutions
  BY ExecutionAssumption DEF ExecSteps, CallerSteps
<1>3. exec' = [i \in Ids |-> IF exec[i].step \in {"none", "over", "dropped"} THEN exec[i] ELSE [exec[i] EXCEPT !.step = "lost"]]
  BY DEF Lost
<1>4. ASSUME NEW i \in Ids
      PROVE  /\ exec'[i] \in Executions
             /\ exec'[i].step \in Finals /\ exec'[i].key = exec[i].key /\ exec'[i].digest = exec[i].digest
             /\ exec'[i].spawns = exec[i].spawns
             /\ (exec'[i].kept => exec[i].kept) /\ (exec'[i].step = "none" <=> exec[i].step = "none")
             /\ (exec'[i].step = "dropped" <=> exec[i].step = "dropped")
  <2>1. exec[i] \in Executions
    BY <1>0 DEF ExecTyped, Executions
  <2>2. CASE exec[i].step \in {"none", "over", "dropped"}
    <3>1. exec'[i] = exec[i]
      BY <1>3, <2>2
    <3> QED
      BY <2>1, <2>2, <3>1 DEF Finals
  <2>3. CASE exec[i].step \notin {"none", "over", "dropped"}
    <3>1. exec'[i] = [exec[i] EXCEPT !.step = "lost"]
      BY <1>3, <2>3
    <3> QED
      BY <1>2, <2>1, <2>3, <3>1 DEF Finals, Executions
  <2> QED
    BY <2>2, <2>3
<1>5. exec' \in [Ids -> Executions]
  BY <1>3, <1>4
<1>6. /\ caller' \in [Callers -> [step : CallerSteps, id : 0..MaxExecutions]]
      /\ \A c \in Callers : \/ caller'[c] = [step |-> "lost", id |-> 0]
                            \/ caller'[c] = caller[c] /\ caller[c].step \in {"idle", "answered", "refused"}
  BY <1>0, <1>2 DEF Lost, ExecTyped
<1> QED
  BY <1>1, <1>4, <1>5, <1>6

\* What a restart leaves of the executions and the callers.
LEMMA LostStep ==
    ASSUME ExecInv, Lost,
           \A k \in Keys : evictions[k] > 0 => evictions'[k] > 0
    PROVE  /\ Grows
           /\ \A c \in Callers : CallerAt(c)'
           /\ OneCreator'
           /\ \A x \in Keys : Started(x)' = Started(x)
           /\ \A i \in Ids : (exec'[i].step = "none" => said'[i] = {}) => ExecAt(i)'
<1>0. ExecTyped
  BY DEF ExecInv
<1>1. /\ demand' = demand
      /\ \A i \in Ids : /\ exec'[i].step \in Finals /\ exec'[i].key = exec[i].key /\ exec'[i].digest = exec[i].digest
                        /\ exec'[i].spawns = exec[i].spawns
                        /\ (exec'[i].step = "none" <=> exec[i].step = "none")
                        /\ (exec'[i].step = "dropped" <=> exec[i].step = "dropped")
      /\ \A c \in Callers : \/ caller'[c] = [step |-> "lost", id |-> 0]
                            \/ caller'[c] = caller[c] /\ caller[c].step \in {"idle", "answered", "refused"}
  BY LostDoes
<1>2. Grows
  BY <1>1 DEF Grows
<1>3. OneCreator'
  BY <1>1 DEF OneCreator, Creating
<1>4. \A x \in Keys : Started(x)' = Started(x)
  BY <1>1 DEF Started
<1>5. ASSUME NEW c \in Callers PROVE CallerAt(c)'
  <2>1. CallerAt(c) /\ KeyOf(c)' = KeyOf(c)
    BY <1>1 DEF ExecInv, KeyOf
  <2>2. Forgotten(c) => Forgotten(c)'
    BY <1>0, <1>2, ForgottenStays
  <2>3. CASE caller'[c] = [step |-> "lost", id |-> 0]
    BY <2>3 DEF CallerAt, Creating
  <2>4. CASE caller'[c] = caller[c] /\ caller[c].step \in {"idle", "answered", "refused"}
    BY <1>1, <2>1, <2>2, <2>4 DEF CallerAt, Creating
  <2> QED
    BY <1>1, <2>3, <2>4
<1>6. ASSUME NEW i \in Ids, exec'[i].step = "none" => said'[i] = {} PROVE ExecAt(i)'
  <2>1. ExecAt(i)
    BY DEF ExecInv
  <2>2. exec'[i].step \notin UnderWay /\ exec'[i].step \notin Launched
    BY <1>1 DEF Finals, UnderWay, Launched
  <2> QED
    BY <1>1, <1>6, <2>1, <2>2 DEF ExecAt, UnderWay, Launched
<1> QED
  BY <1>2, <1>3, <1>4, <1>5, <1>6

LEMMA UnloadStep ==
    ASSUME ExecInv, Lost, Unloaded,
           disk' \in [Keys -> [running : JournalFiles, finished : JournalFiles]],
           \A x \in Keys :
              \/ disk'[x] = disk[x]
              \/ /\ disk[x].running.state = "whole" /\ disk[x].finished.state = "absent"
                 /\ disk'[x].running = disk[x].running
                 /\ \/ disk'[x].finished.state # "whole"
                    \/ disk'[x].finished = Written(disk[x].running.id, disk[x].running.digest, "unknown")
    PROVE  ExecInv'
<1>0. ExecTyped
  BY DEF ExecInv
<1>1. /\ demand' = demand /\ exec' \in [Ids -> Executions]
      /\ \A i \in Ids : exec'[i].step \in Finals /\ (exec'[i].kept => exec[i].kept)
                        /\ (exec'[i].step = "none" <=> exec[i].step = "none")
      /\ caller' \in [Callers -> [step : CallerSteps, id : 0..MaxExecutions]]
  BY LostDoes
<1>2. records' = [k \in Keys |-> NoRecord] /\ completed' = <<>> /\ available' = FALSE /\ UNCHANGED <<said, evictions>>
  BY DEF Unloaded
<1>3. /\ Grows
      /\ \A c \in Callers : CallerAt(c)'
      /\ \A i \in Ids : ExecAt(i)'
  <2>1. \A k \in Keys : evictions[k] > 0 => evictions'[k] > 0
    BY <1>2
  <2>2. \A i \in Ids : exec'[i].step = "none" => said'[i] = {}
    BY <1>1, <1>2 DEF ExecInv, ExecAt
  <2> QED
    BY <2>1, <2>2, LostStep
<1>4. ExecTyped'
  <2>1. records' \in [Keys -> RegistryRows] /\ completed' \in Seq(Keys)
    BY <1>2, NoFiles
  <2> QED
    BY <1>0, <1>1, <1>2, <2>1 DEF ExecTyped, Executions
<1>5. SaidOnce'
  BY <1>1, <1>2 DEF ExecInv, SaidOnce
<1>6. OneCreator'
  BY <1>2, LostStep
<1>7. Queued'
  <2>1. Held' = {}
    BY <1>2 DEF Held
  <2>2. Cardinality(Held') = 0
    BY <2>1, FS_EmptySet
  <2>3. DOMAIN completed' = {}
    BY <1>2
  <2> QED
    BY <1>2, <2>2, <2>3, ExecutionAssumption DEF Queued, IsFinished, NoRecord
<1>8. ASSUME NEW x \in Keys PROVE RecordAt(x)'
  BY <1>2 DEF RecordAt
<1>9. ASSUME NEW x \in Keys PROVE RunningAt(x)' /\ FinishedAt(x)' /\ StartsAt(x)'
  <2>1. RunningAt(x) /\ FinishedAt(x) /\ StartsAt(x)
    BY DEF ExecInv
  <2>2. ASSUME disk[x].running.state = "whole"
        PROVE  About(exec', disk[x].running, x) /\ disk[x].running.id \in Ids
    BY <2>1, <2>2, <1>3, AboutStays DEF RunningAt, About
  <2>3. ASSUME disk[x].finished.state = "whole"
        PROVE  About(exec', disk[x].finished, x) /\ disk[x].finished.id \in Ids
    BY <2>1, <2>3, <1>3, AboutStays DEF FinishedAt, About
  <2>4. Started(x)' = Started(x)
    BY <1>2, LostStep
  <2> DEFINE n == Cardinality(Started(x))
  <2>5. n' = n
    BY <2>4
  <2>6. \A i \in Ids : exec'[i].step \notin {"claimed", "queued"}
    BY <1>1 DEF Finals
  <2>7. n <= evictions[x] + 1 /\ (disk[x].running.state = "absent" /\ disk[x].finished.state = "absent" => n <= evictions[x])
    BY <2>1 DEF StartsAt
  <2> HIDE DEF n
  <2>8. CASE disk'[x] = disk[x]
    <3>1. RunningAt(x)'
      BY <2>1, <2>2, <2>8, <1>1, <1>2 DEF RunningAt
    <3>2. FinishedAt(x)'
      BY <2>1, <2>3, <2>8, <1>1, <1>2 DEF FinishedAt
    <3>3. StartsAt(x)'
      BY <2>5, <2>6, <2>7, <2>8, <1>2 DEF StartsAt, n
    <3> QED
      BY <3>1, <3>2, <3>3
  <2>9. CASE /\ disk[x].running.state = "whole" /\ disk[x].finished.state = "absent"
             /\ disk'[x].running = disk[x].running
             /\ \/ disk'[x].finished.state # "whole"
                \/ disk'[x].finished = Written(disk[x].running.id, disk[x].running.digest, "unknown")
    <3> DEFINE j == disk[x].running.id
    <3>0. ~(exec'[j].kept /\ said'[j] # {})
      BY <2>1, <2>2, <2>9, <1>1, <1>2 DEF RunningAt
    <3>1. RunningAt(x)'
      BY <2>2, <2>9, <3>0 DEF RunningAt
    <3>2. FinishedAt(x)'
      BY <2>2, <2>9, <3>0 DEF FinishedAt, Written, About
    <3>3. StartsAt(x)'
      BY <2>5, <2>6, <2>7, <2>9, <1>2 DEF StartsAt, n
    <3> QED
      BY <3>1, <3>2, <3>3
  <2> QED
    BY <2>8, <2>9
<1> QED
  BY <1>3, <1>4, <1>5, <1>6, <1>7, <1>8, <1>9 DEF ExecInv

\* What load_records adds to the journal: the end of each execution in S.
LEMMA ClosedDoes ==
    ASSUME ExecTyped, NEW S \in SUBSET Keys
    PROVE  /\ Closed(S) \in [Keys -> [running : JournalFiles, finished : JournalFiles]]
           /\ \A x \in Keys : /\ x \notin S => Closed(S)[x] = disk[x]
                              /\ Closed(S)[x].running = disk[x].running
                              /\ x \in S => Closed(S)[x].finished = Written(disk[x].running.id, disk[x].running.digest, "unknown")
<1>1. ASSUME NEW x \in Keys
      PROVE  /\ Closed(S)[x] \in [running : JournalFiles, finished : JournalFiles]
             /\ x \notin S => Closed(S)[x] = disk[x]
             /\ Closed(S)[x].running = disk[x].running
             /\ x \in S => Closed(S)[x].finished = Written(disk[x].running.id, disk[x].running.digest, "unknown")
  <2> DEFINE w == Written(disk[x].running.id, disk[x].running.digest, "unknown")
  <2>1. disk[x] \in [running : JournalFiles, finished : JournalFiles]
    BY DEF ExecTyped
  <2>2. w \in JournalFiles
    <3>1. disk[x].running \in JournalFiles
      BY <2>1
    <3> QED
      BY <3>1 DEF Written, JournalFiles, Outcomes
  <2>3. Closed(S)[x] = IF x \notin S THEN disk[x] ELSE [disk[x] EXCEPT !.finished = w]
    BY DEF Closed
  <2> HIDE DEF w
  <2> QED
    BY <2>1, <2>2, <2>3 DEF w
<1> QED
  BY <1>1 DEF Closed

LEMMA OrphansAre ==
    ASSUME ExecTyped, ~Corrupt
    PROVE  /\ Orphans \subseteq Keys
           /\ \A x \in Orphans : disk[x].running.state = "whole" /\ disk[x].finished.state = "absent"
           /\ \A x \in Keys : /\ disk[x].finished.state \in {"absent", "whole"}
                              /\ disk[x].finished.state = "absent" /\ x \notin Orphans => disk[x].running.state = "absent"
<1>1. \A x \in Keys : disk[x].running.state \in {"absent", "torn", "whole"} /\ disk[x].finished.state \in {"absent", "torn", "whole"}
  BY DEF ExecTyped, JournalFiles
<1> QED
  BY <1>1 DEF Corrupt, Orphans, HasFinished

LEMMA UnreadStep ==
    ASSUME ExecInv, ReloadFails \/ (Reload /\ Corrupt)
    PROVE  ExecInv'
<1>0. ExecTyped /\ Lost /\ Unloaded
  BY DEF ExecInv, ReloadFails, Reload
<1>1. CASE Reload /\ Corrupt
  <2>1. disk' = disk
    BY <1>1 DEF Reload
  <2> QED
    BY <1>0, <2>1, UnloadStep DEF ExecTyped
<1>2. CASE ReloadFails
  <2>1. ~Corrupt
    BY <1>2 DEF ReloadFails
  <2>2. PICK k \in Orphans, remains \in {NoJournal, TornJournal} : \E S \in SUBSET (Orphans \ {k}) :
          disk' = [Closed(S) EXCEPT ![k].finished = remains]
    BY <1>2 DEF ReloadFails
  <2>20. PICK S \in SUBSET (Orphans \ {k}) : disk' = [Closed(S) EXCEPT ![k].finished = remains]
    BY <2>2
  <2>3. S \in SUBSET Keys /\ k \in Keys /\ k \notin S /\ S \subseteq Orphans
    BY <1>0, <2>1, <2>20, OrphansAre
  <2> DEFINE C == Closed(S)
  <2>4. /\ C \in [Keys -> [running : JournalFiles, finished : JournalFiles]]
        /\ \A x \in Keys : /\ x \notin S => C[x] = disk[x]
                           /\ C[x].running = disk[x].running
                           /\ x \in S => C[x].finished = Written(disk[x].running.id, disk[x].running.digest, "unknown")
    BY <1>0, <2>3, ClosedDoes
  <2>5. disk' = [C EXCEPT ![k].finished = remains] /\ remains \in JournalFiles /\ remains.state # "whole"
    BY <2>20, NoFiles
  <2> HIDE DEF C
  <2>6. disk' \in [Keys -> [running : JournalFiles, finished : JournalFiles]]
    BY <2>3, <2>4, <2>5
  <2>7. ASSUME NEW x \in Keys
        PROVE  \/ disk'[x] = disk[x]
               \/ /\ disk[x].running.state = "whole" /\ disk[x].finished.state = "absent"
                  /\ disk'[x].running = disk[x].running
                  /\ \/ disk'[x].finished.state # "whole"
                     \/ disk'[x].finished = Written(disk[x].running.id, disk[x].running.digest, "unknown")
    <3>1. CASE x \in S \cup {k}
      <4>1. disk[x].running.state = "whole" /\ disk[x].finished.state = "absent"
        BY <1>0, <2>1, <2>2, <2>3, <3>1, OrphansAre
      <4>2. CASE x = k
        BY <2>4, <2>5, <4>1, <4>2
      <4>3. CASE x # k
        BY <2>3, <2>4, <2>5, <3>1, <4>1, <4>3
      <4> QED
        BY <4>2, <4>3
    <3>2. CASE x \notin S \cup {k}
      BY <2>3, <2>4, <2>5, <3>2
    <3> QED
      BY <3>1, <3>2
  <2> QED
    BY <1>0, <2>6, <2>7, UnloadStep
<1> QED
  BY <1>1, <1>2

\* The files after the ends of the orphans were written.
LEMMA FilesRead ==
    ASSUME ExecInv, ~Corrupt, NEW journals, journals = Closed(Orphans)
    PROVE  /\ journals \in [Keys -> [running : JournalFiles, finished : JournalFiles]]
           /\ \A x \in Keys :
                /\ journals[x].running = disk[x].running
                /\ journals[x].finished.state \in {"absent", "whole"}
                /\ journals[x].finished.state = "absent" => journals[x].running.state = "absent" /\ disk[x].finished.state = "absent"
                /\ journals[x].finished.state = "whole" =>
                     /\ About(exec, journals[x].finished, x) /\ journals[x].finished.outcome # "none"
                     /\ exec[journals[x].finished.id].kept => said[journals[x].finished.id] \subseteq {journals[x].finished.outcome}
<1>0. ExecTyped /\ Orphans \in SUBSET Keys
  BY OrphansAre DEF ExecInv
<1>1. /\ journals \in [Keys -> [running : JournalFiles, finished : JournalFiles]]
      /\ \A x \in Keys : /\ x \notin Orphans => journals[x] = disk[x]
                         /\ journals[x].running = disk[x].running
                         /\ x \in Orphans => journals[x].finished = Written(disk[x].running.id, disk[x].running.digest, "unknown")
  BY <1>0, ClosedDoes
<1>2. ASSUME NEW x \in Keys
      PROVE  /\ journals[x].finished.state \in {"absent", "whole"}
             /\ journals[x].finished.state = "absent" => journals[x].running.state = "absent" /\ disk[x].finished.state = "absent"
             /\ journals[x].finished.state = "whole" =>
                     /\ About(exec, journals[x].finished, x) /\ journals[x].finished.outcome # "none"
                     /\ exec[journals[x].finished.id].kept => said[journals[x].finished.id] \subseteq {journals[x].finished.outcome}
  <2>1. RunningAt(x) /\ FinishedAt(x)
    BY DEF ExecInv
  <2>2. CASE x \in Orphans
    <3>1. disk[x].running.state = "whole" /\ disk[x].finished.state = "absent"
      BY <1>0, <2>2, OrphansAre
    <3>2. journals[x].finished = [state |-> "whole", id |-> disk[x].running.id, digest |-> disk[x].running.digest, outcome |-> "unknown"]
      BY <1>1, <2>2 DEF Written
    <3> QED
      BY <2>1, <3>1, <3>2 DEF RunningAt, About
  <2>3. CASE x \notin Orphans
    <3>1. journals[x] = disk[x]
      BY <1>1, <2>3
    <3>2. disk[x].finished.state \in {"absent", "whole"} /\ (disk[x].finished.state = "absent" => disk[x].running.state = "absent")
      BY <1>0, <2>3, OrphansAre
    <3> QED
      BY <2>1, <3>1, <3>2 DEF FinishedAt
  <2> QED
    BY <2>2, <2>3
<1> QED
  BY <1>1, <1>2

LEMMA RestDoes ==
    ASSUME NEW S, NEW n \in Nat, NEW p \in Nat, NEW s \in [1..(n + p) -> S]
    PROVE  /\ SubSeq(s, n + 1, n + p) \in Seq(S)
           /\ DOMAIN SubSeq(s, n + 1, n + p) = 1..p
           /\ \A a \in 1..p : SubSeq(s, n + 1, n + p)[a] = s[n + a] /\ n + a \in 1..(n + p)
<1>1. n + 1 \in Int /\ n + p \in Int /\ \A j \in (n + 1)..(n + p) : s[j] \in S
  OBVIOUS
<1> DEFINE rest == SubSeq(s, n + 1, n + p)
<1>2. /\ rest \in Seq(S)
      /\ Len(rest) = IF n + 1 <= n + p THEN n + p - (n + 1) + 1 ELSE 0
      /\ \A a \in 1 .. n + p - (n + 1) + 1 : rest[a] = s[n + 1 + a - 1]
  BY <1>1, SubSeqProperties
<1> HIDE DEF rest
<1>3. Len(rest) = p /\ n + p - (n + 1) + 1 = p
  BY <1>2
<1>4. DOMAIN rest = 1..p
  BY <1>2, <1>3
<1>5. ASSUME NEW a \in 1..p PROVE rest[a] = s[n + a] /\ n + a \in 1..(n + p)
  <2>1. n + 1 + a - 1 = n + a /\ n + a \in 1..(n + p)
    OBVIOUS
  <2>2. rest[a] = s[n + 1 + a - 1]
    BY <1>2, <1>3
  <2> QED
    BY <2>1, <2>2
<1> QED
  BY <1>2, <1>4, <1>5 DEF rest

\* The order in which the finished records are taken is one of all of them; the first n of
\* them are evicted, and p stay.
Order(S, n, p, s) ==
    LET gone == {s[j] : j \in 1..n}
        kept == {s[j] : j \in DOMAIN s} \ gone
        rest == SubSeq(s, n + 1, n + p) IN
    /\ gone \cup kept = S /\ gone \cap kept = {} /\ rest \in Seq(S)
    /\ \A a, b \in DOMAIN rest : rest[a] = rest[b] => a = b
    /\ \A x : x \in kept <=> \E a \in DOMAIN rest : rest[a] = x
    /\ Cardinality(kept) \in Nat /\ Cardinality(kept) <= p

LEMMA OrderDoes ==
    ASSUME NEW S, IsFiniteSet(S), NEW n \in Nat, NEW p \in Nat, n + p = Cardinality(S),
           NEW s \in [1..(n + p) -> S], \A a, b \in 1..(n + p) : s[a] = s[b] => a = b
    PROVE  Order(S, n, p, s)
<1> DEFINE gone == {s[j] : j \in 1..n}
           kept == {s[j] : j \in DOMAIN s} \ gone
           rest == SubSeq(s, n + 1, n + p)
<1>1. /\ rest \in Seq(S) /\ DOMAIN rest = 1..p
      /\ \A a \in 1..p : rest[a] = s[n + a] /\ n + a \in 1..(n + p)
  BY RestDoes
<1>2. \A y \in S : \E a \in 1..(n + p) : s[a] = y
  <2>1. Lists(s, n + p, S)
    BY DEF Lists
  <2> QED
    BY <2>1, EnumerationCovers DEF Covers
<1> HIDE DEF rest
<1>3. \A j \in 1..n : j \in 1..(n + p) /\ s[j] \in S
  OBVIOUS
<1>4. {s[j] : j \in DOMAIN s} = S
  BY <1>2
<1>5. kept = S \ gone
  BY <1>4
<1>6. gone \subseteq S
  BY <1>3
<1>7. \A a, b \in 1..p : rest[a] = rest[b] => a = b
  <2> SUFFICES ASSUME NEW a \in 1..p, NEW b \in 1..p, rest[a] = rest[b] PROVE a = b
    OBVIOUS
  <2>1. n + a = n + b
    BY <1>1
  <2> QED
    BY <2>1
<1>8. ASSUME NEW x \in S PROVE x \in gone <=> ~\E a \in 1..p : rest[a] = x
  <2>1. PICK j \in 1..(n + p) : s[j] = x
    BY <1>2
  <2>2. CASE j \in 1..n
    <3>1. x \in gone
      BY <2>1, <2>2
    <3>2. ASSUME NEW a \in 1..p, rest[a] = x PROVE FALSE
      <4>1. j = n + a
        BY <1>1, <2>1, <3>2
      <4> QED
        BY <2>2, <4>1
    <3> QED
      BY <3>1, <3>2
  <2>3. CASE j \notin 1..n
    <3>1. j - n \in 1..p /\ n + (j - n) = j
      BY <2>3
    <3>2. rest[j - n] = x
      BY <1>1, <2>1, <3>1
    <3>3. ASSUME NEW l \in 1..n, s[l] = x PROVE FALSE
      <4>1. l = j
        BY <1>3, <2>1, <3>3
      <4> QED
        BY <2>3, <4>1
    <3> QED
      BY <3>1, <3>2, <3>3
  <2> QED
    BY <2>2, <2>3
<1> HIDE DEF gone, kept
<1>9. ASSUME NEW x PROVE x \in kept <=> \E a \in DOMAIN rest : rest[a] = x
  <2>1. CASE x \in S
    <3>1. x \in kept <=> ~(x \in gone)
      BY <1>5, <2>1
    <3>2. x \in gone <=> ~\E a \in 1..p : rest[a] = x
      BY <1>8, <2>1
    <3> QED
      BY <3>1, <3>2, <1>1
  <2>2. CASE x \notin S
    <3>1. \A a \in 1..p : rest[a] \in S
      BY <1>1
    <3> QED
      BY <3>1, <1>1, <1>5, <2>2
  <2> QED
    BY <2>1, <2>2
<1>10. Cardinality(kept) \in Nat /\ Cardinality(kept) <= p
  <2>1. IsFiniteSet(kept) /\ Cardinality(kept) \in Nat
    BY <1>5, FS_Subset, FS_CardinalityType
  <2>2. rest \in Surjection(1..p, kept)
    <3>1. \A a \in 1..p : rest[a] \in kept
      BY <1>1, <1>9
    <3>2. rest \in [1..p -> kept]
      <4>1. rest = [a \in DOMAIN rest |-> rest[a]]
        BY <1>1
      <4> QED
        BY <1>1, <3>1, <4>1
    <3> QED
      BY <1>1, <1>9, <3>2 DEF Surjection
  <2>3. ExistsSurjection(1..p, kept)
    BY <2>2 DEF ExistsSurjection
  <2> QED
    BY <2>1, <2>3, FS_SurjCardinalityBound
<1> QED
  BY <1>1, <1>5, <1>6, <1>7, <1>9, <1>10 DEF gone, kept, rest, Order

\* What load_records makes of files it can read: the records of gone are evicted, those of
\* kept make up the registry.
Restores(journals, gone, kept) ==
    /\ gone \cap kept = {} /\ gone \cup kept = {k \in Keys : journals[k].finished.state = "whole"}
    /\ records' = [k \in Keys |-> IF k \notin kept THEN NoRecord ELSE
         [id |-> journals[k].finished.id, digest |-> journals[k].finished.digest, outcome |-> journals[k].finished.outcome]]
    /\ disk' = [k \in Keys |-> IF k \in gone THEN NoJournals ELSE journals[k]]
    /\ evictions' = [k \in Keys |-> evictions[k] + IF k \in gone THEN 1 ELSE 0]
    /\ said' = [i \in Ids |-> said[i] \cup
         {journals[k].finished.outcome : k \in {x \in kept : journals[x].finished.id = i}}]
    /\ available' = TRUE
    /\ completed' \in Seq(Keys)
    /\ \A a, b \in DOMAIN completed' : completed'[a] = completed'[b] => a = b
    /\ \A x : x \in kept <=> \E a \in DOMAIN completed' : completed'[a] = x
    /\ Cardinality(kept) <= MAX_RECORDS

LEMMA RestoreStep ==
    ASSUME ExecInv, Lost, ~Corrupt, NEW journals, journals = Closed(Orphans), NEW gone, NEW kept,
           Restores(journals, gone, kept)
    PROVE  ExecInv'
<1>0. ExecTyped
  BY DEF ExecInv
<1>1. /\ journals \in [Keys -> [running : JournalFiles, finished : JournalFiles]]
      /\ \A x \in Keys :
           /\ journals[x].running = disk[x].running
           /\ journals[x].finished.state \in {"absent", "whole"}
           /\ journals[x].finished.state = "absent" => journals[x].running.state = "absent" /\ disk[x].finished.state = "absent"
           /\ journals[x].finished.state = "whole" =>
                /\ About(exec, journals[x].finished, x) /\ journals[x].finished.outcome # "none"
                /\ exec[journals[x].finished.id].kept => said[journals[x].finished.id] \subseteq {journals[x].finished.outcome}
  BY FilesRead
<1>2. /\ demand' = demand /\ exec' \in [Ids -> Executions]
      /\ \A i \in Ids : exec'[i].step \in Finals /\ (exec'[i].kept => exec[i].kept)
                        /\ exec'[i].key = exec[i].key
                        /\ (exec'[i].step = "none" <=> exec[i].step = "none")
      /\ caller' \in [Callers -> [step : CallerSteps, id : 0..MaxExecutions]]
  BY LostDoes
<1>3. ASSUME NEW x \in kept
      PROVE  /\ x \in Keys /\ x \notin gone /\ journals[x].finished.state = "whole"
             /\ journals[x].finished \in JournalFiles
             /\ journals[x].finished.id \in Ids /\ exec[journals[x].finished.id].key = x
             /\ exec[journals[x].finished.id].step # "none"
             /\ journals[x].finished.outcome # "none"
             /\ exec[journals[x].finished.id].kept => said[journals[x].finished.id] \subseteq {journals[x].finished.outcome}
  <2>1. x \in Keys /\ x \notin gone /\ journals[x].finished.state = "whole"
    BY DEF Restores
  <2>2. journals[x].finished \in JournalFiles
    BY <1>1, <2>1
  <2> QED
    BY <1>1, <2>1, <2>2 DEF About
<1>4. \A x \in Keys : x \notin gone /\ journals[x].finished.state = "whole" => x \in kept
  BY DEF Restores
<1>5. \A x \in Keys : /\ x \in gone => journals[x].finished.state = "whole" /\ disk'[x] = NoJournals /\ evictions'[x] = evictions[x] + 1
                      /\ x \notin gone => disk'[x] = journals[x] /\ evictions'[x] = evictions[x] + 0
  BY DEF Restores
<1>6. /\ \A x \in Keys : x \notin kept => records'[x] = NoRecord
      /\ \A x \in kept : /\ records'[x] \in RegistryRows /\ records'[x] # NoRecord
                         /\ records'[x].id = journals[x].finished.id /\ records'[x].digest = journals[x].finished.digest
                         /\ records'[x].outcome = journals[x].finished.outcome
  <2>1. \A x \in Keys : x \notin kept => records'[x] = NoRecord
    BY DEF Restores
  <2>2. ASSUME NEW x \in kept
        PROVE  /\ records'[x] \in RegistryRows /\ records'[x] # NoRecord
               /\ records'[x].id = journals[x].finished.id /\ records'[x].digest = journals[x].finished.digest
               /\ records'[x].outcome = journals[x].finished.outcome
    <3>1. PICK f \in JournalFiles : f = journals[x].finished
      BY <1>3
    <3>2. records'[x] = [id |-> f.id, digest |-> f.digest, outcome |-> f.outcome]
      BY <1>3, <3>1 DEF Restores
    <3>3. f.outcome # "none"
      BY <1>3, <3>1
    <3>4. f.id \in 0..MaxExecutions /\ f.digest \in Digests /\ f.outcome \in Outcomes
      BY DEF JournalFiles
    <3>5. records'[x] \in RegistryRows
      BY <3>2, <3>4 DEF RegistryRows
    <3>6. records'[x].id = f.id /\ records'[x].digest = f.digest /\ records'[x].outcome = f.outcome
      BY <3>2
    <3>7. records'[x] # NoRecord
      BY <3>3, <3>6 DEF NoRecord
    <3> QED
      BY <3>1, <3>5, <3>6, <3>7
  <2> QED
    BY <2>1, <2>2
<1>7. \A i \in Ids : said'[i] = said[i] \cup {journals[k].finished.outcome : k \in {x \in kept : journals[x].finished.id = i}}
  BY DEF Restores
<1>8. \A i \in Ids : exec'[i].step = "none" => said'[i] = {}
  <2> SUFFICES ASSUME NEW i \in Ids, exec'[i].step = "none" PROVE said'[i] = {}
    OBVIOUS
  <2>1. exec[i].step = "none" /\ said[i] = {}
    BY <1>2 DEF ExecInv, ExecAt
  <2> QED
    BY <1>3, <1>7, <2>1
<1>9. \A x \in Keys : evictions[x] \in Nat
  BY <1>0 DEF ExecTyped
<1>10. /\ Grows
       /\ \A c \in Callers : CallerAt(c)'
       /\ OneCreator'
       /\ \A x \in Keys : Started(x)' = Started(x)
       /\ \A i \in Ids : ExecAt(i)'
  <2>1. \A x \in Keys : evictions[x] > 0 => evictions'[x] > 0
    BY <1>5, <1>9
  <2> QED
    BY <2>1, <1>8, LostStep
<1>11. ExecTyped'
  <2>1. \A x \in Keys : records'[x] \in RegistryRows
    <3> SUFFICES ASSUME NEW x \in Keys PROVE records'[x] \in RegistryRows
      OBVIOUS
    <3>1. CASE x \in kept
      BY <1>6, <3>1
    <3>2. CASE x \notin kept
      BY <1>6, <3>2, NoFiles
    <3> QED
      BY <3>1, <3>2
  <2>2. records' \in [Keys -> RegistryRows]
    BY <2>1 DEF Restores
  <2>3. disk' \in [Keys -> [running : JournalFiles, finished : JournalFiles]]
    <3>1. \A x \in Keys : disk'[x] \in [running : JournalFiles, finished : JournalFiles]
      BY <1>1, <1>5, NoFiles
    <3> QED
      BY <3>1 DEF Restores
  <2>4. said' \in [Ids -> SUBSET Outcomes]
    <3>1. \A i \in Ids : said'[i] \in SUBSET Outcomes
      <4> SUFFICES ASSUME NEW i \in Ids PROVE said'[i] \in SUBSET Outcomes
        OBVIOUS
      <4>1. said[i] \in SUBSET Outcomes
        BY <1>0 DEF ExecTyped
      <4>2. \A x \in kept : journals[x].finished.outcome \in Outcomes
        BY <1>3 DEF JournalFiles
      <4> QED
        BY <1>7, <4>1, <4>2
    <3> QED
      BY <3>1 DEF Restores
  <2>5. evictions' \in [Keys -> Nat]
    <3>1. \A x \in Keys : evictions'[x] \in Nat
      BY <1>5, <1>9
    <3> QED
      BY <3>1 DEF Restores
  <2>6. completed' \in Seq(Keys) /\ available' \in BOOLEAN
    BY DEF Restores
  <2> QED
    BY <1>0, <1>2, <2>2, <2>3, <2>4, <2>5, <2>6 DEF ExecTyped, Executions
\* A finished record says of its execution what was said of it.
<1>12. ASSUME NEW x \in kept, exec[journals[x].finished.id].kept
       PROVE  said'[journals[x].finished.id] = {journals[x].finished.outcome}
  <2>1. \A y \in kept : journals[y].finished.id = journals[x].finished.id => y = x
    BY <1>3
  <2>2. journals[x].finished.id \in Ids /\ said[journals[x].finished.id] \subseteq {journals[x].finished.outcome}
    BY <1>3, <1>12
  <2> QED
    BY <1>7, <2>1, <2>2
<1>13. SaidOnce'
  <2> SUFFICES ASSUME NEW i \in Ids, exec'[i].kept, NEW a \in said'[i], NEW b \in said'[i] PROVE a = b
    BY DEF SaidOnce
  <2>1. exec[i].kept
    BY <1>2
  <2>2. CASE \E x \in kept : journals[x].finished.id = i
    BY <1>12, <2>1, <2>2
  <2>3. CASE ~\E x \in kept : journals[x].finished.id = i
    <3>1. {x \in kept : journals[x].finished.id = i} = {}
      BY <2>3
    <3>2. said'[i] = said[i] \cup {journals[k].finished.outcome : k \in {x \in kept : journals[x].finished.id = i}}
      BY <1>7
    <3>3. said'[i] = said[i]
      BY <3>1, <3>2
    <3> QED
      BY <2>1, <3>3 DEF ExecInv, SaidOnce
  <2> QED
    BY <2>2, <2>3
<1>14. Queued'
  <2>1. \A x \in Keys : IsFinished(x)' <=> x \in kept
    BY <1>3, <1>6 DEF IsFinished, NoRecord
  <2>2. Held' = kept
    <3>1. \A x \in kept : x \in Keys /\ records'[x] # NoRecord
      BY <1>3, <1>6
    <3> QED
      BY <1>6, <3>1 DEF Held
  <2>3. Cardinality(Held)' <= MAX_RECORDS
    BY <2>2 DEF Restores
  <2> QED
    BY <2>1, <2>3 DEF Queued, Restores
<1>15. ASSUME NEW x \in Keys PROVE RecordAt(x)'
  <2>1. CASE x \in kept
    <3>1. /\ records'[x].id = journals[x].finished.id /\ records'[x].digest = journals[x].finished.digest
          /\ records'[x].outcome = journals[x].finished.outcome
      BY <1>6, <2>1
    <3>2. About(exec', journals[x].finished, x) /\ journals[x].finished.outcome # "none"
      BY <1>1, <1>3, <1>10, <2>1, AboutStays
    <3>3. About(exec', records'[x], x) /\ records'[x].outcome # "none"
      BY <3>1, <3>2 DEF About
    <3>4. exec'[records'[x].id].step \in {"over", "lost", "dropped"}
      BY <1>2, <3>3 DEF About, Finals
    <3>5. available'
      BY DEF Restores
    <3> QED
      BY <3>3, <3>4, <3>5 DEF RecordAt
  <2>2. CASE x \notin kept
    BY <1>6, <2>2 DEF RecordAt
  <2> QED
    BY <2>1, <2>2
<1>16. ASSUME NEW x \in Keys PROVE RunningAt(x)'
  <2> SUFFICES ASSUME disk'[x].running.state = "whole"
               PROVE  About(exec', disk'[x].running, x) /\ disk'[x].finished.state # "absent"
    BY DEF RunningAt
  <2>1. x \notin gone
    BY <1>5, NoFiles
  <2>2. disk'[x] = journals[x] /\ journals[x].running = disk[x].running
    BY <1>1, <1>5, <2>1
  <2>3. About(exec, disk[x].running, x)
    BY <2>2 DEF ExecInv, RunningAt
  <2> QED
    BY <1>1, <1>10, <2>2, <2>3, AboutStays
<1>17. ASSUME NEW x \in Keys PROVE FinishedAt(x)'
  <2> SUFFICES ASSUME disk'[x].finished.state = "whole"
               PROVE  /\ About(exec', disk'[x].finished, x) /\ disk'[x].finished.outcome # "none"
                      /\ exec'[disk'[x].finished.id].kept => said'[disk'[x].finished.id] = {disk'[x].finished.outcome}
    BY DEF FinishedAt
  <2>1. x \notin gone
    BY <1>5, NoFiles
  <2>2. disk'[x] = journals[x] /\ x \in kept
    BY <1>4, <1>5, <2>1
  <2>3. About(exec', journals[x].finished, x)
    BY <1>1, <1>3, <1>10, <2>2, AboutStays
  <2>4. exec'[journals[x].finished.id].kept => exec[journals[x].finished.id].kept
    BY <1>2, <1>3, <2>2
  <2> QED
    BY <1>3, <1>12, <2>2, <2>3, <2>4
<1>18. ASSUME NEW x \in Keys PROVE StartsAt(x)'
  <2>1. Started(x)' = Started(x)
    BY <1>10
  <2> DEFINE n == Cardinality(Started(x))
  <2>2. n' = n
    BY <2>1
  <2>3. \A i \in Ids : exec'[i].step \notin {"claimed", "queued"}
    BY <1>2 DEF Finals
  <2>4. /\ n \in Nat /\ n <= evictions[x] + 1 /\ evictions[x] \in Nat
        /\ (disk[x].running.state = "absent" /\ disk[x].finished.state = "absent" => n <= evictions[x])
    BY <1>9, IdsFinite DEF ExecInv, StartsAt
  <2> HIDE DEF n
  <2>5. CASE x \in gone
    <3>1. evictions'[x] = evictions[x] + 1
      BY <1>5, <2>5
    <3>2. n <= evictions'[x] /\ n <= evictions'[x] + 1
      BY <2>4, <3>1
    <3> QED
      BY <2>2, <2>3, <3>2 DEF StartsAt, n
  <2>6. CASE x \in kept
    <3>1. evictions'[x] = evictions[x] + 0 /\ disk'[x] = journals[x]
      BY <1>3, <1>5, <2>6
    <3>2. n <= evictions'[x] + 1
      BY <2>4, <3>1
    <3>3. disk'[x].finished.state # "absent" /\ records'[x] # NoRecord
      BY <1>3, <1>6, <2>6, <3>1
    <3> QED
      BY <2>2, <2>3, <3>2, <3>3 DEF StartsAt, n
  <2>7. CASE x \notin gone /\ x \notin kept
    <3>1. journals[x].finished.state = "absent"
      BY <1>1, <1>4, <2>7
    <3>2. disk[x].running.state = "absent" /\ disk[x].finished.state = "absent"
      BY <1>1, <3>1
    <3>3. evictions'[x] = evictions[x] + 0
      BY <1>5, <2>7
    <3>4. n <= evictions'[x] /\ n <= evictions'[x] + 1
      BY <2>4, <3>2, <3>3
    <3> QED
      BY <2>2, <2>3, <3>4 DEF StartsAt, n
  <2> QED
    BY <2>5, <2>6, <2>7
<1> QED
  BY <1>10, <1>11, <1>13, <1>14, <1>15, <1>16, <1>17, <1>18 DEF ExecInv

LEMMA LoadedStep ==
    ASSUME ExecInv, Reload, ~Corrupt
    PROVE  ExecInv'
<1>0. Lost /\ Loaded(Closed(Orphans))
  BY DEF Reload
<1>1. PICK journals : journals = Closed(Orphans)
  OBVIOUS
<1> DEFINE S == {k \in Keys : journals[k].finished.state = "whole"}
<1>2. IsFiniteSet(S) /\ Cardinality(S) \in Nat
  BY FS_Subset, FS_CardinalityType, ExecutionAssumption
<1>3. PICK s \in LoadOrders(journals) :
        LET n == IF Len(s) > MAX_RECORDS THEN Len(s) + 1 - MAX_RECORDS ELSE 0
            gone == {s[j] : j \in 1..n}
            kept == {s[j] : j \in DOMAIN s} \ gone IN
        /\ records' = [k \in Keys |-> IF k \notin kept THEN NoRecord ELSE
             [id |-> journals[k].finished.id, digest |-> journals[k].finished.digest, outcome |-> journals[k].finished.outcome]]
        /\ completed' = SubSeq(s, n + 1, Len(s))
        /\ disk' = [k \in Keys |-> IF k \in gone THEN NoJournals ELSE journals[k]]
        /\ evictions' = [k \in Keys |-> evictions[k] + IF k \in gone THEN 1 ELSE 0]
        /\ said' = [i \in Ids |-> said[i] \cup
             {journals[k].finished.outcome : k \in {x \in kept : journals[x].finished.id = i}}]
        /\ available' = TRUE
  <2>1. Loaded(journals)
    BY <1>0, <1>1
  <2> QED
    BY ONLY <2>1, Zenon DEF Loaded
<1>4. PICK m \in Nat : m = Cardinality(S)
  BY <1>2
<1>5. s \in [1..m -> S] /\ \A a, b \in 1..m : s[a] = s[b] => a = b
  <2>1. s \in {t \in [1..Cardinality(S) -> S] :
                 /\ \A a, b \in DOMAIN t : t[a] = t[b] => a = b
                 /\ \A a, b \in DOMAIN t : t[a] \in Orphans /\ t[b] \notin Orphans => b < a}
    BY DEF LoadOrders
  <2>2. s \in [1..m -> S] /\ \A a, b \in DOMAIN s : s[a] = s[b] => a = b
    BY <1>4, <2>1
  <2>3. DOMAIN s = 1..m
    BY <2>2
  <2> QED
    BY <2>2, <2>3
<1>6. s \in Seq(S) /\ Len(s) = m
  <2>1. s \in Seq(S)
    BY <1>5, SeqDef
  <2> QED
    BY <1>5, <2>1, LenProperties
<1>7. PICK n \in Nat, p \in Nat : /\ n = IF m > MAX_RECORDS THEN m + 1 - MAX_RECORDS ELSE 0
                                  /\ n + p = m /\ p <= MAX_RECORDS
  <2>1. CASE m > MAX_RECORDS
    <3>1. m + 1 - MAX_RECORDS \in Nat /\ MAX_RECORDS - 1 \in Nat /\ m + 1 - MAX_RECORDS + (MAX_RECORDS - 1) = m
      BY <2>1, ExecutionAssumption
    <3> QED
      BY <2>1, <3>1, ExecutionAssumption
  <2>2. CASE ~(m > MAX_RECORDS)
    BY <2>2, ExecutionAssumption
  <2> QED
    BY <2>1, <2>2
<1>8. PICK gone : gone = {s[j] : j \in 1..n}
  OBVIOUS
<1>9. PICK kept : kept = {s[j] : j \in DOMAIN s} \ gone
  OBVIOUS
<1>10. PICK rest : rest = SubSeq(s, n + 1, m)
  OBVIOUS
<1>11. /\ gone \cup kept = S /\ gone \cap kept = {} /\ rest \in Seq(S)
       /\ \A a, b \in DOMAIN rest : rest[a] = rest[b] => a = b
       /\ \A x : x \in kept <=> \E a \in DOMAIN rest : rest[a] = x
       /\ Cardinality(kept) \in Nat /\ Cardinality(kept) <= p
  <2>1. n + p = Cardinality(S) /\ s \in [1..(n + p) -> S] /\ \A a, b \in 1..(n + p) : s[a] = s[b] => a = b
    BY <1>4, <1>5, <1>7
  <2> HIDE DEF S
  <2> QED
    <3>1. rest = SubSeq(s, n + 1, n + p)
      BY <1>7, <1>10
    <3>2. Order(S, n, p, s)
      <4>1. IsFiniteSet(S)
        BY <1>2
      <4> QED
        BY ONLY <2>1, <4>1, n \in Nat, p \in Nat, OrderDoes
    <3> QED
      BY <1>8, <1>9, <3>1, <3>2 DEF Order
<1>12. /\ records' = [k \in Keys |-> IF k \notin kept THEN NoRecord ELSE
             [id |-> journals[k].finished.id, digest |-> journals[k].finished.digest, outcome |-> journals[k].finished.outcome]]
       /\ completed' = rest
       /\ disk' = [k \in Keys |-> IF k \in gone THEN NoJournals ELSE journals[k]]
       /\ evictions' = [k \in Keys |-> evictions[k] + IF k \in gone THEN 1 ELSE 0]
       /\ said' = [i \in Ids |-> said[i] \cup
             {journals[k].finished.outcome : k \in {x \in kept : journals[x].finished.id = i}}]
       /\ available' = TRUE
  BY <1>3, <1>6, <1>7, <1>8, <1>9, <1>10
<1>13. rest \in Seq(Keys)
  <2>1. S \subseteq Keys
    OBVIOUS
  <2> HIDE DEF S
  <2> QED
    BY <1>11, <2>1
<1>14. Cardinality(kept) <= MAX_RECORDS
  BY <1>7, <1>11, ExecutionAssumption
<1>15. Restores(journals, gone, kept)
  BY <1>11, <1>12, <1>13, <1>14 DEF Restores
<1> QED
  BY <1>0, <1>1, <1>15, RestoreStep

LEMMA ExecutionStep == ExecInv /\ [ExecutionNext]_execVars => ExecInv'
<1> SUFFICES ASSUME ExecInv, [ExecutionNext]_execVars PROVE ExecInv'
  OBVIOUS
<1>1. CASE UNCHANGED execVars
  <2>1. UNCHANGED <<demand, records, completed, disk, available, caller, exec, said, evictions>>
    BY <1>1 DEF execVars
  <2>2. /\ Held' = Held /\ \A k : Started(k)' = Started(k) /\ IsFinished(k)' = IsFinished(k)
        /\ \A c : KeyOf(c)' = KeyOf(c)
    BY <2>1 DEF Held, Started, IsFinished, KeyOf
  <2>3. ExecTyped' /\ SaidOnce' /\ OneCreator'
    BY <2>1 DEF ExecInv, ExecTyped, SaidOnce, OneCreator
  <2>4. Queued'
    BY <2>1, <2>2 DEF ExecInv, Queued
  <2>5. \A i \in Ids : ExecAt(i)'
    BY <2>1 DEF ExecInv, ExecAt
  <2>6. \A k \in Keys : RecordAt(k)' /\ RunningAt(k)' /\ FinishedAt(k)'
    BY <2>1 DEF ExecInv, RecordAt, RunningAt, FinishedAt
  <2>7. \A k \in Keys : StartsAt(k)'
    BY <2>1, <2>2 DEF ExecInv, StartsAt
  <2>8. \A c \in Callers : CallerAt(c)'
    BY <2>1, <2>2 DEF ExecInv, CallerAt, Forgotten
  <2> QED
    BY <2>3, <2>4, <2>5, <2>6, <2>7, <2>8 DEF ExecInv
<1>2. ASSUME NEW c \in Callers, Request(c) \/ CallerStep(c) PROVE ExecInv'
  <2>1. CASE Request(c) \/ ClaimUnavailable(c) \/ ClaimKnown(c) \/ ClaimBusy(c) \/ Subscribe(c)
    BY <2>1, CallerMoves
  <2>2. CASE ClaimNew(c) \/ EvictFails(c)
    <3>1. PICK i, E : Admits(c, i, E)
      BY <2>2, AdmitsBy
    <3> QED
      BY <3>1, AdmitsStep
  <2>3. CASE CreateRunning(c) \/ WriteRunning(c)
    BY <2>3, ClaimsBy, ClaimsStep
  <2> QED
    BY <1>2, <2>1, <2>2, <2>3 DEF CallerStep
<1>3. ASSUME NEW i \in Ids, ExecStep(i) PROVE ExecInv'
  <2>1. CASE Publish(i)
    BY <2>1, PublishStep
  <2>2. CASE ~Publish(i)
    BY <1>3, <2>2, WorksBy, WorkStep DEF ExecStep
  <2> QED
    BY <2>1, <2>2
<1>4. CASE Reload \/ ReloadFails
  BY <1>4, LoadedStep, UnreadStep
<1> QED
  BY <1>1, <1>2, <1>3, <1>4 DEF ExecutionNext

LEMMA ExecutionHolds ==
    ASSUME ExecInv
    PROVE  ExecutionsSafe /\ ExecutionTypes
<1>0. /\ ExecTyped /\ SaidOnce /\ Queued
      /\ \A i \in Ids : ExecAt(i)
      /\ \A k \in Keys : RecordAt(k) /\ StartsAt(k)
      /\ \A c \in Callers : CallerAt(c)
  BY DEF ExecInv
<1>1. RunsOnce
  <2>1. ASSUME NEW k \in Keys PROVE Cardinality(Started(k)) <= 1 + evictions[k]
    <3> DEFINE n == Cardinality(Started(k))
    <3>1. n <= evictions[k] + 1 /\ evictions[k] \in Nat /\ n \in Nat
      BY <1>0, IdsFinite DEF StartsAt, ExecTyped
    <3> HIDE DEF n
    <3>2. n <= 1 + evictions[k]
      BY <3>1
    <3> QED
      BY <3>2 DEF n
  <2> QED
    BY <1>0, <2>1 DEF RunsOnce, ExecAt
<1>2. OneOutcome
  <2> SUFFICES ASSUME NEW i \in Ids, exec[i].kept PROVE Cardinality(said[i]) <= 1
    BY DEF OneOutcome
  <2>1. \A a, b \in said[i] : a = b
    BY <1>0 DEF SaidOnce
  <2>2. CASE said[i] = {}
    BY <2>2, FS_EmptySet
  <2>3. CASE said[i] # {}
    <3>1. PICK a \in said[i] : said[i] = {a}
      BY <2>1, <2>3
    <3>2. Cardinality({a}) = 1
      BY FS_Singleton
    <3> QED
      BY <3>1, <3>2
  <2> QED
    BY <2>2, <2>3
<1>3. RightCommand
  <2> SUFFICES ASSUME NEW c \in Callers, caller[c].step = "answered"
               PROVE  /\ exec[caller[c].id].key = KeyOf(c)
                      /\ exec[caller[c].id].digest # demand[c].digest => Forgotten(c)
    BY DEF RightCommand, Forgotten
  <2> QED
    BY <1>0 DEF CallerAt
<1>4. NobodyForgotten
  <2> SUFFICES ASSUME NEW c \in Callers, caller[c].step = "parked"
               PROVE  exec[caller[c].id].step \in UnderWay /\ records[KeyOf(c)].id = caller[c].id
    BY DEF NobodyForgotten
  <2>1. caller[c].id \in Ids /\ exec[caller[c].id].step \in UnderWay /\ exec[caller[c].id].key = KeyOf(c)
    BY <1>0 DEF CallerAt
  <2>2. records[exec[caller[c].id].key].id = caller[c].id
    BY <1>0, <2>1 DEF ExecAt
  <2> QED
    BY <2>1, <2>2
<1>5. ExecutionTypes
  <2>1. \A k \in Keys : records[k].id \in 0..MaxExecutions /\ records[k].outcome \in Outcomes
    BY <1>0 DEF ExecTyped, RegistryRows
  <2>2. {completed[n] : n \in DOMAIN completed} = {k \in Held : IsFinished(k)}
    <3>1. \A n \in DOMAIN completed : completed[n] \in Keys
      BY <1>0 DEF ExecTyped
    <3>2. \A k \in Keys : IsFinished(k) => records[k] # NoRecord
      BY DEF IsFinished, NoRecord
    <3> QED
      BY <1>0, <3>1, <3>2 DEF Queued, Held
  <2>3. Cardinality({completed[n] : n \in DOMAIN completed}) = Len(completed)
    <3> DEFINE T == {completed[n] : n \in DOMAIN completed}
    <3>1. DOMAIN completed = 1..Len(completed) /\ Len(completed) \in Nat
      BY <1>0, LenProperties DEF ExecTyped
    <3>2. completed \in Bijection(1..Len(completed), T)
      <4>1. completed \in [1..Len(completed) -> T]
        BY <1>0, <3>1 DEF ExecTyped
      <4> QED
        BY <1>0, <3>1, <4>1 DEF Queued, Bijection, Injection, Surjection, IsInjective
    <3>3. IsFiniteSet(1..Len(completed)) /\ Cardinality(1..Len(completed)) = Len(completed)
      <4>1. Len(completed) \in Int /\ 1 \in Int
        BY <3>1
      <4>2. /\ IsFiniteSet(1..Len(completed))
            /\ Cardinality(1..Len(completed)) = IF 1 > Len(completed) THEN 0 ELSE Len(completed) - 1 + 1
        BY <4>1, FS_Interval
      <4> QED
        BY <3>1, <4>2
    <3>4. Cardinality(1..Len(completed)) = Cardinality(T)
      <4>1. ExistsBijection(1..Len(completed), T)
        BY <3>2 DEF ExistsBijection
      <4> HIDE DEF T
      <4> QED
        BY <3>3, <4>1, FS_Bijection
    <3> QED
      BY <3>3, <3>4
  <2> QED
    BY <1>0, <2>1, <2>2, <2>3 DEF ExecutionTypes, Queued
<1> QED
  BY <1>1, <1>2, <1>3, <1>4, <1>5 DEF ExecutionsSafe

\* A command is started once for every time the registry forgot its key, what was published
\* of it stays its outcome, an answer is of the command that was asked for, and the execution
\* a caller waits for is under way; the queue of finished entries is the registry's, which
\* holds no more than it may: for any callers, keys, requests and bounds.
THEOREM CommandsKept == ExecutionSpec => [](ExecutionsSafe /\ ExecutionTypes)
<1>1. ExecutionInit => ExecInv
  BY ExecInvInit
<1>2. ExecInv /\ [ExecutionNext]_execVars => ExecInv'
  BY ExecutionStep
<1>3. ExecInv => ExecutionsSafe /\ ExecutionTypes
  BY ExecutionHolds
<1> QED
  BY <1>1, <1>2, <1>3, PTL DEF ExecutionSpec

----------------------------------------------------------------------------
(* The queue of messages.                                                   *)

QueueRows == [mode : Modes, order : Nat, born : Nat]
Creations == [at : {"idle", "moded", "ordered", "done"}, mode : Modes, order : Nat]

QueueTyped ==
    /\ DOMAIN rows \subseteq Messages /\ rows \in [DOMAIN rows -> QueueRows]
    /\ creating \in [Messages -> Creations]
    /\ changing \in [Desk -> [at : {"idle", "looked", "done"}, kind : {"list", "mode", "order"},
                              of : UNION {[1..n -> Messages] : n \in 0..Cardinality(Messages)}, mode : Modes]]
    /\ active \in BOOLEAN /\ settling \in BOOLEAN
    /\ carried \in Seq(Seq(Messages)) /\ dropped \subseteq Messages /\ turns \in 0..MaxTurns

\* Messages that came into the queue, and the order they came in.
Arrived == {m \in Messages : creating[m].at = "done"}

BornInOrder ==
    /\ \A m \in DOMAIN rows : rows[m].born <= Cardinality(Arrived)
    /\ \A m, n \in DOMAIN rows : rows[m].born = rows[n].born => m = n

\* Where a message is: nowhere before it arrived, and then at one place.
MessageAt(m) ==
    /\ m \notin Arrived => m \notin DOMAIN rows /\ m \notin dropped /\ Carriers(m) = {}
    /\ m \in Arrived =>
          \/ m \in DOMAIN rows /\ m \notin dropped /\ Carriers(m) = {}
          \/ m \notin DOMAIN rows /\ m \in dropped /\ Carriers(m) = {}
          \/ m \notin DOMAIN rows /\ m \notin dropped /\ \E k : Carriers(m) = {k}

QueueInv == QueueTyped /\ BornInOrder /\ \A m \in Messages : MessageAt(m)

LEMMA MaxOrderTypes == QueueTyped => MaxOrder \in Nat
<1> SUFFICES ASSUME QueueTyped PROVE MaxOrder \in Nat
  OBVIOUS
<1>1. CASE DOMAIN rows = {}
  BY <1>1 DEF MaxOrder
<1>2. CASE DOMAIN rows # {}
  <2> DEFINE S == DOMAIN rows
             f == [m \in S |-> rows[m].order]
  <2>1. IsFiniteSet(S)
    BY QueueAssumption, FS_Subset DEF QueueTyped
  <2>2. f \in [S -> Nat] /\ \A m \in S : f[m] = rows[m].order
    BY DEF QueueTyped, QueueRows
  <2>3. PICK x \in S : \A y \in S : f[y] <= f[x]
    <3> HIDE DEF S, f
    <3> QED
      BY <1>2, <2>1, <2>2, GreatestValue DEF S
  <2>4. \A n \in DOMAIN rows : rows[n].order <= rows[x].order
    BY <2>2, <2>3
  <2> DEFINE top == CHOOSE m \in DOMAIN rows : \A n \in DOMAIN rows : rows[n].order <= rows[m].order
  <2>5. top \in DOMAIN rows
    BY <2>4
  <2>6. MaxOrder = rows[top].order
    BY <1>2 DEF MaxOrder
  <2> HIDE DEF top
  <2> QED
    BY <2>5, <2>6 DEF QueueTyped, QueueRows
<1> QED
  BY <1>1, <1>2

\* The messages of an answer are those that were to be taken, each once.
LEMMA ListedDoes ==
    ASSUME QueueTyped, BornInOrder, NEW S, S \subseteq DOMAIN rows
    PROVE  /\ IsFiniteSet(S) /\ Cardinality(S) \in Nat
           /\ Listed(S) \in [1..Cardinality(S) -> S]
           /\ \A m : (\E i \in DOMAIN Listed(S) : Listed(S)[i] = m) <=> m \in S
<1>1. IsFiniteSet(S) /\ Cardinality(S) \in Nat
  <2>1. S \subseteq Messages
    BY DEF QueueTyped
  <2> QED
    BY <2>1, QueueAssumption, FS_Subset, FS_CardinalityType
<1>2. PICK n \in Nat : n = Cardinality(S)
  BY <1>1
<1> DEFINE R == {p \in S \X S : Before(p[1], p[2])}
<1>3. \A x, y \in S : <<x, y>> \in R <=> Before(x, y)
  OBVIOUS
<1>4. \A x \in S : rows[x].order \in Nat /\ rows[x].born \in Nat
  BY DEF QueueTyped, QueueRows
<1>5. \A x, y \in S : rows[x].born = rows[y].born => x = y
  BY DEF BornInOrder
<1> HIDE DEF R
<1>6. StrictOrder(R, S)
  <2>1. \A x \in S : ~Before(x, x)
    BY <1>4 DEF Before
  <2>2. \A x, y, z \in S : Before(x, y) /\ Before(y, z) => Before(x, z)
    BY <1>4 DEF Before
  <2>3. \A x, y \in S : x # y => Before(x, y) \/ Before(y, x)
    BY <1>4, <1>5 DEF Before
  <2> QED
    BY <1>3, <2>1, <2>2, <2>3 DEF StrictOrder
<1>7. PICK s \in [1..n -> S] : \A i, j \in 1..n : i < j => <<s[i], s[j]>> \in R
  BY <1>1, <1>2, <1>6, SortedExists
<1>8. \A i, j \in 1..n : i < j => Before(s[i], s[j])
  BY <1>3, <1>7
<1> DEFINE l == CHOOSE t \in [1..n -> S] : \A i, j \in 1..n : i < j => Before(t[i], t[j])
<1>9. l \in [1..n -> S] /\ \A i, j \in 1..n : i < j => Before(l[i], l[j])
  BY <1>8
<1>10. Listed(S) = l
  BY <1>2 DEF Listed
<1> HIDE DEF l
<1>11. \A i, j \in 1..n : l[i] = l[j] => i = j
  <2> SUFFICES ASSUME NEW i \in 1..n, NEW j \in 1..n, l[i] = l[j], i # j PROVE FALSE
    OBVIOUS
  <2>1. Before(l[i], l[j]) \/ Before(l[j], l[i])
    BY <1>9
  <2>2. Before(l[i], l[i]) /\ l[i] \in S
    BY <1>9, <2>1
  <2> QED
    BY <1>4, <2>2 DEF Before
<1>12. \A y \in S : \E a \in 1..n : l[a] = y
  <2>1. IsFiniteSet(S) /\ n = Cardinality(S) /\ Lists(l, n, S)
    BY <1>1, <1>2, <1>9, <1>11 DEF Lists
  <2>2. Covers(l, n, S)
    BY <2>1, EnumerationCovers
  <2> QED
    BY <2>2 DEF Covers
<1> QED
  BY <1>1, <1>2, <1>9, <1>10, <1>12

LEMMA QueueInvInit == QueueInit => QueueInv
<1> SUFFICES ASSUME QueueInit PROVE QueueInv
  OBVIOUS
<1>1. /\ rows = << >> /\ creating = [m \in Messages |-> NotCreated] /\ changing = [d \in Desk |-> NoChangeAsked]
      /\ active = TRUE /\ settling = FALSE /\ carried = << >> /\ dropped = {} /\ turns = 0
  BY DEF QueueInit
<1>2. NotCreated \in Creations /\ NotCreated.at = "idle"
  BY DEF NotCreated, Creations, Modes
<1>3. <<>> \in UNION {[1..n -> Messages] : n \in 0..Cardinality(Messages)}
  <2>1. Cardinality(Messages) \in Nat
    BY QueueAssumption, FS_CardinalityType
  <2>2. 0 \in 0..Cardinality(Messages)
    BY <2>1
  <2>3. <<>> \in [1..0 -> Messages]
    OBVIOUS
  <2> QED
    BY <2>2, <2>3
<1>4. QueueTyped
  <2>1. DOMAIN rows = {}
    BY <1>1
  <2>2. rows \in [DOMAIN rows -> QueueRows]
    BY <1>1
  <2>3. NoChangeAsked \in [at : {"idle", "looked", "done"}, kind : {"list", "mode", "order"},
                           of : UNION {[1..n -> Messages] : n \in 0..Cardinality(Messages)}, mode : Modes]
    BY <1>3 DEF NoChangeAsked, Modes
  <2>4. turns \in 0..MaxTurns
    BY <1>1, QueueAssumption
  <2>5. carried \in Seq(Seq(Messages))
    BY <1>1
  <2>6. /\ creating \in [Messages -> Creations]
        /\ changing \in [Desk -> [at : {"idle", "looked", "done"}, kind : {"list", "mode", "order"},
                                  of : UNION {[1..n -> Messages] : n \in 0..Cardinality(Messages)}, mode : Modes]]
    BY <1>1, <1>2, <2>3
  <2> QED
    BY <1>1, <2>1, <2>2, <2>4, <2>5, <2>6 DEF QueueTyped
<1>5. DOMAIN rows = {} /\ Arrived = {} /\ \A m \in Messages : Carriers(m) = {}
  BY <1>1, <1>2 DEF Arrived, Carriers
<1>6. BornInOrder
  BY <1>5 DEF BornInOrder
<1>7. \A m \in Messages : MessageAt(m)
  BY <1>1, <1>5 DEF MessageAt
<1> QED
  BY <1>4, <1>6, <1>7 DEF QueueInv

\* A step that neither adds nor takes away a message.
Stays ==
    /\ DOMAIN rows' = DOMAIN rows /\ \A m \in DOMAIN rows : rows'[m].born = rows[m].born
    /\ Arrived' = Arrived /\ UNCHANGED <<carried, dropped>>

LEMMA StaysStep ==
    ASSUME QueueInv, QueueTyped', Stays
    PROVE  QueueInv'
<1>1. \A m : Carriers(m)' = Carriers(m)
  BY DEF Stays, Carriers, InAnswer
<1>2. \A m \in Messages : MessageAt(m)'
  BY <1>1 DEF QueueInv, MessageAt, Stays
<1>3. BornInOrder'
  BY DEF QueueInv, BornInOrder, Stays
<1> QED
  BY <1>2, <1>3 DEF QueueInv

LEMMA ArrivedFinite == IsFiniteSet(Arrived) /\ Cardinality(Arrived) \in Nat
BY QueueAssumption, FS_Subset, FS_CardinalityType DEF Arrived

\* Steps of the requests that read, and of the turn.
LEMMA QuietSteps ==
    ASSUME QueueInv,
           \/ \E m \in Messages : \/ \E mode \in Modes : choose_mode(m, mode) \/ \E d \in Desk : look_update(d, m, mode)
                                  \/ read_order(m)
           \/ \E d \in Desk : look_list(d) \/ \E s \in Orders : look_reorder(d, s)
           \/ Final \/ Continue \/ UNCHANGED queueVars
    PROVE  QueueInv'
<1>0. QueueTyped
  BY DEF QueueInv
<1> DEFINE Of == UNION {[1..n -> Messages] : n \in 0..Cardinality(Messages)}
           Changes == [at : {"idle", "looked", "done"}, kind : {"list", "mode", "order"}, of : Of, mode : Modes]
<1>1. Cardinality(Messages) \in Nat /\ \A m \in Messages : 1 <= Cardinality(Messages)
  <2>1. Cardinality(Messages) \in Nat
    BY QueueAssumption, FS_CardinalityType
  <2>2. ASSUME NEW m \in Messages PROVE Cardinality(Messages) # 0
    BY QueueAssumption, FS_EmptySet
  <2> QED
    BY <2>1, <2>2
<1>2. \A m \in Messages : <<m>> \in Of
  <2> TAKE m \in Messages
  <2>1. 1 \in 0..Cardinality(Messages) /\ <<m>> \in [1..1 -> Messages]
    BY <1>1
  <2> QED
    BY <2>1
<1>3. <<>> \in Of /\ Orders \subseteq Of
  <2>1. 0 \in 0..Cardinality(Messages) /\ <<>> \in [1..0 -> Messages]
    BY <1>1
  <2>2. 1..Cardinality(Messages) \subseteq 0..Cardinality(Messages)
    BY <1>1
  <2> QED
    BY <2>1, <2>2 DEF Orders
<1> HIDE DEF Of
<1>4. NoChangeAsked \in Changes /\ \A mode \in Modes : Allowed(mode) \in Modes
  BY <1>3 DEF NoChangeAsked, Modes, Allowed
<1>5. \A m \in Messages, mode \in Modes :
         [at |-> "looked", kind |-> "mode", of |-> <<m>>, mode |-> Allowed(mode)] \in Changes
  BY <1>2, <1>4
<1>6. \A s \in Orders : [at |-> "looked", kind |-> "order", of |-> s, mode |-> "queued"] \in Changes
  BY <1>3 DEF Modes
<1>7. [NoChangeAsked EXCEPT !.at = "looked"] \in Changes
  BY <1>4
<1>8. changing \in [Desk -> Changes]
  BY <1>0 DEF QueueTyped, Of
<1>9. ASSUME rows' = rows, creating' \in [Messages -> Creations], changing' \in [Desk -> Changes],
             active' \in BOOLEAN, settling' \in BOOLEAN, turns' \in 0..MaxTurns,
             UNCHANGED <<carried, dropped>>
      PROVE  QueueTyped'
  BY <1>0, <1>9 DEF QueueTyped, Of
<1> HIDE DEF Changes
<1>10. ASSUME NEW m \in Messages, NEW mode \in Modes, choose_mode(m, mode) PROVE QueueInv'
  <2>1. creating[m] \in Creations /\ creating[m].at = "idle"
    BY <1>0, <1>10 DEF QueueTyped, choose_mode
  <2>2. creating' = [creating EXCEPT ![m] = [creating[m] EXCEPT !.at = "moded", !.mode = Allowed(mode)]]
    BY <1>0, <1>10 DEF choose_mode, QueueTyped
  <2>3. [creating[m] EXCEPT !.at = "moded", !.mode = Allowed(mode)] \in Creations
    BY <1>4, <2>1 DEF Creations
  <2>4. creating' \in [Messages -> Creations] /\ Arrived' = Arrived
    BY <1>0, <2>1, <2>2, <2>3 DEF QueueTyped, Arrived
  <2>5. QueueTyped'
    BY <1>0, <1>8, <1>9, <1>10, <2>4 DEF choose_mode, QueueTyped
  <2> QED
    BY <1>10, <2>4, <2>5, StaysStep DEF Stays, choose_mode
<1>11. ASSUME NEW m \in Messages, read_order(m) PROVE QueueInv'
  <2>1. creating[m] \in Creations /\ creating[m].at = "moded" /\ MaxOrder + 1 \in Nat
    BY <1>0, <1>11, MaxOrderTypes DEF QueueTyped, read_order
  <2>2. creating' = [creating EXCEPT ![m] = [creating[m] EXCEPT !.at = "ordered", !.order = MaxOrder + 1]]
    BY <1>0, <1>11 DEF read_order, QueueTyped
  <2>3. [creating[m] EXCEPT !.at = "ordered", !.order = MaxOrder + 1] \in Creations
    BY <2>1 DEF Creations
  <2>4. creating' \in [Messages -> Creations] /\ Arrived' = Arrived
    BY <1>0, <2>1, <2>2, <2>3 DEF QueueTyped, Arrived
  <2>5. QueueTyped'
    BY <1>0, <1>8, <1>9, <1>11, <2>4 DEF read_order, QueueTyped
  <2> QED
    BY <1>11, <2>4, <2>5, StaysStep DEF Stays, read_order
<1>12. ASSUME NEW d \in Desk, \/ look_list(d) \/ \E s \in Orders : look_reorder(d, s)
                              \/ \E m \in Messages, mode \in Modes : look_update(d, m, mode)
       PROVE  QueueInv'
  <2>1. PICK x \in Changes : changing' = [changing EXCEPT ![d] = x]
    BY <1>5, <1>6, <1>7, <1>12 DEF look_list, look_reorder, look_update
  <2>2. UNCHANGED <<rows, creating, active, settling, carried, dropped, turns>>
    BY <1>12 DEF look_list, look_reorder, look_update
  <2>3. changing' \in [Desk -> Changes] /\ Arrived' = Arrived
    BY <1>8, <2>1, <2>2 DEF Arrived
  <2>4. QueueTyped'
    BY <1>0, <1>9, <2>2, <2>3 DEF QueueTyped
  <2> QED
    BY <2>2, <2>3, <2>4, StaysStep DEF Stays
<1>13. CASE Final \/ Continue \/ UNCHANGED queueVars
  <2>1. UNCHANGED <<rows, creating, changing, carried, dropped>>
    BY <1>13 DEF Final, Continue, queueVars
  <2>2. active' \in BOOLEAN /\ settling' \in BOOLEAN /\ turns' \in 0..MaxTurns
    <3>1. active \in BOOLEAN /\ settling \in BOOLEAN /\ turns \in 0..MaxTurns
      BY <1>0 DEF QueueTyped
    <3>2. CASE Final
      BY <3>1, <3>2 DEF Final
    <3>3. CASE Continue
      BY <3>1, <3>3, QueueAssumption DEF Continue
    <3>4. CASE UNCHANGED queueVars
      BY <3>1, <3>4 DEF queueVars
    <3> QED
      BY <1>13, <3>2, <3>3, <3>4
  <2>3. QueueTyped' /\ Arrived' = Arrived
    BY <1>0, <1>8, <1>9, <2>1, <2>2 DEF QueueTyped, Arrived
  <2> QED
    BY <2>1, <2>3, StaysStep DEF Stays
<1> QED
  BY <1>10, <1>11, <1>12, <1>13

RowsKeep ==
    /\ DOMAIN rows' = DOMAIN rows /\ rows' \in [DOMAIN rows' -> QueueRows]
    /\ \A m \in DOMAIN rows : rows'[m].born = rows[m].born

\* Modes and places change by update, reorder and the demotions, and nothing else of a row.
LEMMA RowSteps ==
    ASSUME QueueInv,
           \/ \E d \in Desk : update(d) \/ reorder(d) \/ demote_immediate_if_inactive(d)
           \/ demote_all_immediate
    PROVE  QueueInv'
<1>0. QueueTyped
  BY DEF QueueInv
<1>1. \A m \in DOMAIN rows : rows[m] \in QueueRows
  BY <1>0 DEF QueueTyped
<1>2. ASSUME NEW f, rows' = [m \in DOMAIN rows |-> f[m]],
             \A m \in DOMAIN rows : f[m] \in QueueRows /\ f[m].born = rows[m].born
      PROVE  RowsKeep
  BY <1>2 DEF RowsKeep
<1>3. RowsKeep
  <2>1. ASSUME rows' = Demoted PROVE RowsKeep
    <3> DEFINE f == [m \in DOMAIN rows |-> [rows[m] EXCEPT !.mode = "queued"]]
    <3>1. \A m \in DOMAIN rows : f[m] \in QueueRows /\ f[m].born = rows[m].born
      BY <1>1 DEF QueueRows, Modes
    <3>2. rows' = [m \in DOMAIN rows |-> f[m]]
      BY <2>1 DEF Demoted
    <3> HIDE DEF f
    <3> QED
      BY <1>2, <3>1, <3>2
  <2>2. ASSUME NEW d \in Desk, update(d) PROVE RowsKeep
    <3> DEFINE f == [m \in DOMAIN rows |-> IF m = changing[d].of[1] THEN [rows[m] EXCEPT !.mode = changing[d].mode] ELSE rows[m]]
    <3>0. changing[d].mode \in Modes
      BY <1>0 DEF QueueTyped
    <3>1. \A m \in DOMAIN rows : f[m] \in QueueRows /\ f[m].born = rows[m].born
      BY <1>1, <3>0 DEF QueueRows
    <3>2. rows' = [m \in DOMAIN rows |-> f[m]]
      BY <2>2 DEF update
    <3> HIDE DEF f
    <3> QED
      BY <1>2, <3>1, <3>2
  <2>3. ASSUME NEW d \in Desk, reorder(d) PROVE RowsKeep
    <3> DEFINE order == changing[d].of
               f == [m \in DOMAIN rows |->
                       IF \E i \in DOMAIN order : order[i] = m THEN [rows[m] EXCEPT !.order = Place(order, m)] ELSE rows[m]]
    <3>1. CASE rows' = rows
      BY <1>0, <3>1 DEF QueueTyped, RowsKeep
    <3>2. CASE rows' # rows
      <4>0. PICK K : K = {[1..n -> Messages] : n \in 0..Cardinality(Messages)}
        OBVIOUS
      <4>1. PICK n \in 0..Cardinality(Messages) : order \in [1..n -> Messages]
        <5>1. changing[d] \in [at : {"idle", "looked", "done"}, kind : {"list", "mode", "order"}, of : UNION K, mode : Modes]
          BY <1>0, <4>0, Zenon DEF QueueTyped
        <5>2. order \in UNION K
          BY ONLY <5>1
        <5> QED
          BY ONLY <4>0, <5>2
      <4>2. Cardinality(Messages) \in Nat /\ n \in Nat
        BY QueueAssumption, FS_CardinalityType
      <4>3. \A m \in DOMAIN rows : (\E i \in DOMAIN order : order[i] = m) => Place(order, m) \in Nat
        <5> SUFFICES ASSUME NEW m \in DOMAIN rows, \E i \in DOMAIN order : order[i] = m PROVE Place(order, m) \in Nat
          OBVIOUS
        <5>1. Place(order, m) \in DOMAIN order
          BY DEF Place
        <5>2. DOMAIN order = 1..n
          BY <4>1
        <5> HIDE DEF order
        <5> QED
          BY <4>2, <5>1, <5>2
      <4>4. rows' = f
        BY <2>3, <3>2 DEF reorder
      <4>5. \A m \in DOMAIN rows : f[m] \in QueueRows /\ f[m].born = rows[m].born
        <5> HIDE DEF order
        <5> QED
          BY <1>1, <4>3 DEF QueueRows
      <4>6. rows' = [m \in DOMAIN rows |-> f[m]]
        BY <4>4
      <4> HIDE DEF f
      <4> QED
        BY <1>2, <4>5, <4>6
    <3> QED
      BY <3>1, <3>2
  <2> QED
    BY <2>1, <2>2, <2>3 DEF demote_immediate_if_inactive, demote_all_immediate
<1>4. UNCHANGED <<creating, carried, dropped, active, turns>>
  BY DEF update, reorder, demote_immediate_if_inactive, demote_all_immediate
<1>5. QueueTyped'
  <2> DEFINE Changes == [at : {"idle", "looked", "done"}, kind : {"list", "mode", "order"},
                         of : UNION {[1..n -> Messages] : n \in 0..Cardinality(Messages)}, mode : Modes]
  <2>1. [NoChangeAsked EXCEPT !.at = "done"] \in Changes
    <3>1. Cardinality(Messages) \in Nat
      BY QueueAssumption, FS_CardinalityType
    <3>2. 0 \in 0..Cardinality(Messages) /\ <<>> \in [1..0 -> Messages]
      BY <3>1
    <3>3. <<>> \in UNION {[1..n -> Messages] : n \in 0..Cardinality(Messages)}
      BY <3>2
    <3> QED
      BY <3>3 DEF NoChangeAsked, Modes
  <2>2. changing \in [Desk -> Changes]
    BY <1>0 DEF QueueTyped
  <2> HIDE DEF Changes
  <2>3. changing' \in [Desk -> Changes] /\ settling' \in BOOLEAN
    <3>1. \/ changing' = changing
          \/ \E d \in Desk : changing' = [changing EXCEPT ![d] = [NoChangeAsked EXCEPT !.at = "done"]]
      BY DEF update, reorder, demote_immediate_if_inactive, demote_all_immediate
    <3>2. settling' = settling \/ settling' = FALSE
      BY DEF update, reorder, demote_immediate_if_inactive, demote_all_immediate
    <3>3. settling \in BOOLEAN
      BY <1>0 DEF QueueTyped
    <3> QED
      BY <2>1, <2>2, <3>1, <3>2, <3>3
  <2> QED
    BY <1>0, <1>3, <1>4, <2>3 DEF QueueTyped, Changes, RowsKeep
<1> QED
  BY <1>3, <1>4, <1>5, StaysStep DEF Stays, Arrived, RowsKeep

LEMMA InsertStep ==
    ASSUME QueueInv, NEW m \in Messages, insert(m)
    PROVE  QueueInv'
<1>0. QueueTyped /\ BornInOrder /\ \A n \in Messages : MessageAt(n)
  BY DEF QueueInv
<1>1. creating[m] \in Creations /\ creating[m].at = "ordered" /\ m \notin Arrived /\ m \notin DOMAIN rows
      /\ m \notin dropped /\ Carriers(m) = {}
  BY <1>0 DEF QueueTyped, insert, MessageAt, Arrived
<1>2. creating' = [creating EXCEPT ![m] = [creating[m] EXCEPT !.at = "done"]]
  BY <1>0 DEF insert, QueueTyped
<1>3. [creating[m] EXCEPT !.at = "done"] \in Creations
  BY <1>1 DEF Creations
<1>4. Arrived' = Arrived \cup {m} /\ creating' \in [Messages -> Creations]
  BY <1>0, <1>2, <1>3 DEF Arrived, QueueTyped
<1>5. Born = Cardinality(Arrived) + 1 /\ Cardinality(Arrived) \in Nat
      /\ Cardinality(Arrived)' = Cardinality(Arrived) + 1
  <2>1. Cardinality(Arrived \cup {m}) = Cardinality(Arrived) + 1
    BY <1>1, ArrivedFinite, FS_AddElement
  <2> QED
    BY <1>4, <2>1, ArrivedFinite DEF Born, Arrived
<1> DEFINE new == [mode |-> creating[m].mode, order |-> creating[m].order, born |-> Born]
<1>6. new \in QueueRows /\ new.born = Cardinality(Arrived) + 1
  BY <1>1, <1>5 DEF Creations, QueueRows
<1>7. /\ DOMAIN rows' = DOMAIN rows \cup {m} /\ rows'[m] = new
      /\ \A n \in DOMAIN rows : rows'[n] = rows[n]
      /\ rows' = [n \in DOMAIN rows \cup {m} |-> rows'[n]]
  BY <1>1 DEF insert
<1> HIDE DEF new
<1>8. rows' \in [DOMAIN rows' -> QueueRows] /\ DOMAIN rows' \subseteq Messages
  <2>1. \A n \in DOMAIN rows' : rows'[n] \in QueueRows
    BY <1>0, <1>6, <1>7 DEF QueueTyped
  <2> QED
    BY <1>0, <1>7, <2>1 DEF QueueTyped
<1>9. UNCHANGED <<changing, active, settling, carried, dropped, turns>>
  BY DEF insert
<1>10. QueueTyped'
  BY <1>0, <1>4, <1>8, <1>9 DEF QueueTyped
<1>11. BornInOrder'
  <2>1. \A n \in DOMAIN rows : rows[n].born \in Nat /\ rows[n].born <= Cardinality(Arrived)
    BY <1>0 DEF BornInOrder, QueueTyped, QueueRows
  <2> DEFINE k == Cardinality(Arrived)
  <2>2. k \in Nat /\ k' = k + 1
    BY <1>5
  <2>3. \A n \in DOMAIN rows : rows'[n].born = rows[n].born /\ rows[n].born <= k
    BY <1>7, <2>1
  <2>4. rows'[m].born = k + 1
    BY <1>6, <1>7
  <2> HIDE DEF k
  <2>5. \A n \in DOMAIN rows' : rows'[n].born <= k'
    BY <1>7, <2>1, <2>2, <2>3, <2>4
  <2>6. \A n \in DOMAIN rows : rows'[n].born # rows'[m].born
    BY <2>1, <2>2, <2>3, <2>4
  <2>7. \A n, o \in DOMAIN rows' : rows'[n].born = rows'[o].born => n = o
    BY <1>0, <1>7, <2>3, <2>6 DEF BornInOrder
  <2> QED
    BY <2>5, <2>7 DEF BornInOrder, k
<1>12. \A n : Carriers(n)' = Carriers(n)
  BY <1>9 DEF Carriers, InAnswer
<1>13. ASSUME NEW n \in Messages PROVE MessageAt(n)'
  <2>1. CASE n = m
    BY <1>1, <1>4, <1>7, <1>9, <1>12, <2>1 DEF MessageAt
  <2>2. CASE n # m
    BY <1>0, <1>4, <1>7, <1>9, <1>12, <2>2 DEF MessageAt
  <2> QED
    BY <2>1, <2>2
<1> QED
  BY <1>10, <1>11, <1>13 DEF QueueInv

\* Rows that are taken away.
LEMMA RestStep ==
    ASSUME QueueInv, NEW S, rows' = Rest(S), Arrived' = Arrived
    PROVE  /\ DOMAIN rows' = DOMAIN rows \ S /\ rows' \in [DOMAIN rows' -> QueueRows]
           /\ BornInOrder'
<1>1. DOMAIN rows' = DOMAIN rows \ S /\ \A n \in DOMAIN rows' : rows'[n] = rows[n]
  BY DEF Rest
<1>2. rows' \in [DOMAIN rows' -> QueueRows]
  BY <1>1 DEF QueueInv, QueueTyped, Rest
<1>3. BornInOrder'
  BY <1>1 DEF QueueInv, BornInOrder
<1> QED
  BY <1>1, <1>2, <1>3

LEMMA DeleteStep ==
    ASSUME QueueInv, NEW m \in Messages, delete(m)
    PROVE  QueueInv'
<1>0. QueueTyped /\ \A n \in Messages : MessageAt(n)
  BY DEF QueueInv
<1>1. /\ rows' = Rest({m}) /\ dropped' = dropped \cup {m} /\ m \in DOMAIN rows
      /\ UNCHANGED <<creating, changing, active, settling, carried, turns>> /\ Arrived' = Arrived
  BY DEF delete, Arrived
<1>2. DOMAIN rows' = DOMAIN rows \ {m} /\ rows' \in [DOMAIN rows' -> QueueRows] /\ BornInOrder'
  BY <1>1, RestStep
<1>3. QueueTyped'
  BY <1>0, <1>1, <1>2 DEF QueueTyped
<1>4. \A n : Carriers(n)' = Carriers(n)
  BY <1>1 DEF Carriers, InAnswer
<1>5. ASSUME NEW n \in Messages PROVE MessageAt(n)'
  BY <1>0, <1>1, <1>2, <1>4 DEF MessageAt
<1> QED
  BY <1>2, <1>3, <1>5 DEF QueueInv

LEMMA ClaimStep ==
    ASSUME QueueInv, claim_immediate
    PROVE  QueueInv'
<1>0. QueueTyped /\ BornInOrder /\ \A n \in Messages : MessageAt(n)
  BY DEF QueueInv
<1>1. PICK l : l = Listed(Immediate)
  OBVIOUS
<1>2. /\ Immediate \subseteq DOMAIN rows /\ rows' = Rest(Immediate) /\ carried' = Append(carried, l)
      /\ UNCHANGED <<creating, changing, active, settling, dropped, turns>> /\ Arrived' = Arrived
  BY <1>1 DEF claim_immediate, Taken, Arrived, Immediate
<1>3. /\ IsFiniteSet(Immediate) /\ Cardinality(Immediate) \in Nat
      /\ l \in [1..Cardinality(Immediate) -> Immediate]
      /\ \A m : (\E i \in DOMAIN l : l[i] = m) <=> m \in Immediate
  BY <1>0, <1>1, <1>2, ListedDoes
<1>4. l \in Seq(Messages)
  <2>1. l \in Seq(Immediate)
    BY <1>3, SeqDef
  <2>2. Immediate \subseteq Messages
    BY <1>0, <1>2 DEF QueueTyped
  <2> QED
    BY <2>1, <2>2
<1>5. DOMAIN rows' = DOMAIN rows \ Immediate /\ rows' \in [DOMAIN rows' -> QueueRows] /\ BornInOrder'
  BY <1>2, RestStep
<1>6. QueueTyped'
  <2>1. carried' \in Seq(Seq(Messages))
    BY <1>0, <1>2, <1>4 DEF QueueTyped
  <2> QED
    BY <1>0, <1>2, <1>5, <2>1 DEF QueueTyped
<1>7. PICK k : k = Len(carried) + 1
  OBVIOUS
<1>8. /\ DOMAIN carried' = DOMAIN carried \cup {k} /\ k \notin DOMAIN carried
      /\ carried'[k] = l /\ \A j \in DOMAIN carried : carried'[j] = carried[j]
  <2>1. carried \in Seq(Seq(Messages)) /\ DOMAIN carried = 1..Len(carried) /\ Len(carried) \in Nat
    BY <1>0 DEF QueueTyped
  <2>2. /\ carried' \in Seq(Seq(Messages)) /\ Len(carried') = Len(carried) + 1 /\ DOMAIN carried' = 1..Len(carried')
        /\ \A j \in 1..Len(carried) : carried'[j] = carried[j]
        /\ carried'[Len(carried) + 1] = l
    BY <1>2, <1>4, <2>1
  <2> QED
    BY <1>7, <2>1, <2>2
<1>9. ASSUME NEW m \in Messages
      PROVE  /\ m \in Immediate => Carriers(m)' = Carriers(m) \cup {k}
             /\ m \notin Immediate => Carriers(m)' = Carriers(m)
  <2>1. \A j \in DOMAIN carried : InAnswer(m, j)' <=> InAnswer(m, j)
    BY <1>8 DEF InAnswer
  <2>2. InAnswer(m, k)' <=> m \in Immediate
    BY <1>3, <1>8 DEF InAnswer
  <2> QED
    BY <1>8, <2>1, <2>2 DEF Carriers
<1>10. ASSUME NEW m \in Messages PROVE MessageAt(m)'
  <2>1. CASE m \in Immediate
    <3>1. Carriers(m)' = {k} /\ m \notin DOMAIN rows' /\ m \notin dropped' /\ m \in Arrived'
      BY <1>0, <1>2, <1>5, <1>9, <2>1 DEF MessageAt
    <3> QED
      BY <3>1 DEF MessageAt
  <2>2. CASE m \notin Immediate
    BY <1>0, <1>2, <1>5, <1>9, <2>2 DEF MessageAt
  <2> QED
    BY <2>1, <2>2
<1> QED
  BY <1>5, <1>6, <1>10 DEF QueueInv

LEMMA QueueStep == QueueInv /\ [QueueNext]_queueVars => QueueInv'
BY QuietSteps, RowSteps, InsertStep, DeleteStep, ClaimStep DEF QueueNext

LEMMA QueueHolds ==
    ASSUME QueueInv
    PROVE  MessagesKept /\ QueueTypes
<1>1. MessagesKept
  <2> SUFFICES ASSUME NEW m \in Messages, creating[m].at = "done"
               PROVE  Cardinality({m} \cap DOMAIN rows) + Cardinality({m} \cap dropped) + Cardinality(Carriers(m)) = 1
    BY DEF MessagesKept
  <2>1. MessageAt(m) /\ m \in Arrived
    BY DEF QueueInv, Arrived
  <2>2. Cardinality({}) = 0 /\ Cardinality({m}) = 1 /\ \A k : Cardinality({k}) = 1
    BY FS_EmptySet, FS_Singleton
  <2>3. CASE m \in DOMAIN rows /\ m \notin dropped /\ Carriers(m) = {}
    <3>1. {m} \cap DOMAIN rows = {m} /\ {m} \cap dropped = {}
      BY <2>3
    <3> QED
      BY <2>2, <2>3, <3>1
  <2>4. CASE m \notin DOMAIN rows /\ m \in dropped /\ Carriers(m) = {}
    <3>1. {m} \cap DOMAIN rows = {} /\ {m} \cap dropped = {m}
      BY <2>4
    <3> QED
      BY <2>2, <2>4, <3>1
  <2>5. CASE m \notin DOMAIN rows /\ m \notin dropped /\ \E k : Carriers(m) = {k}
    <3>1. {m} \cap DOMAIN rows = {} /\ {m} \cap dropped = {}
      BY <2>5
    <3>2. Cardinality(Carriers(m)) = 1
      BY <2>2, <2>5
    <3> QED
      BY <2>2, <3>1, <3>2
  <2> QED
    BY <2>1, <2>3, <2>4, <2>5 DEF MessageAt
<1>2. QueueTypes
  BY DEF QueueInv, QueueTyped, QueueTypes, QueueRows, Creations
<1> QED
  BY <1>1, <1>2

\* For any set of messages, any number of requests that create, list, change, delete or order
\* them, and any turns that end and start again: a message that was accepted is in the queue,
\* or the user deleted it, or exactly one answer carried it (chatgpt_queue.rs).
THEOREM MessagesNeverLost == QueueInit /\ [][QueueNext]_queueVars => [](MessagesKept /\ QueueTypes)
<1>1. QueueInit => QueueInv
  BY QueueInvInit
<1>2. QueueInv /\ [QueueNext]_queueVars => QueueInv'
  BY QueueStep
<1>3. QueueInv => MessagesKept /\ QueueTypes
  BY QueueHolds
<1> QED
  BY <1>1, <1>2, <1>3, PTL

----------------------------------------------------------------------------
(* Bounded processes and the quota of their files.                          *)

Steps == {"idle", "reserved", "running", "drain", "over"}
Reasons == {"none", "quota", "spawn", "exited", "cancelled", "timedOut", "outputLimit", "reader", "lost"}
RunRows == [step : Steps, opt : Options \cup {NoProcess.opt}, total : 0..MaxOutput, held : Nat, why : Reasons,
            pipe : {"closed", "child", "other"}, signal : BOOLEAN, ref : BOOLEAN]

RunsTyped ==
    /\ process \in [Processes -> RunRows] /\ output \in [Processes -> NoOutput..MaxOutput]
    /\ quota \in [initialized : BOOLEAN, committed : Nat, reserved : Nat]

\* What the result of a run says of its file.
ResultReasons == {"exited", "cancelled", "timedOut", "outputLimit"}
FileOf(r) ==
    process[r].step = "over" /\ process[r].why \in ResultReasons =>
      IF process[r].ref THEN output[r] = Min2(process[r].total, process[r].opt.limit)
      ELSE ~Truncated(r) \/ process[r].opt.limit = 0

\* Where a run is tells what it holds, whether it writes and how long its file is.
RunSound(r) ==
    /\ process[r].step = "idle" => output[r] = NoOutput
    /\ process[r].step \in {"idle", "over"} => process[r].held = 0 /\ process[r].pipe = "closed"
    /\ process[r].step = "reserved" => output[r] = NoOutput /\ process[r].pipe = "closed" /\ process[r].total = 0
    /\ process[r].step \in {"reserved", "running", "drain"} =>
          process[r].opt \in Options /\ process[r].held = process[r].opt.limit /\ quota.initialized
    /\ process[r].step \in {"running", "drain"} => output[r] = Min2(process[r].total, process[r].opt.limit)
    /\ FileOf(r)
    /\ ~quota.initialized => process[r].step = "idle" \/ (process[r].step = "over" /\ process[r].why = "lost")

\* What runs have reserved, and what files of runs that are over hold and were accounted for.
Helds == [r \in Processes |-> process[r].held]
Counts == [r \in Processes |->
           IF process[r].step \in {"idle", "over"} /\ r \notin left /\ output[r] > 0 THEN output[r] ELSE 0]

QuotaSound ==
    /\ quota.reserved = Total(Helds, Processes)
    /\ quota.committed + quota.reserved <= MaxTotal
    /\ quota.initialized => Total(Counts, Processes) <= quota.committed

ProcInv == RunsTyped /\ (\A r \in Processes : RunSound(r)) /\ QuotaSound

LEMMA ProcFinite == IsFiniteSet(Processes) /\ MaxTotal \in Nat /\ MaxOutput \in Nat
BY ProcessAssumption

LEMMA PromisedSum ==
    ASSUME RunsTyped
    PROVE  Promised = Total(Helds, Processes)
<1>1. \A r \in Processes : process[r].held = Helds[r] /\ Helds[r] \in Nat
  BY DEF RunsTyped, RunRows, Helds
<1>2. HeldIn(process, Processes) = Total(Helds, Processes)
  BY <1>1, HeldInSum, ProcFinite
<1> QED
  BY <1>2 DEF Promised, HeldIn

LEMMA BytesSum ==
    ASSUME RunsTyped, NEW S \in SUBSET Processes
    PROVE  /\ Bytes(S) = Total(output, {r \in S : output[r] > 0})
           /\ Bytes(S) \in Nat
<1> DEFINE T == {r \in S : output[r] > 0}
<1>1. IsFiniteSet(T)
  BY FS_Subset, ProcFinite
<1>2. \A r \in T : output[r] \in Nat
  BY ProcFinite DEF RunsTyped, NoOutput
<1>3. Bytes(S) = FilesIn(output, T)
  BY DEF Bytes, FilesIn
<1> HIDE DEF T
<1>4. FilesIn(output, T) = Total(output, T)
  BY <1>1, <1>2, FilesInSum
<1>5. Total(output, T) \in Nat
  BY <1>1, <1>2, SumNat
<1> QED
  BY <1>3, <1>4, <1>5 DEF T

LEMMA ProcHolds ==
    ASSUME ProcInv
    PROVE  ProcessesSafe /\ ProcessTypes
<1>0. RunsTyped /\ QuotaSound /\ \A r \in Processes : RunSound(r)
  BY DEF ProcInv
<1>1. ReservationsReturned
  BY <1>0, PromisedSum DEF QuotaSound, ReservationsReturned
<1>2. DiskCovered
  <2> SUFFICES ASSUME quota.initialized PROVE Bytes(Processes \ left) <= quota.committed + quota.reserved
    BY DEF DiskCovered
  <2> DEFINE T == {r \in Processes \ left : output[r] > 0}
  <2>1. Bytes(Processes \ left) = Total(output, T) /\ Bytes(Processes \ left) \in Nat
    BY <1>0, BytesSum
  <2>2. \A r \in Processes : Counts[r] \in Nat /\ Helds[r] \in Nat
    BY <1>0, ProcFinite DEF RunsTyped, RunRows, Counts, Helds, NoOutput
  <2>3. ASSUME NEW r \in T PROVE output[r] \in Nat /\ (output[r] <= Counts[r] \/ output[r] <= Helds[r])
    <3>1. output[r] \in NoOutput..MaxOutput /\ output[r] > 0 /\ r \in Processes /\ r \notin left
      BY <1>0 DEF RunsTyped
    <3>2. CASE process[r].step \in {"idle", "over"}
      BY <3>1, <3>2, ProcFinite DEF Counts, NoOutput
    <3>3. CASE process[r].step \in {"running", "drain"}
      <4>1. output[r] = Min2(process[r].total, process[r].opt.limit) /\ process[r].held = process[r].opt.limit
        BY <1>0, <3>1, <3>3 DEF RunSound
      <4>2. process[r].total \in Nat /\ process[r].held \in Nat
        BY <1>0, <3>1, ProcFinite DEF RunsTyped, RunRows
      <4>3. output[r] <= Helds[r]
        BY <3>1, <4>1, <4>2 DEF Min2, Helds
      <4> QED
        BY <3>1, <4>3, ProcFinite DEF NoOutput
    <3>4. CASE process[r].step = "reserved"
      BY <1>0, <3>1, <3>4 DEF RunSound, NoOutput
    <3> QED
      BY <1>0, <3>1, <3>2, <3>3, <3>4 DEF RunsTyped, RunRows, Steps
  <2>4. Total(output, T) <= Total(Counts, Processes) + Total(Helds, Processes)
    <3>1. T \subseteq Processes
      OBVIOUS
    <3> HIDE DEF T
    <3> QED
      BY <2>2, <2>3, <3>1, ProcFinite, SumCovered
  <2>5. Total(Counts, Processes) \in Nat /\ Total(Helds, Processes) \in Nat
    BY <2>2, ProcFinite, SumNat
  <2>6. Total(Counts, Processes) <= quota.committed /\ quota.reserved = Total(Helds, Processes)
    BY <1>0 DEF QuotaSound
  <2>7. quota.committed \in Nat /\ quota.reserved \in Nat
    BY <1>0 DEF RunsTyped
  <2> HIDE DEF T
  <2> QED
    BY <2>1, <2>4, <2>5, <2>6, <2>7
<1>3. FileKept
  BY <1>0 DEF FileKept, RunSound, FileOf, ResultReasons
<1>4. ProcessTypes
  BY <1>0, ProcFinite DEF ProcessTypes, RunsTyped, RunRows, QuotaSound
<1> QED
  BY <1>1, <1>2, <1>3, <1>4 DEF ProcessesSafe

LEMMA RowOfNone == NoProcess \in RunRows
BY ProcFinite DEF NoProcess, RunRows, Steps, Reasons

LEMMA NoneFields ==
    /\ NoProcess.step = "idle" /\ NoProcess.held = 0 /\ NoProcess.pipe = "closed" /\ NoProcess.total = 0
    /\ NoQuota.initialized = FALSE /\ NoQuota.committed = 0 /\ NoQuota.reserved = 0
    /\ NoQuota \in [initialized : BOOLEAN, committed : Nat, reserved : Nat]
BY DEF NoProcess, NoQuota

LEMMA ProcInvInit == ProcessInit => ProcInv
<1> SUFFICES ASSUME ProcessInit PROVE ProcInv
  OBVIOUS
<1>1. /\ \A r \in Processes : process[r] = NoProcess /\ output[r] = NoOutput
      /\ process = [r \in Processes |-> NoProcess] /\ output = [r \in Processes |-> NoOutput]
      /\ quota = NoQuota /\ left = {}
  BY DEF ProcessInit
<1>2. RunsTyped
  BY <1>1, RowOfNone, NoneFields, ProcFinite DEF RunsTyped, NoOutput
<1>3. ASSUME NEW r \in Processes PROVE RunSound(r)
  <2>1. process[r].step = "idle" /\ process[r].held = 0 /\ process[r].pipe = "closed" /\ output[r] = NoOutput
    BY <1>1, NoneFields
  <2> QED
    BY <2>1 DEF RunSound, FileOf
<1>4. Total(Helds, Processes) = 0
  <2>1. \A r \in Processes : Helds[r] = 0
    BY <1>1, NoneFields DEF Helds
  <2> QED
    BY <2>1, SumZero
<1>5. QuotaSound
  BY <1>1, <1>4, NoneFields, ProcFinite DEF QuotaSound
<1> QED
  BY <1>2, <1>3, <1>5 DEF ProcInv

\* A run goes to row p, its file to f; the other runs and their files stay.
OneRun(r, p, f) ==
    /\ process' = [process EXCEPT ![r] = p] /\ p \in RunRows
    /\ output' = [output EXCEPT ![r] = f] /\ f \in NoOutput..MaxOutput
    /\ left' \ {r} = left \ {r}

\* What an account of the files counts of run r.
Counted(p, f, gone) == IF p.step \in {"idle", "over"} /\ ~gone /\ f > 0 THEN f ELSE 0

LEMMA OneRunStep ==
    ASSUME ProcInv, NEW r \in Processes, NEW p, NEW f, OneRun(r, p, f), RunSound(r)',
           quota' \in [initialized : BOOLEAN, committed : Nat, reserved : Int], quota'.initialized = quota.initialized,
           quota'.reserved = quota.reserved - process[r].held + p.held,
           quota'.committed + quota'.reserved <= MaxTotal,
           quota.initialized =>
             quota'.committed - Counted(p, f, r \in left') >= quota.committed - Counted(process[r], output[r], r \in left)
    PROVE  ProcInv'
<1>0. RunsTyped /\ QuotaSound /\ \A s \in Processes : RunSound(s)
  BY DEF ProcInv
<1>1. /\ process'[r] = p /\ output'[r] = f
      /\ \A s \in Processes \ {r} : process'[s] = process[s] /\ output'[s] = output[s] /\ (s \in left' <=> s \in left)
  BY <1>0 DEF OneRun, RunsTyped
<1>2. /\ Helds'[r] = p.held /\ Helds[r] = process[r].held
      /\ \A s \in Processes \ {r} : Helds[s] = Helds'[s]
      /\ \A s \in Processes : Helds[s] \in Nat /\ Helds'[s] \in Nat
  BY <1>0, <1>1 DEF Helds, RunsTyped, RunRows, OneRun
<1>3. /\ Counts'[r] = Counted(p, f, r \in left') /\ Counts[r] = Counted(process[r], output[r], r \in left)
      /\ \A s \in Processes \ {r} : Counts[s] = Counts'[s]
  BY <1>1 DEF Counts, Counted
<1>4. \A s \in Processes : Counts[s] \in Nat /\ Counts'[s] \in Nat
  <2>1. \A s \in Processes : output[s] \in Int /\ output'[s] \in Int
    BY <1>0, <1>1, ProcFinite DEF RunsTyped, OneRun, NoOutput
  <2> QED
    BY <2>1 DEF Counts
<1>5. /\ Total(Helds', Processes) = Total(Helds, Processes) - Helds[r] + Helds'[r] /\ Helds[r] <= Total(Helds, Processes)
      /\ Total(Helds', Processes) \in Nat /\ Total(Helds, Processes) \in Nat
  BY <1>2, ProcFinite, SumChange
<1>6. /\ Total(Counts', Processes) = Total(Counts, Processes) - Counts[r] + Counts'[r]
      /\ Total(Counts', Processes) \in Nat /\ Total(Counts, Processes) \in Nat
  BY <1>3, <1>4, ProcFinite, SumChange
<1>7. /\ quota.reserved = Total(Helds, Processes)
      /\ quota.initialized => Total(Counts, Processes) <= quota.committed
      /\ quota.committed \in Nat /\ quota.reserved \in Nat
  BY <1>0 DEF QuotaSound, RunsTyped
<1>8. quota'.reserved = Total(Helds', Processes)
  BY <1>2, <1>5, <1>7
<1>9. quota'.initialized => Total(Counts', Processes) <= quota'.committed
  <2>1. Counts[r] \in Nat /\ Counts'[r] \in Nat /\ quota'.committed \in Nat
    BY <1>4
  <2> QED
    BY <1>3, <1>6, <1>7, <2>1
<1>10. QuotaSound'
  BY <1>8, <1>9 DEF QuotaSound
<1>11. RunsTyped'
  <2>1. quota' \in [initialized : BOOLEAN, committed : Nat, reserved : Nat]
    <3>1. quota'.reserved \in Nat
      BY <1>5, <1>8
    <3> QED
      BY <3>1
  <2> QED
    BY <1>0, <2>1 DEF RunsTyped, OneRun
<1>12. ASSUME NEW s \in Processes PROVE RunSound(s)'
  <2>1. CASE s = r
    BY <2>1
  <2>2. CASE s # r
    <3>1. process'[s] = process[s] /\ output'[s] = output[s]
      BY <1>1, <2>2
    <3>2. RunSound(s)
      BY <1>0
    <3> QED
      BY <3>1, <3>2 DEF RunSound, FileOf, Truncated
  <2> QED
    BY <2>1, <2>2
<1> QED
  BY <1>10, <1>11, <1>12 DEF ProcInv

\* The facts of run r that its actions read.
LEMMA RunFacts ==
    ASSUME ProcInv, NEW r \in Processes
    PROVE  /\ process[r] \in RunRows /\ RunSound(r)
           /\ output[r] \in NoOutput..MaxOutput /\ output[r] \in Int
           /\ process[r].held \in Nat /\ process[r].total \in 0..MaxOutput /\ process[r].total \in Nat
           /\ process[r].held <= quota.reserved
           /\ quota.committed \in Nat /\ quota.reserved \in Nat /\ quota.initialized \in BOOLEAN
           /\ quota.committed + quota.reserved <= MaxTotal /\ MaxTotal \in Nat /\ MaxOutput \in Nat
           /\ process = [process EXCEPT ![r] = process[r]] /\ output = [output EXCEPT ![r] = output[r]]
<1>0. RunsTyped /\ QuotaSound /\ RunSound(r)
  BY DEF ProcInv
<1>1. process[r] \in RunRows /\ output[r] \in NoOutput..MaxOutput
  BY <1>0 DEF RunsTyped
<1>2. process[r].held <= quota.reserved
  <2>1. \A s \in Processes : Helds[s] \in Nat
    BY <1>0 DEF Helds, RunsTyped, RunRows
  <2>2. Total(Helds, Processes) = Helds[r] + Total(Helds, Processes \ {r}) /\ Total(Helds, Processes \ {r}) \in Nat /\ Helds[r] \in Nat
    <3>1. PICK h : h = Helds
      OBVIOUS
    <3>2. IsFiniteSet(Processes) /\ \A s \in Processes : h[s] \in Nat
      BY <2>1, <3>1, ProcFinite
    <3>3. Total(h, Processes) = h[r] + Total(h, Processes \ {r}) /\ Total(h, Processes \ {r}) \in Nat /\ h[r] \in Nat
      BY ONLY r \in Processes, <3>2, SumSplit
    <3> QED
      BY ONLY <3>1, <3>3
  <2> QED
    BY <1>0, <2>2 DEF QuotaSound, Helds
<1>3. process[r].held \in Nat /\ process[r].total \in 0..MaxOutput
  BY <1>1 DEF RunRows
<1>4. process = [process EXCEPT ![r] = process[r]] /\ output = [output EXCEPT ![r] = output[r]]
  BY <1>0 DEF RunsTyped
<1> QED
  BY <1>0, <1>1, <1>2, <1>3, <1>4, ProcFinite DEF RunsTyped, QuotaSound, NoOutput

LEMMA ReserveStep ==
    ASSUME ProcInv, NEW r \in Processes, NEW o \in Options, Reserve(r, o)
    PROVE  ProcInv'
<1>1. /\ process[r].step = "idle" /\ quota.initialized /\ output[r] = NoOutput /\ process[r].held = 0
      /\ output' = output /\ left' = left
  BY RunFacts DEF Reserve, RunSound
<1>2. o.limit \in Nat
  BY ProcessAssumption
<1>3. CASE Free(o)
  <2>1. PICK p : p = [NoProcess EXCEPT !.step = "reserved", !.opt = o, !.held = o.limit]
    OBVIOUS
  <2>2. /\ p.step = "reserved" /\ p.opt = o /\ p.held = o.limit /\ p.pipe = "closed" /\ p.total = 0
        /\ p \in RunRows
    BY <1>2, <2>1, RowOfNone, NoneFields DEF RunRows, Steps, NoProcess
  <2>3. process' = [process EXCEPT ![r] = p] /\ quota' = [quota EXCEPT !.reserved = @ + o.limit]
    BY <1>3, <2>1 DEF Reserve, Runs
  <2>4. OneRun(r, p, output[r])
    BY <1>1, <2>2, <2>3, RunFacts DEF OneRun
  <2>5. /\ quota' \in [initialized : BOOLEAN, committed : Nat, reserved : Int]
        /\ quota'.initialized = quota.initialized /\ quota'.committed = quota.committed
        /\ quota'.reserved = quota.reserved + o.limit
    BY <1>2, <2>3, RunFacts DEF ProcInv, RunsTyped
  <2>6. quota'.committed + quota'.reserved <= MaxTotal
    BY <1>2, <1>3, <2>5, RunFacts DEF Free
  <2>7. RunSound(r)'
    <3>1. process'[r] = p /\ output'[r] = NoOutput
      BY <1>1, <2>3 DEF ProcInv, RunsTyped
    <3> QED
      BY <1>1, <2>2, <2>5, <3>1 DEF RunSound, FileOf
  <2>8. Counted(p, output[r], r \in left') = 0 /\ Counted(process[r], output[r], r \in left) = 0
    BY <1>1 DEF Counted, NoOutput
  <2> QED
    BY <1>1, <1>2, <2>2, <2>4, <2>5, <2>6, <2>7, <2>8, RunFacts, OneRunStep
<1>4. CASE ~Free(o)
  <2>1. PICK p : p = [NoProcess EXCEPT !.step = "over", !.why = "quota"]
    OBVIOUS
  <2>2. /\ p.step = "over" /\ p.why = "quota" /\ p.held = 0 /\ p.pipe = "closed"
        /\ p \in RunRows
    BY <2>1, RowOfNone, NoneFields DEF RunRows, Steps, NoProcess, Reasons
  <2>3. process' = [process EXCEPT ![r] = p] /\ quota' = quota
    BY <1>4, <2>1 DEF Reserve, Runs
  <2>4. OneRun(r, p, output[r])
    BY <1>1, <2>2, <2>3, RunFacts DEF OneRun
  <2>5. quota' \in [initialized : BOOLEAN, committed : Nat, reserved : Int]
    BY <2>3 DEF ProcInv, RunsTyped
  <2>7. RunSound(r)'
    <3>1. process'[r] = p /\ output'[r] = NoOutput
      BY <1>1, <2>3 DEF ProcInv, RunsTyped
    <3> QED
      BY <1>1, <2>2, <2>3, <3>1 DEF RunSound, FileOf, ResultReasons
  <2>8. Counted(p, output[r], r \in left') = 0 /\ Counted(process[r], output[r], r \in left) = 0
    BY <1>1 DEF Counted, NoOutput
  <2>9. /\ quota'.initialized = quota.initialized
        /\ quota'.reserved = quota.reserved - process[r].held + p.held
        /\ quota'.committed + quota'.reserved <= MaxTotal
        /\ quota'.committed - Counted(p, output[r], r \in left') >= quota.committed - Counted(process[r], output[r], r \in left)
    <3>1. quota.reserved \in Nat /\ quota.committed \in Nat /\ quota.committed + quota.reserved <= MaxTotal
      BY RunFacts
    <3>2. process[r].held = 0 /\ p.held = 0
      BY <1>1, <2>2
    <3>3. quota'.reserved = quota.reserved - process[r].held + p.held
      BY <2>3, <3>1, <3>2
    <3>4. quota.committed - 0 >= quota.committed - 0
      BY <3>1
    <3>5. quota'.committed - Counted(p, output[r], r \in left') >= quota.committed - Counted(process[r], output[r], r \in left)
      BY <2>3, <2>8, <3>4
    <3> QED
      BY <2>3, <3>1, <3>3, <3>5
  <2> QED
    BY <2>4, <2>5, <2>7, <2>9, OneRunStep
<1> QED
  BY <1>3, <1>4

\* A step of a run that neither takes nor gives back what is promised.
LEMMA SteadyStep ==
    ASSUME ProcInv, NEW r \in Processes, NEW p, NEW f, OneRun(r, p, f), quota' = quota,
           left' = left, p.held = process[r].held, process[r].step \in {"reserved", "running", "drain"},
           p.step \in {"running", "drain"}, p.opt = process[r].opt, f = Min2(p.total, p.opt.limit)
    PROVE  ProcInv'
<1>1. quota' \in [initialized : BOOLEAN, committed : Nat, reserved : Int] /\ quota.initialized
  BY RunFacts DEF ProcInv, RunsTyped, RunSound
<1>2. RunSound(r)'
  <2>1. process'[r] = p /\ output'[r] = f
    BY DEF ProcInv, RunsTyped, OneRun
  <2> QED
    BY <1>1, <2>1, RunFacts DEF RunSound, FileOf
<1>3. Counted(p, f, r \in left') = 0 /\ Counted(process[r], output[r], r \in left) = 0
  BY DEF Counted
<1> QED
  BY <1>1, <1>2, <1>3, RunFacts, OneRunStep

LEMMA SpawnStep ==
    ASSUME ProcInv, NEW r \in Processes, Spawn(r)
    PROVE  ProcInv'
<1>1. /\ process[r].step = "reserved" /\ output' = [output EXCEPT ![r] = 0] /\ quota' = quota /\ left' = left
      /\ process[r].total = 0 /\ process[r].opt \in Options
  BY RunFacts DEF Spawn, RunSound
<1>2. PICK p : p = [process[r] EXCEPT !.step = "running", !.pipe = "child"]
  OBVIOUS
<1>3. /\ p.step = "running" /\ p.opt = process[r].opt /\ p.held = process[r].held /\ p.total = 0
      /\ p \in RunRows
  BY <1>1, <1>2, RunFacts DEF RunRows, Steps
<1>4. process' = [process EXCEPT ![r] = p]
  BY <1>2 DEF Spawn, Runs
<1>5. OneRun(r, p, 0)
  BY <1>1, <1>3, <1>4, ProcFinite DEF OneRun, NoOutput
<1>6. Min2(p.total, p.opt.limit) = 0
  <2>1. p.opt.limit \in Nat
    BY <1>1, <1>3, ProcessAssumption
  <2> QED
    BY <1>3, <2>1 DEF Min2
<1> QED
  BY <1>1, <1>3, <1>5, <1>6, SteadyStep

LEMMA PrintsStep ==
    ASSUME ProcInv, NEW r \in Processes, Prints(r)
    PROVE  ProcInv'
<1>1. /\ process[r].pipe # "closed" /\ process[r].total < MaxOutput
      /\ output' = [output EXCEPT ![r] = Stored(r)] /\ quota' = quota /\ left' = left
  BY DEF Prints
<1>2. process[r].step \in {"running", "drain"}
  BY <1>1, RunFacts DEF RunSound, RunRows, Steps
<1>3. /\ process[r].opt \in Options /\ process[r].opt.limit \in Nat
      /\ output[r] = Min2(process[r].total, process[r].opt.limit)
  BY <1>2, RunFacts, ProcessAssumption DEF RunSound
<1>4. PICK p : p = [process[r] EXCEPT !.total = @ + 1, !.signal = @ \/ process[r].total + 1 > process[r].opt.preview]
  OBVIOUS
<1>5. /\ p.step = process[r].step /\ p.opt = process[r].opt /\ p.held = process[r].held
      /\ p.total = process[r].total + 1 /\ p \in RunRows
  <2>1. PICK b \in BOOLEAN : p = [process[r] EXCEPT !.total = @ + 1, !.signal = b]
    <3>1. CASE process[r].signal \/ process[r].total + 1 > process[r].opt.preview
      <4>1. p = [process[r] EXCEPT !.total = @ + 1, !.signal = TRUE]
        BY <1>4, <3>1
      <4> QED
        BY <4>1
    <3>2. CASE ~(process[r].signal \/ process[r].total + 1 > process[r].opt.preview)
      <4>1. p = [process[r] EXCEPT !.total = @ + 1, !.signal = FALSE]
        BY <1>4, <3>2
      <4> QED
        BY <4>1
    <3> QED
      BY <3>1, <3>2
  <2> QED
    <3>1. process[r].total + 1 \in 0..MaxOutput
      BY <1>1, RunFacts
    <3>2. PICK t \in 0..MaxOutput : t = process[r].total + 1
      BY <3>1
    <3>3. p = [process[r] EXCEPT !.total = t, !.signal = b]
      BY <2>1, <3>2
    <3> QED
      BY <3>2, <3>3, RunFacts DEF RunRows
<1>6. Stored(r) = Min2(p.total, p.opt.limit) /\ Stored(r) \in 0..MaxOutput
  BY <1>1, <1>3, <1>5, RunFacts DEF Stored, Min2
<1>7. process' = [process EXCEPT ![r] = p]
  BY <1>4 DEF Prints, Runs
<1>8. OneRun(r, p, Stored(r))
  BY <1>1, <1>5, <1>6, <1>7, ProcFinite DEF OneRun, NoOutput
<1> QED
  BY <1>1, <1>2, <1>5, <1>6, <1>8, SteadyStep

\* The process ends, or what it left behind closes its pipe.
LEMMA EndsStep ==
    ASSUME ProcInv, NEW r \in Processes, ProcessExits(r) \/ Ended(r) \/ PipeCloses(r)
    PROVE  ProcInv'
<1>1. output' = output /\ quota' = quota /\ left' = left
  BY DEF ProcessExits, Ended, PipeCloses
<1>2. process[r].step \in {"running", "drain"}
  <2>1. CASE PipeCloses(r)
    BY <2>1, RunFacts DEF PipeCloses, RunSound, RunRows, Steps
  <2>2. CASE ProcessExits(r) \/ Ended(r)
    BY <2>2 DEF ProcessExits, Ended
  <2> QED
    BY <2>1, <2>2
<1>3. PICK p : /\ p.step \in {"running", "drain"} /\ p.opt = process[r].opt /\ p.held = process[r].held
               /\ p.total = process[r].total /\ p \in RunRows /\ process' = [process EXCEPT ![r] = p]
  <2>1. CASE ProcessExits(r)
    <3>1. PICK c \in {"closed", "other"} : process' = [process EXCEPT ![r] = [process[r] EXCEPT !.step = "drain", !.why = "exited", !.pipe = c]]
      BY <2>1 DEF ProcessExits, Runs
    <3>2. PICK p : p = [process[r] EXCEPT !.step = "drain", !.why = "exited", !.pipe = c]
      OBVIOUS
    <3>3. /\ p.step = "drain" /\ p.opt = process[r].opt /\ p.held = process[r].held
          /\ p.total = process[r].total /\ p \in RunRows
      BY <3>2, RunFacts DEF RunRows, Steps, Reasons
    <3> QED
      BY <3>1, <3>2, <3>3
  <2>2. CASE Ended(r)
    <3>1. PICK w \in Reasons, c \in {"closed", "other"} :
             process' = [process EXCEPT ![r] = [process[r] EXCEPT !.step = "drain", !.why = w, !.pipe = c]]
      BY <2>2 DEF Ended, Terminated, Runs, Reasons
    <3>2. PICK p : p = [process[r] EXCEPT !.step = "drain", !.why = w, !.pipe = c]
      OBVIOUS
    <3>3. /\ p.step = "drain" /\ p.opt = process[r].opt /\ p.held = process[r].held
          /\ p.total = process[r].total /\ p \in RunRows
      BY <3>2, RunFacts DEF RunRows, Steps
    <3> QED
      BY <3>1, <3>2, <3>3
  <2>3. CASE PipeCloses(r)
    <3>1. process' = [process EXCEPT ![r] = [process[r] EXCEPT !.pipe = "closed"]]
      BY <2>3 DEF PipeCloses, Runs
    <3>2. PICK p : p = [process[r] EXCEPT !.pipe = "closed"]
      OBVIOUS
    <3>3. /\ p.step = process[r].step /\ p.opt = process[r].opt /\ p.held = process[r].held
          /\ p.total = process[r].total /\ p \in RunRows
      BY <3>2, RunFacts DEF RunRows, Steps
    <3> QED
      BY <1>2, <3>1, <3>2, <3>3
  <2> QED
    BY <2>1, <2>2, <2>3
<1>4. output[r] = Min2(p.total, p.opt.limit)
  BY <1>2, <1>3, RunFacts DEF RunSound
<1>5. OneRun(r, p, output[r])
  BY <1>1, <1>3, RunFacts DEF OneRun
<1> QED
  BY <1>1, <1>2, <1>3, <1>4, <1>5, SteadyStep

LEMMA SpawnFailsStep ==
    ASSUME ProcInv, NEW r \in Processes, SpawnFails(r)
    PROVE  ProcInv'
<1>1. /\ process[r].step = "reserved" /\ output' = output /\ left' = left /\ output[r] = NoOutput
      /\ process[r].pipe = "closed" /\ quota.initialized
  BY RunFacts DEF SpawnFails, RunSound
<1>2. PICK p : p = [process[r] EXCEPT !.step = "over", !.why = "spawn", !.held = 0]
  OBVIOUS
<1>3. /\ p.step = "over" /\ p.why = "spawn" /\ p.held = 0 /\ p.pipe = "closed" /\ p \in RunRows
  BY <1>1, <1>2, RunFacts DEF RunRows, Steps, Reasons
<1>4. process' = [process EXCEPT ![r] = p]
  BY <1>2 DEF SpawnFails, Runs
<1>5. OneRun(r, p, output[r])
  BY <1>1, <1>3, <1>4, RunFacts DEF OneRun
<1>6. /\ quota' \in [initialized : BOOLEAN, committed : Nat, reserved : Int]
      /\ quota'.initialized = quota.initialized /\ quota'.committed = quota.committed
      /\ quota'.reserved = quota.reserved - process[r].held
  BY RunFacts DEF SpawnFails, Released, ProcInv, RunsTyped
<1>7. RunSound(r)'
  <2>1. process'[r] = p /\ output'[r] = NoOutput
    BY <1>1, <1>4 DEF ProcInv, RunsTyped
  <2> QED
    BY <1>1, <1>3, <1>6, <2>1 DEF RunSound, FileOf, ResultReasons
<1>8. Counted(p, output[r], r \in left') = 0 /\ Counted(process[r], output[r], r \in left) = 0
  BY <1>1 DEF Counted, NoOutput
<1>9. /\ quota'.reserved = quota.reserved - process[r].held + p.held
      /\ quota'.committed + quota'.reserved <= MaxTotal
      /\ quota'.committed - 0 >= quota.committed - 0
  BY <1>3, <1>6, RunFacts
<1> QED
  BY <1>5, <1>6, <1>7, <1>8, <1>9, OneRunStep

\* A run is over and gives back what it held; its file is accounted for, gone or left.
LEMMA OverStep ==
    ASSUME ProcInv, NEW r \in Processes, NEW p, NEW f, NEW c \in Nat, OneRun(r, p, f),
           process[r].step \in {"running", "drain"},
           p.step = "over", p.held = 0, p.pipe = "closed",
           quota' \in [initialized : BOOLEAN, committed : Nat, reserved : Int],
           quota'.initialized = quota.initialized, quota'.committed = quota.committed + c,
           quota'.reserved = quota.reserved - process[r].held,
           c <= process[r].held, r \notin left' /\ f > 0 => c >= f,
           FileOf(r)'
    PROVE  ProcInv'
<1>2. quota.initialized
  BY RunFacts DEF RunSound
<1>3. RunSound(r)'
  <2>1. process'[r] = p /\ output'[r] = f
    BY DEF ProcInv, RunsTyped, OneRun
  <2> QED
    BY <1>2, <2>1 DEF RunSound
<1>4. Counted(p, f, r \in left') <= c /\ Counted(p, f, r \in left') \in Int
  BY ProcFinite DEF Counted, OneRun, NoOutput
<1>5. Counted(process[r], output[r], r \in left) = 0
  BY DEF Counted
<1>6. /\ quota'.reserved = quota.reserved - process[r].held + p.held
      /\ quota'.committed + quota'.reserved <= MaxTotal
      /\ quota'.committed - Counted(p, f, r \in left') >= quota.committed - 0
  <2>1. /\ quota.reserved \in Nat /\ quota.committed \in Nat /\ quota.committed + quota.reserved <= MaxTotal
        /\ process[r].held \in Nat /\ MaxTotal \in Nat
    BY RunFacts
  <2> QED
    BY <1>4, <2>1
<1> QED
  BY <1>3, <1>5, <1>6, OneRunStep

LEMMA DrainFailsStep ==
    ASSUME ProcInv, NEW r \in Processes, DrainFails(r)
    PROVE  ProcInv'
<1>1. process[r].step \in {"running", "drain"} /\ output' = output /\ left' = left \cup {r}
  BY DEF DrainFails
<1>2. PICK p : p = [process[r] EXCEPT !.step = "over", !.why = "reader", !.held = 0, !.pipe = "closed"]
  OBVIOUS
<1>3. p.step = "over" /\ p.why = "reader" /\ p.held = 0 /\ p.pipe = "closed" /\ p \in RunRows
  BY <1>2, RunFacts DEF RunRows, Steps, Reasons
<1>4. process' = [process EXCEPT ![r] = p]
  BY <1>2 DEF DrainFails, Runs
<1>5. OneRun(r, p, output[r])
  BY <1>1, <1>3, <1>4, RunFacts DEF OneRun
<1>6. /\ quota' \in [initialized : BOOLEAN, committed : Nat, reserved : Int]
      /\ quota'.initialized = quota.initialized /\ quota'.committed = quota.committed + 0
      /\ quota'.reserved = quota.reserved - process[r].held
  BY RunFacts DEF DrainFails, Released, ProcInv, RunsTyped
<1>7. FileOf(r)'
  <2>1. process'[r] = p
    BY <1>4 DEF ProcInv, RunsTyped
  <2> QED
    BY <1>3, <2>1 DEF FileOf, ResultReasons
<1> QED
  <2>1. 0 \in Nat /\ 0 <= process[r].held /\ r \in left'
    BY <1>1, RunFacts
  <2> QED
    BY <1>1, <1>3, <1>5, <1>6, <1>7, <2>1, OverStep

LEMMA DrainedStep ==
    ASSUME ProcInv, NEW r \in Processes, Drained(r)
    PROVE  ProcInv'
<1> DEFINE keep == Truncated(r) /\ output[r] > 0
           c == IF keep THEN output[r] ELSE 0
<1>1. /\ process[r].step = "drain"
      /\ process' = [process EXCEPT ![r] = [process[r] EXCEPT !.step = "over", !.held = 0, !.ref = keep]]
      /\ quota' = [quota EXCEPT !.reserved = @ - process[r].held, !.committed = @ + c]
      /\ \/ (output' = IF keep THEN output ELSE [output EXCEPT ![r] = NoOutput]) /\ left' = left
         \/ ~keep /\ left' = left \cup {r} /\ output' = output
      /\ process[r].pipe = "closed"
  BY DEF Drained, Runs
<1>2. /\ output[r] = Min2(process[r].total, process[r].opt.limit) /\ process[r].held = process[r].opt.limit
      /\ process[r].opt \in Options
  BY <1>1, RunFacts DEF RunSound
<1>3. /\ process[r].opt.limit \in Nat /\ process[r].opt.preview \in Nat /\ process[r].total \in Nat
      /\ output[r] \in Nat /\ output[r] <= process[r].held
  BY <1>2, RunFacts, ProcessAssumption DEF Min2
<1>4. PICK b \in BOOLEAN : b <=> keep
  BY Zenon
<1>5. PICK p : p = [process[r] EXCEPT !.step = "over", !.held = 0, !.ref = b]
  OBVIOUS
<1>6. /\ p.step = "over" /\ p.held = 0 /\ p.pipe = "closed" /\ p.ref = b /\ p \in RunRows
      /\ p.total = process[r].total /\ p.opt = process[r].opt
  BY <1>1, <1>5, RunFacts DEF RunRows, Steps
<1>7. process' = [process EXCEPT ![r] = p]
  <2>1. CASE keep
    <3>1. b = TRUE
      BY <1>4, <2>1
    <3>2. process' = [process EXCEPT ![r] = [process[r] EXCEPT !.step = "over", !.held = 0, !.ref = TRUE]]
      BY <1>1, <2>1
    <3> QED
      BY <1>5, <3>1, <3>2
  <2>2. CASE ~keep
    <3>1. b = FALSE
      BY <1>4, <2>2
    <3>2. process' = [process EXCEPT ![r] = [process[r] EXCEPT !.step = "over", !.held = 0, !.ref = FALSE]]
      BY <1>1, <2>2
    <3> QED
      BY <1>5, <3>1, <3>2
  <2> QED
    BY <2>1, <2>2
<1>8. PICK f \in NoOutput..MaxOutput : /\ output' = [output EXCEPT ![r] = f]
                                       /\ keep => f = output[r]
                                       /\ ~keep => f = NoOutput \/ r \in left'
                                       /\ left' \ {r} = left \ {r}
  <2>1. NoOutput \in NoOutput..MaxOutput
    BY ProcFinite DEF NoOutput
  <2>2. output[r] \in NoOutput..MaxOutput /\ output = [output EXCEPT ![r] = output[r]]
    BY RunFacts
  <2> HIDE DEF keep
  <2>3. CASE keep
    BY <1>1, <2>2, <2>3
  <2>4. CASE ~keep /\ output' = [output EXCEPT ![r] = NoOutput] /\ left' = left
    BY <2>1, <2>4
  <2>5. CASE ~keep /\ output' = output /\ left' = left \cup {r}
    BY <2>2, <2>5
  <2> QED
    BY <1>1, <2>3, <2>4, <2>5
<1>9. OneRun(r, p, f)
  BY <1>6, <1>7, <1>8 DEF OneRun
<1>10. c \in Nat /\ c <= process[r].held /\ (r \notin left' /\ f > 0 => c >= f)
  <2>1. CASE keep
    BY <1>3, <1>8, <2>1
  <2>2. CASE ~keep
    BY <1>3, <1>8, <2>2, RunFacts DEF NoOutput
  <2> QED
    BY <2>1, <2>2
<1>11. FileOf(r)'
  <2>1. process'[r] = p /\ output'[r] = f
    BY <1>7, <1>8 DEF ProcInv, RunsTyped
  <2>2. CASE keep
    <3>1. p.ref /\ f = Min2(p.total, p.opt.limit)
      BY <1>2, <1>4, <1>6, <1>8, <2>2
    <3> QED
      BY <2>1, <3>1 DEF FileOf
  <2>3. CASE ~keep
    <3>1. ~p.ref
      BY <1>4, <1>6, <2>3
    <3>2. ~(p.total > p.opt.preview) \/ p.opt.limit = 0
      BY <1>2, <1>3, <1>6, <2>3 DEF Truncated, Min2
    <3> QED
      BY <2>1, <3>1, <3>2 DEF FileOf, Truncated
  <2> QED
    BY <2>2, <2>3
<1>12. /\ quota' \in [initialized : BOOLEAN, committed : Nat, reserved : Int]
       /\ quota'.initialized = quota.initialized /\ quota'.committed = quota.committed + c
       /\ quota'.reserved = quota.reserved - process[r].held
  <2>1. PICK d \in Nat, e \in Int : d = quota.committed + c /\ e = quota.reserved - process[r].held
    BY <1>10, RunFacts
  <2> HIDE DEF c, keep
  <2>2. quota' = [quota EXCEPT !.reserved = e, !.committed = d]
    BY <1>1, <2>1
  <2> QED
    BY <2>1, <2>2 DEF ProcInv, RunsTyped
<1> HIDE DEF c, keep
<1> QED
  BY <1>1, <1>6, <1>9, <1>10, <1>11, <1>12, OverStep

\* No run is under way: nothing is reserved.
LEMMA NoneHeld ==
    ASSUME \A r \in Processes : process[r].held = 0
    PROVE  Total(Helds, Processes) = 0
<1>1. \A r \in Processes : Helds[r] = 0
  BY DEF Helds
<1> QED
  BY <1>1, SumZero

LEMMA ScanStep ==
    ASSUME ProcInv, Scan
    PROVE  ProcInv'
<1>1. ~quota.initialized /\ left' = {} /\ process' = process
  BY DEF Scan
<1>2. PICK gone \in SUBSET {r \in Processes : output[r] >= 0} :
         /\ Bytes(Processes \ gone) <= MaxTotal
         /\ output' = [r \in Processes |-> IF r \in gone THEN NoOutput ELSE output[r]]
         /\ quota' = [NoQuota EXCEPT !.initialized = TRUE, !.committed = Bytes(Processes \ gone)]
  BY DEF Scan, Pruned
<1>3. RunsTyped /\ \A r \in Processes : RunSound(r)
  BY DEF ProcInv
<1>4. \A r \in Processes : process[r].step = "idle" \/ (process[r].step = "over" /\ process[r].why = "lost")
  BY <1>1, <1>3 DEF RunSound
<1> DEFINE T == {r \in Processes \ gone : output[r] > 0}
<1>5. Bytes(Processes \ gone) = Total(output, T) /\ Bytes(Processes \ gone) \in Nat
  BY <1>3, BytesSum
<1>6. /\ quota'.initialized /\ quota'.committed = Total(output, T) /\ quota'.reserved = 0
      /\ quota' \in [initialized : BOOLEAN, committed : Nat, reserved : Nat] /\ Total(output, T) <= MaxTotal
  BY <1>2, <1>5 DEF NoQuota
<1>7. \A r \in Processes : output'[r] = NoOutput \/ (r \notin gone /\ output'[r] = output[r])
  BY <1>2
<1>8. RunsTyped'
  <2>1. NoOutput \in NoOutput..MaxOutput
    BY ProcFinite DEF NoOutput
  <2>2. output' \in [Processes -> NoOutput..MaxOutput]
    BY <1>2, <1>3, <2>1 DEF RunsTyped
  <2> QED
    BY <1>1, <1>3, <1>6, <2>2 DEF RunsTyped
<1>9. ASSUME NEW r \in Processes PROVE RunSound(r)'
  BY <1>1, <1>3, <1>4, <1>6, <1>7 DEF RunSound, FileOf, ResultReasons
<1>10. Total(Helds', Processes) = 0
  <2>1. \A r \in Processes : Helds'[r] = 0
    BY <1>1, <1>3, <1>4 DEF Helds, RunSound
  <2> QED
    BY <2>1, SumZero
<1>11. Total(Counts', Processes) <= Total(output, T)
  <2>1. ASSUME NEW r \in Processes PROVE Counts'[r] = 0 \/ (r \in T /\ Counts'[r] \in Nat /\ Counts'[r] <= output[r])
    <3>1. output[r] \in NoOutput..MaxOutput /\ output'[r] \in NoOutput..MaxOutput
      BY <1>3, <1>8 DEF RunsTyped
    <3>2. Counts'[r] = 0 \/ (output'[r] > 0 /\ Counts'[r] = output'[r])
      BY DEF Counts
    <3> QED
      BY <1>7, <3>1, <3>2, ProcFinite DEF NoOutput
  <2>2. IsFiniteSet(T)
    BY ProcFinite, FS_Subset
  <2>3. \A r \in T : output[r] \in Nat
    BY <1>3, ProcFinite DEF RunsTyped, NoOutput
  <2> HIDE DEF T
  <2> QED
    BY <2>1, <2>2, <2>3, SumWithin
<1>12. QuotaSound'
  <2>1. Total(output, T) \in Nat
    BY <1>5
  <2> HIDE DEF T
  <2> QED
    BY <1>6, <1>10, <1>11, <2>1, ProcFinite DEF QuotaSound
<1> QED
  BY <1>8, <1>9, <1>12 DEF ProcInv

LEMMA RebootStep ==
    ASSUME ProcInv, Reboot
    PROVE  ProcInv'
<1>1. quota' = NoQuota /\ output' = output /\ left' = left
  BY DEF Reboot
<1>2. PICK again \in SUBSET {r \in Processes : output[r] < 0 /\ process[r].step # "idle"} :
         process' = [r \in Processes |-> IF r \in again \/ process[r].step = "idle" THEN NoProcess ELSE
                       [NoProcess EXCEPT !.step = "over", !.why = "lost"]]
  BY DEF Reboot
<1>3. RunsTyped /\ \A r \in Processes : RunSound(r)
  BY DEF ProcInv
<1>4. PICK p : p = [NoProcess EXCEPT !.step = "over", !.why = "lost"]
  OBVIOUS
<1>5. p.step = "over" /\ p.why = "lost" /\ p.held = 0 /\ p.pipe = "closed" /\ p \in RunRows
  BY <1>4, RowOfNone, NoneFields DEF RunRows, Steps, Reasons, NoProcess
<1>6. process' = [r \in Processes |-> IF r \in again \/ process[r].step = "idle" THEN NoProcess ELSE p]
  BY <1>2, <1>4
<1>7. RunsTyped'
  BY <1>1, <1>3, <1>5, <1>6, RowOfNone, NoneFields DEF RunsTyped
<1>8. ASSUME NEW r \in Processes PROVE RunSound(r)' /\ process'[r].held = 0
  <2>1. CASE r \in again \/ process[r].step = "idle"
    <3>1. process'[r] = NoProcess
      BY <1>6, <2>1
    <3>2. output'[r] = NoOutput
      <4>1. CASE process[r].step = "idle"
        BY <1>1, <1>3, <4>1 DEF RunSound
      <4>2. CASE output[r] < 0
        BY <1>1, <1>3, <4>2, ProcFinite DEF RunsTyped, NoOutput
      <4> QED
        BY <2>1, <4>1, <4>2
    <3> QED
      BY <1>1, <3>1, <3>2, NoneFields DEF RunSound, FileOf
  <2>2. CASE ~(r \in again \/ process[r].step = "idle")
    <3>1. process'[r] = p
      BY <1>6, <2>2
    <3> QED
      BY <1>1, <1>5, <3>1, NoneFields DEF RunSound, FileOf, ResultReasons
  <2> QED
    BY <2>1, <2>2
<1>9. Total(Helds', Processes) = 0
  <2>1. \A r \in Processes : Helds'[r] = 0
    BY <1>8 DEF Helds
  <2> QED
    BY <2>1, SumZero
<1>10. QuotaSound'
  BY <1>1, <1>9, NoneFields, ProcFinite DEF QuotaSound
<1> QED
  BY <1>7, <1>8, <1>10 DEF ProcInv

LEMMA ProcStep == ProcInv /\ [ProcessNext]_processVars => ProcInv'
<1> SUFFICES ASSUME ProcInv, [ProcessNext]_processVars PROVE ProcInv'
  OBVIOUS
<1>1. CASE UNCHANGED processVars
  BY <1>1 DEF processVars, ProcInv, RunsTyped, RunSound, FileOf, Truncated, QuotaSound, Helds, Counts
<1>2. CASE ProcessNext
  BY <1>2, ScanStep, RebootStep, ReserveStep, SpawnStep, SpawnFailsStep, PrintsStep, EndsStep, DrainedStep,
     DrainFailsStep DEF ProcessNext
<1> QED
  BY <1>1, <1>2

\* For any runs, limits, signals, failures and restarts of the host: what is promised is what
\* the runs under way reserved and never exceeds the quota, the files the host accounts for
\* fit it, and a result that points to its file points to one as long as it says
\* (process_runner.rs, artifact_quota.rs).
THEOREM ReservationsKept == ProcessSpec => [](ProcessesSafe /\ ProcessTypes)
<1>1. ProcessInit => ProcInv
  BY ProcInvInit
<1>2. ProcInv /\ [ProcessNext]_processVars => ProcInv'
  BY ProcStep
<1>3. ProcInv => ProcessesSafe /\ ProcessTypes
  BY ProcHolds
<1> QED
  BY <1>1, <1>2, <1>3, PTL DEF ProcessSpec


----------------------------------------------------------------------------
(* Shells: the replay of their output.                                      *)

Event == [sequence : Nat, bytes : Nat]
SizeOf(events) == [i \in DOMAIN events |-> events[i].bytes]

LEMMA SizeIs ==
    ASSUME NEW events \in Seq(Event)
    PROVE  /\ \A i \in 1..Len(events) : SizeOf(events)[i] = events[i].bytes /\ SizeOf(events)[i] \in Nat
           /\ DOMAIN events = 1..Len(events) /\ Len(events) \in Nat
<1>1. DOMAIN events = 1..Len(events) /\ Len(events) \in Nat
  OBVIOUS
<1>2. ASSUME NEW i \in 1..Len(events) PROVE SizeOf(events)[i] = events[i].bytes /\ SizeOf(events)[i] \in Nat
  <2>1. events[i] \in Event
    OBVIOUS
  <2>2. events[i].bytes \in Nat
    BY <2>1 DEF Event
  <2>3. SizeOf(events)[i] = events[i].bytes
    BY <1>1 DEF SizeOf
  <2> QED
    BY <2>2, <2>3
<1> QED
  BY <1>1, <1>2

LEMMA BytesOfTotal ==
    ASSUME NEW events \in Seq(Event)
    PROVE  BytesOf(events) = Total(SizeOf(events), 1..Len(events)) /\ BytesOf(events) \in Nat
<1> DEFINE S == DOMAIN events
           Body(f) == [s \in SUBSET S |-> IF s = {} THEN 0 ELSE f[s \ {Max(s)}] + events[Max(s)].bytes]
           it == CHOOSE iter : iter = Body(iter)
           w == SizeOf(events)
<1>1. BytesOf(events) = MapThenFoldSet(LAMBDA e, n : n + e.bytes, 0, LAMBDA i : events[i], LAMBDA T : Max(T), S)
  BY DEF BytesOf, FoldLeft
<1>2. MapThenFoldSet(LAMBDA e, n : n + e.bytes, 0, LAMBDA i : events[i], LAMBDA T : Max(T), S) = it[S]
  BY DEF MapThenFoldSet
<1>3. S = 1..Len(events) /\ Len(events) \in Nat /\ IsFiniteSet(S)
  BY RangeFinite
<1>4. \A i \in S : w[i] = events[i].bytes /\ w[i] \in Nat
  BY SizeIs
<1> HIDE DEF S, w
<1>5. PICK p : p = [s \in SUBSET S |-> Max(s)]
  OBVIOUS
<1>6. Picks(p, S)
  <2> SUFFICES ASSUME NEW s \in SUBSET S, s # {} PROVE Max(s) \in s
    BY <1>5 DEF Picks
  <2>0. S \subseteq Nat
    BY <1>3
  <2>1. IsFiniteSet(s) /\ s \subseteq Nat
    BY <1>3, <2>0, FS_Subset
  <2>2. PICK id : id = [x \in s |-> x]
    OBVIOUS
  <2>3. PICK x \in s : \A y \in s : id[y] <= id[x]
    BY <2>1, <2>2, GreatestValue
  <2>4. \A y \in s : x >= y
    BY <2>1, <2>2, <2>3
  <2> QED
    BY <2>4 DEF Max
<1>7. ASSUME NEW iter
      PROVE  iter = Body(iter) <=> Adds(iter, w, S, p, "last")
  <2> DEFINE one == Body(iter)
             two == [s \in SUBSET S |-> IF s = {} THEN 0 ELSE iter[s \ {p[s]}] + w[p[s]]]
  <2>1. ASSUME NEW s \in SUBSET S PROVE one[s] = two[s]
    <3>1. CASE s = {}
      BY <3>1
    <3>2. CASE s # {}
      <4>1. p[s] = Max(s) /\ p[s] \in S
        BY <1>5, <1>6, <3>2 DEF Picks
      <4>2. w[p[s]] = events[Max(s)].bytes
        BY <1>4, <4>1
      <4> QED
        BY <3>2, <4>1, <4>2
    <3> QED
      BY <3>1, <3>2
  <2>2. one = two
    BY <2>1
  <2>3. two = [s \in SUBSET S |-> IF s = {} THEN 0
                 ELSE IF "last" = "first" THEN w[p[s]] + iter[s \ {p[s]}] ELSE iter[s \ {p[s]}] + w[p[s]]]
    OBVIOUS
  <2> HIDE DEF one, two
  <2>4. iter = one <=> Adds(iter, w, S, p, "last")
    BY <2>2, <2>3 DEF Adds
  <2> QED
    BY <2>4 DEF one
<1>8. PICK g : Adds(g, w, S, p, "last")
  BY <1>3, <1>4, <1>6, AddsExists
<1>9. it = Body(it)
  <2>1. g = Body(g)
    BY <1>7, <1>8
  <2> HIDE DEF Body
  <2> QED
    BY <2>1, Zenon
<1>10. Adds(it, w, S, p, "last")
  BY <1>7, <1>9
<1> HIDE DEF it
<1>11. it[S] = Total(w, S)
  BY <1>3, <1>4, <1>6, <1>10, AddsSum
<1>12. Total(w, S) \in Nat
  BY <1>3, <1>4, SumNat
<1> QED
  BY <1>1, <1>2, <1>3, <1>11, <1>12 DEF w

LEMMA BytesOfAppend ==
    ASSUME NEW events \in Seq(Event), NEW e \in Event
    PROVE  BytesOf(Append(events, e)) = BytesOf(events) + e.bytes
<1> DEFINE n == Len(events)
           more == Append(events, e)
<1>1. more \in Seq(Event) /\ Len(more) = n + 1 /\ n \in Nat
  OBVIOUS
<1>2. /\ \A i \in 1..n : SizeOf(more)[i] = SizeOf(events)[i] /\ SizeOf(events)[i] \in Nat
      /\ SizeOf(more)[n + 1] = e.bytes /\ e.bytes \in Nat
  <2>1. more[n + 1] = e /\ \A i \in 1..n : more[i] = events[i] /\ i \in 1..(n + 1)
    OBVIOUS
  <2>2. n + 1 \in 1..(n + 1) /\ e.bytes \in Nat
    BY <1>1 DEF Event
  <2> HIDE DEF more
  <2> QED
    BY <1>1, <2>1, <2>2, SizeIs
<1> HIDE DEF more
<1>3. BytesOf(more) = Total(SizeOf(more), 1..(n + 1)) /\ BytesOf(events) = Total(SizeOf(events), 1..n)
  BY <1>1, BytesOfTotal
<1> HIDE DEF n
<1>4. Total(SizeOf(more), 1..(n + 1)) = Total(SizeOf(more), 1..((n + 1) - 1)) + SizeOf(more)[n + 1]
  <2>1. \A i \in 1..(n + 1) : SizeOf(more)[i] \in Nat
    BY <1>1, <1>2
  <2>2. 1 \in Nat /\ n + 1 \in Nat /\ 1 <= n + 1
    BY <1>1
  <2> QED
    BY <2>1, <2>2, SumLast
<1>5. (n + 1) - 1 = n
  BY <1>1
<1>6. Total(SizeOf(more), 1..n) = Total(SizeOf(events), 1..n)
  BY <1>2, SumSame
<1> QED
  BY <1>2, <1>3, <1>4, <1>5, <1>6 DEF more

LEMMA BytesOfSplit ==
    ASSUME NEW events \in Seq(Event), NEW k \in 0..Len(events)
    PROVE  /\ SubSeq(events, 1, k) \in Seq(Event) /\ Len(SubSeq(events, 1, k)) = k
           /\ SubSeq(events, k + 1, Len(events)) \in Seq(Event) /\ Len(SubSeq(events, k + 1, Len(events))) = Len(events) - k
           /\ \A i \in 1..(Len(events) - k) : SubSeq(events, k + 1, Len(events))[i] = events[k + i]
           /\ BytesOf(events) = BytesOf(SubSeq(events, 1, k)) + BytesOf(SubSeq(events, k + 1, Len(events)))
<1> DEFINE n == Len(events)
           a == SubSeq(events, 1, k)
           b == SubSeq(events, k + 1, n)
           m == n - k
<1>1. n \in Nat /\ k \in Nat /\ m \in Nat /\ k + m = n
  OBVIOUS
<1>2. a \in Seq(Event) /\ Len(a) = k /\ \A i \in 1..k : a[i] = events[i]
  BY <1>1
<1>3. b \in Seq(Event) /\ Len(b) = m /\ \A i \in 1..m : b[i] = events[k + i]
  <2>1. Len(b) = m
    <3>1. n \in Int /\ k + 1 \in Int /\ \A i \in (k + 1)..n : events[i] \in Event
      BY <1>1
    <3>2. Len(b) = IF k + 1 <= n THEN n - (k + 1) + 1 ELSE 0
      BY ONLY <3>1, SubSeqProperties, Zenon
    <3> HIDE DEF b, n, m
    <3> QED
      BY <1>1, <3>2
  <2>2. \A i \in 1..m : b[i] = events[k + i] /\ k + i \in 1..n
    BY <1>1
  <2>3. b = [i \in 1..m |-> events[k + i]]
    BY <1>1
  <2>4. \A i \in 1..m : events[k + i] \in Event
    BY <2>2
  <2>5. b \in [1..m -> Event]
    BY <2>3, <2>4
  <2>6. b \in Seq(Event)
    BY <1>1, <2>5
  <2> QED
    BY <2>1, <2>2, <2>6
<1>4. \A i \in 1..n : SizeOf(events)[i] = events[i].bytes /\ SizeOf(events)[i] \in Nat
  BY SizeIs
<1>5. \A i \in 1..k : SizeOf(a)[i] = SizeOf(events)[i]
  BY <1>1, <1>2, <1>4 DEF SizeOf
<1>6. \A i \in 1..m : SizeOf(b)[i] = SizeOf(events)[k + i] /\ SizeOf(events)[k + i] \in Nat
  <2> SUFFICES ASSUME NEW i \in 1..m PROVE SizeOf(b)[i] = SizeOf(events)[k + i] /\ SizeOf(events)[k + i] \in Nat
    OBVIOUS
  <2>1. k + i \in 1..n
    BY <1>1
  <2>2. SizeOf(b)[i] = b[i].bytes
    BY <1>3 DEF SizeOf
  <2> QED
    BY <1>3, <1>4, <2>1, <2>2
<1> HIDE DEF a, b
<1>7. /\ BytesOf(events) = Total(SizeOf(events), 1..n) /\ BytesOf(a) = Total(SizeOf(a), 1..k)
      /\ BytesOf(b) = Total(SizeOf(b), 1..m)
  BY <1>2, <1>3, BytesOfTotal
<1> HIDE DEF n, m
<1>8. Total(SizeOf(a), 1..k) = Total(SizeOf(events), 1..k)
  BY <1>5, SumSame
<1>9. Total(SizeOf(b), 1..m) = Total(SizeOf(events), (k + 1)..(k + m))
  <2> DEFINE v == SizeOf(b)
             w == SizeOf(events)
  <2>1. Shifted(v, w, k, m)
    BY <1>6 DEF Shifted
  <2> HIDE DEF v, w, m, n
  <2>2. Total(v, 1..m) = Total(w, (k + 1)..(k + m))
    BY <1>1, <2>1, SumShift
  <2> QED
    BY <2>2 DEF v, w
<1>10. Total(SizeOf(events), 1..n) = Total(SizeOf(events), 1..k) + Total(SizeOf(events), (k + 1)..(k + m))
  <2>1. 1..n = (1..k) \cup ((k + 1)..(k + m)) /\ (1..k) \cap ((k + 1)..(k + m)) = {}
    BY <1>1
  <2>2. IsFiniteSet(1..k) /\ IsFiniteSet((k + 1)..(k + m))
    BY <1>1, RangeFinite
  <2>3. \A i \in (1..k) \cup ((k + 1)..(k + m)) : SizeOf(events)[i] \in Nat
    BY <1>4, <2>1
  <2>4. Total(SizeOf(events), (1..k) \cup ((k + 1)..(k + m))) = Total(SizeOf(events), 1..k) + Total(SizeOf(events), (k + 1)..(k + m))
    BY <2>1, <2>2, <2>3, SumUnion
  <2> QED
    BY <2>1, <2>4, Zenon
<1> QED
  BY <1>2, <1>3, <1>7, <1>8, <1>9, <1>10 DEF a, b, n, m


ReplayRows == [events : Seq(Event), latest : Nat, bytes : Nat, lost : Nat, lostEvents : Nat,
               truncated : BOOLEAN, waiting : Nat, printed : Nat]

\* The events are numbered without a gap, from the first that is not lost.
Numbered(b) ==
    /\ \A i \in 1..Len(b.events) : b.events[i].sequence = b.lostEvents + i
    /\ b.latest = b.lostEvents + Len(b.events)
BytesCount(b) == b.lost + BytesOf(b.events) + b.waiting = b.printed /\ b.bytes = BytesOf(b.events)
LossTold(b) == b.truncated <=> b.lostEvents > 0
ReplayRight(b) == b \in ReplayRows /\ Numbered(b) /\ BytesCount(b) /\ LossTold(b)

LEMMA NoBytes == BytesOf(<<>>) = 0
<1>1. <<>> \in Seq(Event) /\ Len(<<>>) = 0 /\ 1..0 = {}
  OBVIOUS
<1> QED
  BY <1>1, BytesOfTotal, SumEmpty

LEMMA EmptyRight == ReplayRight(EmptyReplay) /\ EmptyReplay.lostEvents = 0
<1>1. PICK b : b = EmptyReplay
  OBVIOUS
<1>2. /\ b.events = <<>> /\ b.latest = 0 /\ b.bytes = 0 /\ b.lost = 0 /\ b.lostEvents = 0
      /\ b.truncated = FALSE /\ b.waiting = 0 /\ b.printed = 0 /\ b \in ReplayRows
  BY <1>1 DEF EmptyReplay, ReplayRows
<1> QED
  BY <1>1, <1>2, NoBytes DEF ReplayRight, Numbered, BytesCount, LossTold

\* The least of what the limits leave out exists: nothing at all fits them.
LEMMA GoneExists ==
    ASSUME NEW events \in Seq(Event)
    PROVE  \E k \in 0..Len(events) :
              /\ Fits(SubSeq(events, k + 1, Len(events)))
              /\ \A j \in 0..(k - 1) : ~Fits(SubSeq(events, j + 1, Len(events)))
<1> DEFINE n == Len(events)
           Good == {k \in 0..n : Fits(SubSeq(events, k + 1, n))}
           F == {0..k : k \in Good}
<1>1. n \in Nat
  OBVIOUS
<1>2. n \in Good
  <2>1. SubSeq(events, n + 1, n) = <<>>
    BY <1>1, SubSeqEmpty
  <2>2. Fits(<<>>)
    BY NoBytes, ShellAssumption DEF Fits
  <2>3. n \in 0..n
    BY <1>1
  <2> QED
    BY <2>1, <2>2, <2>3
<1> HIDE DEF n
<1>3. F # {} /\ \A T \in F : IsFiniteSet(T)
  <2>1. \A k \in Good : IsFiniteSet(0..k)
    BY <1>1, RangeFinite
  <2> QED
    BY <1>2, <2>1
<1>4. PICK T \in F : \A U \in F : U \subseteq T => U = T
  <2> HIDE DEF F
  <2> QED
    BY <1>3, LeastSet
<1>5. PICK k \in Good : T = 0..k
  OBVIOUS
<1>6. k \in 0..n /\ Fits(SubSeq(events, k + 1, n))
  OBVIOUS
<1>7. ASSUME NEW j \in 0..(k - 1), Fits(SubSeq(events, j + 1, n)) PROVE FALSE
  <2>1. j \in 0..n /\ j < k
    BY <1>1, <1>6
  <2>2. j \in Good
    BY <1>7, <2>1
  <2>3. 0..j \subseteq 0..k /\ k \in 0..k /\ k \notin 0..j
    BY <1>1, <1>6, <2>1
  <2> QED
    BY <1>4, <1>5, <2>2, <2>3
<1> QED
  BY <1>6, <1>7 DEF n

\* What a step does to a replay that is right in all but its limits.
LEMMA BoundedRight ==
    ASSUME NEW b, ReplayRight(b)
    PROVE  /\ ReplayRight(Bounded(b)) /\ Bounded(b).lostEvents >= b.lostEvents
           /\ Bounded(b).printed = b.printed /\ Bounded(b).latest = b.latest
<1> DEFINE e == b.events
           n == Len(e)
           g == CHOOSE k \in 0..n : Fits(SubSeq(e, k + 1, n)) /\ \A j \in 0..(k - 1) : ~Fits(SubSeq(e, j + 1, n))
           lost == BytesOf(SubSeq(e, 1, g))
           rest == SubSeq(e, g + 1, n)
<1>0. b \in ReplayRows /\ Numbered(b) /\ BytesCount(b) /\ LossTold(b)
  BY DEF ReplayRight
<1>15. e \in Seq(Event) /\ b.truncated \in BOOLEAN
  BY <1>0 DEF ReplayRows
<1>1. /\ n \in Nat /\ b.latest \in Nat /\ b.bytes \in Nat /\ b.lost \in Nat /\ b.lostEvents \in Nat
      /\ b.waiting \in Nat /\ b.printed \in Nat
  BY <1>0, <1>15 DEF ReplayRows
<1>2. g \in 0..n
  BY <1>15, GoneExists
<1>3. Bounded(b) = [b EXCEPT !.events = rest, !.bytes = b.bytes - lost, !.lost = b.lost + lost,
                      !.lostEvents = b.lostEvents + g, !.truncated = b.truncated \/ g > 0]
  BY DEF Bounded
<1> HIDE DEF e, g
<1>4. /\ SubSeq(e, 1, g) \in Seq(Event) /\ rest \in Seq(Event) /\ Len(rest) = n - g
      /\ \A i \in 1..(n - g) : rest[i] = e[g + i]
      /\ BytesOf(e) = lost + BytesOf(rest)
  BY <1>15, <1>2, BytesOfSplit
<1>5. lost \in Nat /\ BytesOf(rest) \in Nat
  BY <1>4, BytesOfTotal
<1> HIDE DEF n, lost, rest
<1>6. PICK t \in BOOLEAN : t <=> (b.truncated \/ g > 0)
  BY Zenon
<1>7. PICK y \in Nat, l \in Nat, m \in Nat : y = b.bytes - lost /\ l = b.lost + lost /\ m = b.lostEvents + g
  <2>1. b.bytes = lost + BytesOf(rest)
    BY <1>0, <1>4 DEF BytesCount, e
  <2>2. b.bytes - lost \in Nat
    BY <1>1, <1>5, <2>1
  <2>3. b.lost + lost \in Nat /\ b.lostEvents + g \in Nat
    BY <1>1, <1>2, <1>5
  <2> QED
    BY <2>2, <2>3
<1>8. PICK c : c = [b EXCEPT !.events = rest, !.bytes = y, !.lost = l, !.lostEvents = m, !.truncated = t]
  OBVIOUS
<1>9. Bounded(b) = c
  <2>1. CASE b.truncated \/ g > 0
    BY <1>3, <1>6, <1>7, <1>8, <2>1
  <2>2. CASE ~(b.truncated \/ g > 0)
    BY <1>3, <1>6, <1>7, <1>8, <2>2
  <2> QED
    BY <2>1, <2>2
<1>10. /\ c.events = rest /\ c.bytes = y /\ c.lost = l /\ c.lostEvents = m /\ c.truncated = t
       /\ c.latest = b.latest /\ c.waiting = b.waiting /\ c.printed = b.printed /\ c \in ReplayRows
  BY <1>0, <1>4, <1>8 DEF ReplayRows
<1>11. Numbered(c)
  <2>1. ASSUME NEW i \in 1..(n - g) PROVE rest[i].sequence = m + i
    <3>1. g + i \in 1..n
      BY <1>1, <1>2
    <3>2. e[g + i].sequence = b.lostEvents + (g + i)
      BY <1>0, <3>1 DEF Numbered, e, n
    <3>3. rest[i] = e[g + i]
      BY <1>4
    <3>4. b.lostEvents + (g + i) = (b.lostEvents + g) + i
      BY <1>1, <1>2
    <3> QED
      BY <1>7, <3>2, <3>3, <3>4
  <2>2. b.latest = b.lostEvents + n
    BY <1>0 DEF Numbered, e, n
  <2>3. b.latest = m + (n - g)
    BY <1>1, <1>2, <1>7, <2>2
  <2> QED
    BY <1>4, <1>10, <2>1, <2>3 DEF Numbered
<1>12. BytesCount(c)
  <2>1. b.lost + BytesOf(e) + b.waiting = b.printed /\ b.bytes = BytesOf(e)
    BY <1>0 DEF BytesCount, e
  <2>2. PICK u \in Nat, v \in Nat, lo \in Nat, wa \in Nat, pr \in Nat, by \in Nat :
            u = lost /\ v = BytesOf(rest) /\ lo = b.lost /\ wa = b.waiting /\ pr = b.printed /\ by = b.bytes
    BY <1>1, <1>5
  <2>3. by = u + v /\ lo + (u + v) + wa = pr /\ l = lo + u /\ y = by - u
    BY <1>4, <1>7, <2>1, <2>2
  <2>4. l + v + wa = pr /\ y = v
    BY ONLY u \in Nat, v \in Nat, lo \in Nat, wa \in Nat, pr \in Nat, by \in Nat, <2>3
  <2>5. l + BytesOf(rest) + b.waiting = b.printed /\ y = BytesOf(rest)
    BY <2>2, <2>4, Zenon
  <2> QED
    BY <1>10, <2>5, Zenon DEF BytesCount
<1>13. LossTold(c)
  BY <1>0, <1>1, <1>15, <1>2, <1>6, <1>7, <1>10 DEF LossTold
<1>14. c.lostEvents >= b.lostEvents /\ c.printed = b.printed /\ c.latest = b.latest
  BY <1>1, <1>2, <1>7, <1>10
<1> QED
  BY <1>9, <1>10, <1>11, <1>12, <1>13, <1>14 DEF ReplayRight

LEMMA PushRight ==
    ASSUME NEW b, ReplayRight(b), NEW n \in Nat, n <= b.waiting
    PROVE  /\ ReplayRight(push(b, n)) /\ push(b, n).lostEvents >= b.lostEvents
           /\ push(b, n).printed = b.printed /\ push(b, n).latest >= b.latest
<1>0. b \in ReplayRows /\ Numbered(b) /\ BytesCount(b) /\ LossTold(b)
  BY DEF ReplayRight
<1>15. b.events \in Seq(Event) /\ b.truncated \in BOOLEAN
  BY <1>0 DEF ReplayRows
<1>1. /\ b.latest \in Nat /\ b.bytes \in Nat /\ b.lost \in Nat /\ b.lostEvents \in Nat
      /\ b.waiting \in Nat /\ b.printed \in Nat
  BY <1>0 DEF ReplayRows
<1>16. b.latest + 1 \in Nat /\ b.bytes + n \in Nat /\ b.waiting - n \in Nat
  BY <1>1
<1>4. PICK l \in Nat, y \in Nat, w \in Nat : l = b.latest + 1 /\ y = b.bytes + n /\ w = b.waiting - n
  BY ONLY <1>16, Zenon
<1>17. PICK e : e = [sequence |-> l, bytes |-> n]
  OBVIOUS
<1>2. e \in Event /\ e.sequence = l /\ e.bytes = n
  BY <1>17 DEF Event
<1>18. PICK ev : ev = Append(b.events, e)
  OBVIOUS
<1>3. ev \in Seq(Event) /\ ev = Append(b.events, e)
  BY <1>15, <1>2, <1>18
<1>5. PICK c : c = [b EXCEPT !.latest = l, !.bytes = y, !.waiting = w, !.events = ev]
  OBVIOUS
<1>6. push(b, n) = Bounded(c)
  <2>1. push(b, n) = Bounded([b EXCEPT !.latest = b.latest + 1, !.bytes = b.bytes + n, !.waiting = b.waiting - n,
                      !.events = Append(b.events, [sequence |-> b.latest + 1, bytes |-> n])])
    BY DEF push
  <2>2. push(b, n) = Bounded([b EXCEPT !.latest = l, !.bytes = y, !.waiting = w, !.events = ev])
    BY <1>17, <1>18, <1>4, <2>1
  <2> QED
    BY <1>5, <2>2
<1>7. /\ c.events = ev /\ c.latest = l /\ c.bytes = y /\ c.waiting = w /\ c.lost = b.lost
      /\ c.lostEvents = b.lostEvents /\ c.truncated = b.truncated /\ c.printed = b.printed /\ c \in ReplayRows
  <2>1. /\ c.events = ev /\ c.latest = l /\ c.bytes = y /\ c.waiting = w /\ c.lost = b.lost
        /\ c.lostEvents = b.lostEvents /\ c.truncated = b.truncated /\ c.printed = b.printed
    BY <1>0, <1>5 DEF ReplayRows
  <2>2. c \in ReplayRows
    BY ONLY <1>0, <1>3, <1>5, l \in Nat, y \in Nat, w \in Nat DEF ReplayRows
  <2> QED
    BY <2>1, <2>2
<1>8. Len(ev) = Len(b.events) + 1 /\ Len(b.events) \in Nat /\ ev[Len(b.events) + 1] = e
      /\ \A i \in 1..Len(b.events) : ev[i] = b.events[i]
  BY <1>15, <1>3
<1>9. Numbered(c)
  <2>1. b.latest = b.lostEvents + Len(b.events) /\ \A i \in 1..Len(b.events) : b.events[i].sequence = b.lostEvents + i
    BY <1>0 DEF Numbered
  <2>2. e.sequence = b.latest + 1
    BY <1>2, <1>4
  <2>3. \A i \in 1..(Len(b.events) + 1) : ev[i].sequence = b.lostEvents + i
    <3> SUFFICES ASSUME NEW i \in 1..(Len(b.events) + 1) PROVE ev[i].sequence = b.lostEvents + i
      OBVIOUS
    <3>1. CASE i \in 1..Len(b.events)
      BY <1>8, <2>1, <3>1
    <3>2. CASE i = Len(b.events) + 1
      BY <1>1, <1>8, <2>1, <2>2, <3>2
    <3> QED
      BY <1>8, <3>1, <3>2
  <2>4. l = b.lostEvents + (Len(b.events) + 1)
    <3>1. PICK k \in Nat, lo \in Nat, la \in Nat : k = Len(b.events) /\ lo = b.lostEvents /\ la = b.latest
      BY ONLY <1>1, <1>8, Zenon
    <3>2. la = lo + k /\ l = la + 1
      BY ONLY <1>4, <2>1, <3>1, Zenon
    <3>3. l = lo + (k + 1)
      BY ONLY lo \in Nat, k \in Nat, la \in Nat, <3>2
    <3> QED
      BY <3>1, <3>3, Zenon
  <2> QED
    BY <1>7, <1>8, <2>3, <2>4 DEF Numbered
<1>10. BytesCount(c)
  <2>1. b.lost + BytesOf(b.events) + b.waiting = b.printed /\ b.bytes = BytesOf(b.events)
    BY <1>0 DEF BytesCount
  <2>2. BytesOf(ev) = BytesOf(b.events) + e.bytes /\ e.bytes = n
    BY <1>15, <1>2, <1>3, BytesOfAppend
  <2>3. b.lost + BytesOf(ev) + w = b.printed /\ y = BytesOf(ev)
    <3>1. BytesOf(b.events) \in Nat
      BY <1>15, BytesOfTotal
    <3> QED
      BY <1>1, <1>4, <2>1, <2>2, <3>1
  <2> QED
    BY <1>7, <2>3 DEF BytesCount
<1>11. ReplayRight(c)
  BY <1>0, <1>7, <1>9, <1>10 DEF LossTold, ReplayRight
<1>12. l >= b.latest
  BY <1>1, <1>4
<1> QED
  BY <1>6, <1>7, <1>11, <1>12, BoundedRight


----------------------------------------------------------------------------
(* Shells: what every step keeps.                                           *)

CallSteps == {"idle", "looked", "begun", "admitted", "spawned", "persist", "written", "push", "row", "stopping"}
ShellOps == {"none", "create", "write", "wait", "close", "turn", "stop", "timeout"}
AnyShell == Sessions \cup {NoSession}
ShellStatuses == {"none", "running"} \cup ShellOver
CallRows == [at : CallSteps, op : ShellOps, req : Requests \cup {"none"}, s : AnyShell,
             status : {"none"} \cup ShellOver, shut : SUBSET Sessions]
BridgeRows == [at : {"none", "read", "look", "over", "blind"}, s : AnyShell, cursor : Nat, seen : Nat]

\* A call knows its session and its request where it uses them.
RowRight(row) ==
    /\ row \in CallRows
    /\ row.at \in {"spawned", "persist", "written", "push", "row"} => row.s \in Sessions
    /\ row.at \in {"looked", "begun"} /\ row.op = "write" => row.s \in Sessions
    /\ row.at \in {"looked", "begun", "admitted", "spawned", "written"} => row.req \in Requests
CallRight(c) == RowRight(calls[c]) /\ (calls[c].at # "idle" => c <= made)

\* A call that is not over, or that comes, has no bridge yet.
BridgeAlone(c) == calls[c].at # "idle" \/ c > made => bridges[c].at = "none"

\* A bridge has published what its cursor passed, but for what the replay had lost.
BridgeRight(n) ==
    /\ bridges[n] \in BridgeRows
    /\ bridges[n].at # "none" => bridges[n].s \in Sessions
    /\ bridges[n].s \in Sessions => /\ bridges[n].cursor - bridges[n].seen <= replay[bridges[n].s].lostEvents
                                    /\ bridges[n].cursor <= replay[bridges[n].s].latest

ShellsTyped ==
    /\ bounds \in Bounds /\ bounds.calls \in Nat /\ bounds.printed \in Nat /\ bounds.hosts \in Nat
    /\ child \in [Sessions -> {"none", "running", "exited"}] /\ exited \in [Sessions -> BOOLEAN]
    /\ statuses \in [Sessions -> ShellStatuses]
    /\ open \subseteq Sessions /\ reaping \subseteq Sessions /\ told \subseteq Sessions
    /\ retired \in Seq(Sessions) /\ Len(retired) <= MaxRetired
    /\ DOMAIN completed_requests \subseteq Requests
    /\ \A r \in DOMAIN completed_requests : completed_requests[r] \in Sessions
    /\ in_flight_requests \subseteq Requests
    /\ made \in 0..bounds.calls /\ hosts \in 0..bounds.hosts
CallsSound ==
    /\ calls = [c \in Sessions |-> calls[c]] /\ bridges = [n \in Sessions |-> bridges[n]]
    /\ \A c \in Sessions : CallRight(c) /\ BridgeAlone(c)
BridgesSound == \A n \in Sessions : BridgeRight(n)
ReplaysSound ==
    /\ replay = [s \in Sessions |-> replay[s]]
    /\ \A s \in Sessions : ReplayRight(replay[s]) /\ replay[s].printed <= bounds.printed
InSight(s) == \E n \in Sessions : bridges[n].s = s /\ bridges[n].at \in {"read", "look", "blind"}
RowsSound == \A s \in Sessions : statuses[s] = "running" => InSight(s)
OpenSound == \A s \in Sessions : child[s] = "running" /\ s \notin told => s \in open

ShellInv == ShellsTyped /\ CallsSound /\ BridgesSound /\ ReplaysSound /\ RowsSound /\ OpenSound


LEMMA ShellNumbers ==
    ASSUME ShellInv
    PROVE  /\ bounds.calls \in Nat /\ made \in Nat /\ made <= bounds.calls /\ Sessions = 1..bounds.calls
           /\ NoSession \notin Sessions /\ Sessions \subseteq Nat
BY DEF ShellInv, ShellsTyped, Sessions, NoSession

LEMMA CallFacts ==
    ASSUME ShellInv, NEW c \in Sessions
    PROVE  /\ RowRight(calls[c]) /\ calls[c] \in CallRows
           /\ calls[c].at \in CallSteps /\ calls[c].op \in ShellOps /\ calls[c].shut \subseteq Sessions
           /\ calls[c].at # "idle" => c <= made /\ bridges[c].at = "none"
           /\ c = made + 1 => bridges[c].at = "none"
           /\ c \in Nat /\ (c = made + 1 => c <= bounds.calls)
           /\ calls = [calls EXCEPT ![c] = calls[c]] /\ bridges = [bridges EXCEPT ![c] = bridges[c]]
<1>1. CallRight(c) /\ BridgeAlone(c) /\ calls = [d \in Sessions |-> calls[d]] /\ bridges = [n \in Sessions |-> bridges[n]]
  BY DEF ShellInv, CallsSound
<1>2. RowRight(calls[c]) /\ calls[c] \in CallRows /\ (calls[c].at # "idle" => c <= made)
  BY <1>1 DEF CallRight, RowRight
<1>3. calls[c].at \in CallSteps /\ calls[c].op \in ShellOps /\ calls[c].shut \subseteq Sessions
  BY <1>2 DEF CallRows
<1>4. c \in Nat /\ (c = made + 1 => c > made /\ c <= bounds.calls)
  BY ShellNumbers
<1> QED
  BY <1>1, <1>2, <1>3, <1>4 DEF BridgeAlone

LEMMA NoCallRight == RowRight(NoShellCall) /\ NoShellCall.at = "idle"
BY DEF RowRight, NoShellCall, CallRows, CallSteps, ShellOps, AnyShell

\* A call that goes to its next step, and one at its first.
LEMMA RowGoes ==
    ASSUME NEW row, RowRight(row), NEW to \in CallSteps,
           to \in {"spawned", "persist", "written", "push", "row"} => row.s \in Sessions,
           to \in {"looked", "begun"} /\ row.op = "write" => row.s \in Sessions,
           to \in {"looked", "begun", "admitted", "spawned", "written"} => row.req \in Requests
    PROVE  RowRight([row EXCEPT !.at = to]) /\ [row EXCEPT !.at = to].at = to
<1>1. PICK r : r = [row EXCEPT !.at = to]
  OBVIOUS
<1>2. row \in CallRows
  BY DEF RowRight
<1>3. r \in CallRows /\ r.at = to /\ r.op = row.op /\ r.s = row.s /\ r.req = row.req
  BY <1>1, <1>2 DEF CallRows
<1>4. RowRight(r)
  BY <1>3 DEF RowRight
<1> QED
  BY <1>1, <1>3, <1>4

LEMMA RowStarts ==
    ASSUME NEW at \in CallSteps, NEW op \in ShellOps, NEW req \in Requests \cup {"none"}, NEW s \in AnyShell,
           NEW status \in {"none"} \cup ShellOver, NEW shut \in SUBSET Sessions,
           at \in {"spawned", "persist", "written", "push", "row"} => s \in Sessions,
           at \in {"looked", "begun"} /\ op = "write" => s \in Sessions,
           at \in {"looked", "begun", "admitted", "spawned", "written"} => req \in Requests
    PROVE  RowRight([at |-> at, op |-> op, req |-> req, s |-> s, status |-> status, shut |-> shut])
BY DEF RowRight, CallRows

LEMMA RetainedRight ==
    ASSUME ShellInv, NEW s \in Sessions
    PROVE  Retained(s) \in Seq(Sessions) /\ Len(Retained(s)) <= MaxRetired
<1>1. retired \in Seq(Sessions) /\ Len(retired) <= MaxRetired /\ MaxRetired \in Nat
  BY ShellAssumption DEF ShellInv, ShellsTyped
<1>6. PICK q : q = Append(retired, s)
  OBVIOUS
<1>2. q \in Seq(Sessions) /\ q = Append(retired, s)
  BY <1>1, <1>6
<1>3. Len(q) = Len(retired) + 1 /\ Len(retired) \in Nat
  BY <1>1, <1>2
<1>4. CASE Len(q) > MaxRetired
  <2>1. Retained(s) = Tail(q)
    BY <1>2, <1>4 DEF Retained
  <2>2. q # <<>>
    BY <1>3
  <2>3. Tail(q) \in Seq(Sessions) /\ Len(Tail(q)) = Len(q) - 1
    BY <1>2, <2>2, HeadTailProperties
  <2>4. Len(Tail(q)) <= MaxRetired
    BY <1>1, <1>3, <2>3
  <2> QED
    BY <2>1, <2>3, <2>4, Zenon
<1>5. CASE ~(Len(q) > MaxRetired)
  <2>1. Retained(s) = q
    BY <1>2, <1>5 DEF Retained
  <2>2. Len(q) <= MaxRetired
    BY <1>1, <1>3, <1>5
  <2> QED
    BY <1>2, <2>1, <2>2, Zenon
<1> QED
  BY <1>4, <1>5

\* What a step of one call leaves right, whatever it does to its session.
LEMMA CallKeeps ==
    ASSUME ShellInv, bounds' = bounds, bridges' = bridges, replay' = replay,
           NEW c \in Sessions, NEW row, RowRight(row), calls' = [calls EXCEPT ![c] = row],
           made' \in made..bounds.calls,
           row.at # "idle" => c <= made' /\ bridges[c].at = "none",
           \A s \in Sessions : statuses'[s] = "running" => statuses[s] = "running"
    PROVE  CallsSound' /\ BridgesSound' /\ ReplaysSound' /\ RowsSound'
<1>1. Sessions' = Sessions
  BY DEF Sessions
<1>2. CallsSound'
  <2>1. \A r : RowRight(r) => RowRight(r)'
    BY <1>1 DEF RowRight, CallRows, AnyShell
  <2>2. calls = [d \in Sessions |-> calls[d]] /\ bridges = [n \in Sessions |-> bridges[n]]
    BY DEF ShellInv, CallsSound
  <2>3. calls' = [d \in Sessions |-> calls'[d]] /\ bridges' = [n \in Sessions |-> bridges'[n]]
        /\ \A d \in Sessions : calls'[d] = IF d = c THEN row ELSE calls[d]
    BY <2>2
  <2>4. ASSUME NEW d \in Sessions PROVE CallRight(d)' /\ BridgeAlone(d)'
    <3>1. CallRight(d) /\ BridgeAlone(d)
      BY DEF ShellInv, CallsSound
    <3>2. made \in Nat /\ made' \in Nat /\ made <= made' /\ d \in Nat
      BY ShellNumbers
    <3>3. RowRight(calls'[d])
      BY <2>3, <3>1 DEF CallRight
    <3>4. RowRight(calls[d])'
      BY <2>1, <3>3
    <3>5. calls'[d].at # "idle" => d <= made' /\ bridges[d].at = "none"
      BY <2>3, <3>1, <3>2 DEF CallRight, BridgeAlone
    <3>6. d > made' => bridges[d].at = "none"
      BY <3>1, <3>2 DEF BridgeAlone
    <3> QED
      BY <3>4, <3>5, <3>6 DEF CallRight, BridgeAlone
  <2> QED
    BY <1>1, <2>3, <2>4 DEF CallsSound
<1>3. BridgesSound'
  <2>1. ASSUME NEW n \in Sessions PROVE BridgeRight(n)'
    <3>1. BridgeRight(n)
      BY DEF ShellInv, BridgesSound
    <3> QED
      BY <1>1, <3>1 DEF BridgeRight, BridgeRows, AnyShell
  <2> QED
    BY <1>1, <2>1 DEF BridgesSound
<1>4. ReplaysSound'
  <2>1. ReplaysSound
    BY DEF ShellInv
  <2> QED
    BY <1>1, <2>1 DEF ReplaysSound
<1>5. RowsSound'
  <2>1. RowsSound
    BY DEF ShellInv
  <2> QED
    BY <1>1, <2>1 DEF RowsSound, InSight
<1> QED
  BY <1>2, <1>3, <1>4, <1>5


\* The steps that no call takes.
LEMMA ShellStutter ==
    ASSUME ShellInv, UNCHANGED shellVars
    PROVE  ShellInv'
<1>1. Sessions' = Sessions
  BY DEF Sessions, shellVars
<1>2. ShellsTyped'
  BY <1>1 DEF ShellInv, ShellsTyped, shellVars, ShellStatuses
<1>3. CallsSound' /\ BridgesSound' /\ ReplaysSound' /\ RowsSound'
  <2>1. CallsSound'
    BY <1>1 DEF ShellInv, shellVars, CallsSound, CallRight, RowRight, BridgeAlone, CallRows, AnyShell
  <2>2. BridgesSound'
    BY <1>1 DEF ShellInv, shellVars, BridgesSound, BridgeRight, BridgeRows, AnyShell
  <2>3. ReplaysSound'
    BY <1>1 DEF ShellInv, shellVars, ReplaysSound
  <2>4. RowsSound'
    BY <1>1 DEF ShellInv, shellVars, RowsSound, InSight
  <2> QED
    BY <2>1, <2>2, <2>3, <2>4
<1>4. OpenSound'
  BY <1>1 DEF ShellInv, shellVars, OpenSound
<1> QED
  BY <1>2, <1>3, <1>4 DEF ShellInv

\* Output that comes, or is put in the replay, of one session.
LEMMA ReplayMoves ==
    ASSUME ShellInv, NEW s \in Sessions, NEW b, ReplayRight(b), replay' = [replay EXCEPT ![s] = b],
           b.lostEvents >= replay[s].lostEvents, b.latest >= replay[s].latest, b.printed <= bounds.printed,
           UNCHANGED <<open, retired, child, exited, reaping, told, completed_requests, in_flight_requests,
                       calls, bridges, statuses, made, hosts, bounds>>
    PROVE  ShellInv'
<1>1. Sessions' = Sessions
  BY DEF Sessions
<1>2. ShellsTyped'
  BY <1>1 DEF ShellInv, ShellsTyped, ShellStatuses
<1>3. CallsSound'
  BY <1>1 DEF ShellInv, CallsSound, CallRight, RowRight, BridgeAlone, CallRows, AnyShell
<1>4. replay' = [t \in Sessions |-> replay'[t]] /\ \A t \in Sessions : replay'[t] = IF t = s THEN b ELSE replay[t]
  <2>1. replay = [t \in Sessions |-> replay[t]]
    BY DEF ShellInv, ReplaysSound
  <2> QED
    BY <2>1
<1>5. ReplaysSound'
  <2>1. \A t \in Sessions : ReplayRight(replay[t]) /\ replay[t].printed <= bounds.printed
    BY DEF ShellInv, ReplaysSound
  <2>2. \A t \in Sessions : ReplayRight(replay'[t]) /\ replay'[t].printed <= bounds.printed
    BY <1>4, <2>1
  <2>3. \A t \in Sessions : ReplayRight(replay[t])' /\ replay'[t].printed <= bounds'.printed
    BY <2>2 DEF ReplayRight, ReplayRows, Numbered, BytesCount, LossTold
  <2> QED
    BY <1>1, <1>4, <2>3 DEF ReplaysSound
<1>6. BridgesSound'
  <2>1. ASSUME NEW n \in Sessions PROVE BridgeRight(n)'
    <3>1. BridgeRight(n)
      BY DEF ShellInv, BridgesSound
    <3>2. bridges[n] \in BridgeRows /\ (bridges[n].at # "none" => bridges[n].s \in Sessions)
      BY <3>1 DEF BridgeRight
    <3>3. ASSUME bridges[n].s \in Sessions
          PROVE  /\ bridges[n].cursor - bridges[n].seen <= replay'[bridges[n].s].lostEvents
                 /\ bridges[n].cursor <= replay'[bridges[n].s].latest
      <4>1. PICK t \in Sessions : t = bridges[n].s
        BY <3>3
      <4>2. PICK x \in Nat, y \in Nat : x = bridges[n].cursor /\ y = bridges[n].seen
        BY <3>2 DEF BridgeRows
      <4>3. x - y <= replay[t].lostEvents /\ x <= replay[t].latest
        BY <3>1, <3>3, <4>1, <4>2 DEF BridgeRight
      <4>4. /\ replay[t].lostEvents \in Nat /\ replay[t].latest \in Nat
            /\ b.lostEvents \in Nat /\ b.latest \in Nat
        BY DEF ShellInv, ReplaysSound, ReplayRight, ReplayRows
      <4>5. CASE t = s
        <5>1. replay'[t] = b
          BY <1>4, <4>5
        <5>2. x - y <= b.lostEvents /\ x <= b.latest
          BY <4>3, <4>4, <4>5
        <5> QED
          BY <4>1, <4>2, <5>1, <5>2
      <4>6. CASE t # s
        <5>1. replay'[t] = replay[t]
          BY <1>4, <4>6
        <5> QED
          BY <4>1, <4>2, <4>3, <5>1
      <4> QED
        BY <4>5, <4>6
    <3> QED
      BY <1>1, <3>2, <3>3 DEF BridgeRight, BridgeRows, AnyShell
  <2> QED
    BY <1>1, <2>1 DEF BridgesSound
<1>7. RowsSound' /\ OpenSound'
  BY <1>1 DEF ShellInv, RowsSound, InSight, OpenSound
<1> QED
  BY <1>2, <1>3, <1>5, <1>6, <1>7 DEF ShellInv

LEMMA ReplayFacts ==
    ASSUME ShellInv, NEW s \in Sessions
    PROVE  /\ ReplayRight(replay[s]) /\ replay[s].printed <= bounds.printed
           /\ replay[s].lostEvents \in Nat /\ replay[s].latest \in Nat /\ replay[s].printed \in Nat
           /\ replay[s].waiting \in Nat /\ bounds.printed \in Nat
           /\ replay = [replay EXCEPT ![s] = replay[s]]
<1>1. ReplayRight(replay[s]) /\ replay[s].printed <= bounds.printed /\ replay = [t \in Sessions |-> replay[t]]
  BY DEF ShellInv, ReplaysSound
<1> QED
  BY <1>1 DEF ReplayRight, ReplayRows, ShellInv, ShellsTyped

LEMMA PtyOutputStep ==
    ASSUME ShellInv, NEW s \in Sessions, PtyOutput(s)
    PROVE  ShellInv'
<1>0. PICK a : a = replay[s]
  OBVIOUS
<1>1. /\ ReplayRight(a) /\ a.printed \in Nat /\ a.waiting \in Nat /\ a.lostEvents \in Nat /\ a.latest \in Nat
      /\ a.printed < bounds.printed /\ bounds.printed \in Nat
  BY <1>0, ReplayFacts DEF PtyOutput
<1>2. PICK p \in Nat, w \in Nat : p = a.printed + 1 /\ w = a.waiting + 1
  BY <1>1
<1>3. PICK b : b = [a EXCEPT !.printed = p, !.waiting = w]
  OBVIOUS
<1>4. replay' = [replay EXCEPT ![s] = b]
  <2>1. replay' = [replay EXCEPT ![s] = [replay[s] EXCEPT !.printed = replay[s].printed + 1, !.waiting = replay[s].waiting + 1]]
    BY ReplayFacts DEF PtyOutput
  <2> QED
    BY <1>0, <1>2, <1>3, <2>1
<1>5. a \in ReplayRows /\ Numbered(a) /\ BytesCount(a) /\ LossTold(a)
  BY <1>1 DEF ReplayRight
<1>6. /\ b \in ReplayRows /\ b.events = a.events /\ b.latest = a.latest /\ b.bytes = a.bytes /\ b.lost = a.lost
      /\ b.lostEvents = a.lostEvents /\ b.truncated = a.truncated /\ b.waiting = w /\ b.printed = p
  BY <1>3, <1>5 DEF ReplayRows
<1>7. Numbered(b) /\ LossTold(b)
  BY <1>5, <1>6 DEF Numbered, LossTold
<1>8. BytesCount(b)
  <2>1. a.lost \in Nat /\ BytesOf(a.events) \in Nat
    BY <1>5, BytesOfTotal DEF ReplayRows
  <2>2. PICK lo \in Nat, k \in Nat, wa \in Nat, pr \in Nat :
            lo = a.lost /\ k = BytesOf(a.events) /\ wa = a.waiting /\ pr = a.printed
    BY <1>1, <2>1
  <2>3. lo + k + wa = pr /\ a.bytes = k /\ p = pr + 1 /\ w = wa + 1
    BY <1>2, <1>5, <2>2 DEF BytesCount
  <2>4. lo + k + w = p
    BY <2>3
  <2> QED
    BY <1>6, <2>2, <2>3, <2>4 DEF BytesCount
<1>9. b.lostEvents >= replay[s].lostEvents /\ b.latest >= replay[s].latest /\ b.printed <= bounds.printed
  BY <1>0, <1>1, <1>2, <1>6
<1> QED
  BY <1>4, <1>6, <1>7, <1>8, <1>9, ReplayMoves DEF PtyOutput, ReplayRight

LEMMA append_outputStep ==
    ASSUME ShellInv, NEW s \in Sessions, append_output(s)
    PROVE  ShellInv'
<1>0. PICK a : a = replay[s]
  OBVIOUS
<1>1. PICK n \in 1..MaxChunk : n <= replay[s].waiting /\ replay' = [replay EXCEPT ![s] = push(replay[s], n)]
  BY DEF append_output
<1>2. PICK b : b = push(a, n)
  OBVIOUS
<1>3. n \in Nat /\ n <= a.waiting /\ replay' = [replay EXCEPT ![s] = b] /\ ReplayRight(a)
  BY <1>0, <1>1, <1>2, ShellAssumption, ReplayFacts
<1>4. ReplayRight(b) /\ b.lostEvents >= a.lostEvents /\ b.printed = a.printed /\ b.latest >= a.latest
  BY <1>2, <1>3, PushRight
<1>5. b.printed <= bounds.printed
  BY <1>0, <1>4, ReplayFacts
<1> QED
  BY <1>0, <1>3, <1>4, <1>5, ReplayMoves DEF append_output


LEMMA QuietKeeps ==
    ASSUME ShellInv, NEW s \in Sessions, UNCHANGED <<bounds, bridges, replay, calls, made>>,
           \A t \in Sessions : statuses'[t] = "running" => statuses[t] = "running"
    PROVE  CallsSound' /\ BridgesSound' /\ ReplaysSound' /\ RowsSound'
<1>1. RowRight(calls[s]) /\ calls' = [calls EXCEPT ![s] = calls[s]]
  BY CallFacts
<1>2. made' \in made..bounds.calls
  BY ShellNumbers
<1>3. calls[s].at # "idle" => s <= made' /\ bridges[s].at = "none"
  BY CallFacts
<1> QED
  BY <1>1, <1>2, <1>3, CallKeeps

LEMMA ShellExitStep ==
    ASSUME ShellInv, NEW s \in Sessions, ShellExit(s)
    PROVE  ShellInv'
<1>1. Sessions' = Sessions
  BY DEF Sessions, ShellExit
<1>2. ShellsTyped'
  BY <1>1 DEF ShellInv, ShellsTyped, ShellStatuses, ShellExit
<1>3. OpenSound'
  BY <1>1 DEF ShellInv, ShellsTyped, OpenSound, ShellExit
<1>4. CallsSound' /\ BridgesSound' /\ ReplaysSound' /\ RowsSound'
  BY QuietKeeps DEF ShellExit
<1> QED
  BY <1>2, <1>3, <1>4 DEF ShellInv

LEMMA ReapStep ==
    ASSUME ShellInv, NEW s \in Sessions, Reap(s)
    PROVE  ShellInv'
<1>1. Sessions' = Sessions
  BY DEF Sessions, Reap
<1>2. ShellsTyped'
  BY <1>1 DEF ShellInv, ShellsTyped, ShellStatuses, Reap
<1>3. OpenSound'
  BY <1>1 DEF ShellInv, ShellsTyped, OpenSound, Reap
<1>4. CallsSound' /\ BridgesSound' /\ ReplaysSound' /\ RowsSound'
  BY QuietKeeps DEF Reap
<1> QED
  BY <1>2, <1>3, <1>4 DEF ShellInv

LEMMA ReapedStep ==
    ASSUME ShellInv, NEW s \in Sessions, Reaped(s)
    PROVE  ShellInv'
<1>1. Sessions' = Sessions
  BY DEF Sessions, Reaped
<1>2. ShellsTyped'
  BY <1>1, RetainedRight DEF ShellInv, ShellsTyped, ShellStatuses, Reaped
<1>3. OpenSound'
  BY <1>1 DEF ShellInv, ShellsTyped, OpenSound, Reaped
<1>4. CallsSound' /\ BridgesSound' /\ ReplaysSound' /\ RowsSound'
  BY QuietKeeps DEF Reaped
<1> QED
  BY <1>2, <1>3, <1>4 DEF ShellInv

\* A call that ends: its request is not in flight any more.
LEMMA EndsRight ==
    ASSUME ShellInv, NEW c \in Sessions, CallEnds(c)
    PROVE  in_flight_requests' \subseteq Requests /\ calls' = [calls EXCEPT ![c] = NoShellCall]
BY DEF CallEnds, ShellInv, ShellsTyped

\* A call of this number has not been made, and one that is made may be its own.
LEMMA NextCall ==
    ASSUME ShellInv, NEW c \in Sessions, c = made + 1
    PROVE  c \in made..bounds.calls /\ c <= c /\ bridges[c].at = "none" /\ c \in 0..bounds.calls
BY ShellNumbers, CallFacts

LEMMA GoesKeeps ==
    ASSUME ShellInv, UNCHANGED <<bounds, bridges, replay, made>>,
           NEW c \in Sessions, calls[c].at # "idle", NEW row, RowRight(row), calls' = [calls EXCEPT ![c] = row],
           \A s \in Sessions : statuses'[s] = "running" => statuses[s] = "running"
    PROVE  CallsSound' /\ BridgesSound' /\ ReplaysSound' /\ RowsSound'
<1>1. made' \in made..bounds.calls
  BY ShellNumbers
<1>2. row.at # "idle" => c <= made' /\ bridges[c].at = "none"
  BY CallFacts
<1> QED
  BY <1>1, <1>2, CallKeeps

LEMMA StartKeeps ==
    ASSUME ShellInv, UNCHANGED <<bounds, bridges, replay, statuses>>, NEW c \in Sessions, c = made + 1, made' = c,
           NEW row, RowRight(row), calls' = [calls EXCEPT ![c] = row]
    PROVE  CallsSound' /\ BridgesSound' /\ ReplaysSound' /\ RowsSound'
<1>1. made' \in made..bounds.calls /\ c <= made' /\ bridges[c].at = "none"
  BY NextCall
<1> QED
  BY <1>1, CallKeeps

LEMMA AskStep ==
    ASSUME ShellInv, NEW c \in Sessions, NEW req \in Requests, NEW op \in {"create", "write"}, NEW s \in AnyShell,
           op = "write" => s \in Sessions, Ask(c, op, req, s)
    PROVE  ShellInv'
<1>1. Sessions' = Sessions /\ c = made + 1 /\ made' = c
  BY DEF Sessions, Ask
<1>2. PICK row : RowRight(row) /\ calls' = [calls EXCEPT ![c] = row]
  <2>1. CASE req \in DOMAIN completed_requests /\ op = "create"
    <3>1. completed_requests[req] \in Sessions
      BY <2>1 DEF ShellInv, ShellsTyped
    <3>2. PICK t \in Sessions : t = completed_requests[req]
      BY <3>1
    <3>3. RowRight([at |-> "persist", op |-> op, req |-> req, s |-> t, status |-> "none", shut |-> {}])
      BY RowStarts DEF CallSteps, ShellOps, AnyShell
    <3>4. calls' = [calls EXCEPT ![c] = [at |-> "persist", op |-> op, req |-> req, s |-> t, status |-> "none", shut |-> {}]]
      BY <2>1, <3>2 DEF Ask, NoShellCall
    <3> QED
      BY <3>3, <3>4
  <2>2. CASE req \in DOMAIN completed_requests /\ op # "create"
    <3>1. calls' = [calls EXCEPT ![c] = NoShellCall]
      BY <2>2 DEF Ask
    <3> QED
      BY <3>1, NoCallRight
  <2>3. CASE req \notin DOMAIN completed_requests
    <3>1. RowRight([at |-> "looked", op |-> op, req |-> req, s |-> s, status |-> "none", shut |-> {}])
      BY RowStarts DEF CallSteps, ShellOps, AnyShell
    <3>2. calls' = [calls EXCEPT ![c] = [at |-> "looked", op |-> op, req |-> req, s |-> s, status |-> "none", shut |-> {}]]
      BY <2>3 DEF Ask, NoShellCall
    <3> QED
      BY <3>1, <3>2
  <2> QED
    BY <2>1, <2>2, <2>3
<1>3. ShellsTyped'
  BY <1>1, NextCall DEF ShellInv, ShellsTyped, ShellStatuses, Ask
<1>4. OpenSound'
  BY <1>1 DEF ShellInv, OpenSound, Ask
<1>5. CallsSound' /\ BridgesSound' /\ ReplaysSound' /\ RowsSound'
  BY <1>1, <1>2, StartKeeps DEF Ask
<1> QED
  BY <1>3, <1>4, <1>5 DEF ShellInv

LEMMA begin_requestStep ==
    ASSUME ShellInv, NEW c \in Sessions, begin_request(c)
    PROVE  ShellInv'
<1>1. Sessions' = Sessions /\ calls[c].at = "looked"
  BY DEF Sessions, begin_request, CallsOnly
<1>2. RowRight(calls[c]) /\ calls[c].req \in Requests
  BY <1>1, CallFacts DEF RowRight
<1>3. PICK row : RowRight(row) /\ calls' = [calls EXCEPT ![c] = row]
  <2>1. RowRight([calls[c] EXCEPT !.at = "begun"])
    BY <1>1, <1>2, RowGoes DEF RowRight, CallSteps
  <2>2. calls' = [calls EXCEPT ![c] = NoShellCall] \/ calls' = [calls EXCEPT ![c] = [calls[c] EXCEPT !.at = "begun"]]
    BY DEF begin_request, CallGoes
  <2> QED
    BY <2>1, <2>2, NoCallRight
<1>4. ShellsTyped'
  BY <1>1, <1>2 DEF ShellInv, ShellsTyped, ShellStatuses, begin_request, CallsOnly
<1>5. OpenSound'
  BY <1>1 DEF ShellInv, OpenSound, begin_request, CallsOnly
<1>6. CallsSound' /\ BridgesSound' /\ ReplaysSound' /\ RowsSound'
  BY <1>1, <1>3, GoesKeeps DEF begin_request, CallsOnly
<1> QED
  BY <1>4, <1>5, <1>6 DEF ShellInv

LEMMA AdmitStep ==
    ASSUME ShellInv, NEW c \in Sessions, Admit(c)
    PROVE  ShellInv'
<1>1. Sessions' = Sessions /\ calls[c].at = "begun" /\ calls[c].op = "create"
  BY DEF Sessions, Admit
<1>2. RowRight(calls[c]) /\ calls[c].req \in Requests
  BY <1>1, CallFacts DEF RowRight
<1>3. PICK row : RowRight(row) /\ calls' = [calls EXCEPT ![c] = row]
  <2>1. RowRight([calls[c] EXCEPT !.at = "admitted"])
    BY <1>1, <1>2, RowGoes DEF CallSteps
  <2>2. calls' = [calls EXCEPT ![c] = NoShellCall] \/ calls' = [calls EXCEPT ![c] = [calls[c] EXCEPT !.at = "admitted"]]
    BY DEF Admit, CallGoes, CallEnds
  <2> QED
    BY <2>1, <2>2, NoCallRight
<1>4. ShellsTyped'
  <2>1. in_flight_requests' \subseteq Requests
    BY EndsRight DEF Admit, ShellInv, ShellsTyped
  <2> QED
    BY <1>1, <2>1 DEF ShellInv, ShellsTyped, ShellStatuses, Admit
<1>5. OpenSound'
  BY <1>1 DEF ShellInv, OpenSound, Admit
<1>6. CallsSound' /\ BridgesSound' /\ ReplaysSound' /\ RowsSound'
  BY <1>1, <1>3, GoesKeeps DEF Admit
<1> QED
  BY <1>4, <1>5, <1>6 DEF ShellInv


LEMMA SpawnShellStep ==
    ASSUME ShellInv, NEW c \in Sessions, SpawnShell(c)
    PROVE  ShellInv'
<1>1. Sessions' = Sessions /\ calls[c].at = "admitted"
  BY DEF Sessions, SpawnShell
<1>2. RowRight(calls[c]) /\ calls[c].req \in Requests /\ calls[c] \in CallRows
  BY <1>1, CallFacts DEF RowRight
<1>3. PICK row : RowRight(row) /\ calls' = [calls EXCEPT ![c] = row]
  <2>1. PICK r : r = [calls[c] EXCEPT !.at = "spawned", !.s = c]
    OBVIOUS
  <2>2. /\ r \in CallRows /\ r.at = "spawned" /\ r.s = c /\ r.req = calls[c].req
    BY <1>2, <2>1 DEF CallRows, CallSteps, AnyShell
  <2>3. RowRight(r)
    BY <1>2, <2>2 DEF RowRight
  <2>4. calls' = [calls EXCEPT ![c] = NoShellCall] \/ calls' = [calls EXCEPT ![c] = [calls[c] EXCEPT !.at = "spawned", !.s = c]]
    BY DEF SpawnShell, CallEnds
  <2> QED
    BY <2>1, <2>3, <2>4, NoCallRight
<1>4. ShellsTyped'
  <2>1. in_flight_requests' \subseteq Requests
    BY EndsRight DEF SpawnShell, ShellInv, ShellsTyped
  <2> QED
    BY <1>1, <2>1 DEF ShellInv, ShellsTyped, ShellStatuses, SpawnShell
<1>5. OpenSound'
  BY <1>1 DEF ShellInv, ShellsTyped, OpenSound, SpawnShell
<1>6. CallsSound' /\ BridgesSound' /\ ReplaysSound' /\ RowsSound'
  BY <1>1, <1>3, GoesKeeps DEF SpawnShell
<1> QED
  BY <1>4, <1>5, <1>6 DEF ShellInv

LEMMA CancelledStep ==
    ASSUME ShellInv, NEW c \in Sessions, Cancelled(c)
    PROVE  ShellInv'
<1>1. Sessions' = Sessions /\ calls[c].at = "spawned" /\ CallEnds(c)
  BY DEF Sessions, Cancelled
<1>2. PICK s \in Sessions : s = calls[c].s
  BY <1>1, CallFacts DEF RowRight
<1>3. in_flight_requests' \subseteq Requests /\ calls' = [calls EXCEPT ![c] = NoShellCall]
  BY <1>1, EndsRight
<1>4. ShellsTyped'
  BY <1>1, <1>2, <1>3, RetainedRight DEF ShellInv, ShellsTyped, ShellStatuses, Cancelled
<1>5. OpenSound'
  BY <1>1, <1>2 DEF ShellInv, ShellsTyped, OpenSound, Cancelled
<1>6. CallsSound' /\ BridgesSound' /\ ReplaysSound' /\ RowsSound'
  BY <1>1, <1>3, NoCallRight, GoesKeeps DEF Cancelled
<1> QED
  BY <1>4, <1>5, <1>6 DEF ShellInv

\* The answer that is kept names a session.
LEMMA StoredRight ==
    ASSUME ShellInv, NEW c \in Sessions, calls[c].at \in {"spawned", "written"}
    PROVE  /\ DOMAIN store_cached(c) \subseteq Requests
           /\ \A r \in DOMAIN store_cached(c) : store_cached(c)[r] \in Sessions
<1>1. calls[c].s \in Sessions /\ calls[c].req \in Requests
  BY CallFacts DEF RowRight
<1>2. DOMAIN completed_requests \subseteq Requests /\ \A r \in DOMAIN completed_requests : completed_requests[r] \in Sessions
  BY DEF ShellInv, ShellsTyped
<1> QED
  BY <1>1, <1>2 DEF store_cached

LEMMA CreatedStep ==
    ASSUME ShellInv, NEW c \in Sessions, Created(c)
    PROVE  ShellInv'
<1>1. Sessions' = Sessions /\ calls[c].at = "spawned"
  BY DEF Sessions, Created, CallsOnly
<1>2. RowRight(calls[c]) /\ calls[c].s \in Sessions
  BY <1>1, CallFacts DEF RowRight
<1>3. RowRight([calls[c] EXCEPT !.at = "persist"])
  BY <1>2, RowGoes DEF CallSteps
<1>4. ShellsTyped'
  BY <1>1, StoredRight DEF ShellInv, ShellsTyped, ShellStatuses, Created, CallsOnly
<1>5. OpenSound'
  BY <1>1 DEF ShellInv, OpenSound, Created, CallsOnly
<1>6. CallsSound' /\ BridgesSound' /\ ReplaysSound' /\ RowsSound'
  BY <1>1, <1>3, GoesKeeps DEF Created, CallGoes, CallsOnly
<1> QED
  BY <1>4, <1>5, <1>6 DEF ShellInv

LEMMA WriteStep ==
    ASSUME ShellInv, NEW c \in Sessions, Write(c)
    PROVE  ShellInv'
<1>1. Sessions' = Sessions /\ calls[c].at = "begun" /\ calls[c].op = "write"
  BY DEF Sessions, Write, CallsOnly
<1>2. RowRight(calls[c]) /\ calls[c].req \in Requests /\ calls[c].s \in Sessions
  BY <1>1, CallFacts DEF RowRight
<1>3. PICK row : RowRight(row) /\ calls' = [calls EXCEPT ![c] = row]
  <2>1. RowRight([calls[c] EXCEPT !.at = "written"])
    BY <1>1, <1>2, RowGoes DEF CallSteps
  <2>2. calls' = [calls EXCEPT ![c] = NoShellCall] \/ calls' = [calls EXCEPT ![c] = [calls[c] EXCEPT !.at = "written"]]
    BY DEF Write, CallGoes, CallEnds
  <2> QED
    BY <2>1, <2>2, NoCallRight
<1>4. ShellsTyped'
  <2>1. in_flight_requests' \subseteq Requests
    BY EndsRight DEF Write, ShellInv, ShellsTyped
  <2> QED
    BY <1>1, <2>1 DEF ShellInv, ShellsTyped, ShellStatuses, Write, CallsOnly
<1>5. OpenSound'
  BY <1>1 DEF ShellInv, OpenSound, Write, CallsOnly
<1>6. CallsSound' /\ BridgesSound' /\ ReplaysSound' /\ RowsSound'
  BY <1>1, <1>3, GoesKeeps DEF Write, CallsOnly
<1> QED
  BY <1>4, <1>5, <1>6 DEF ShellInv

LEMMA WriteDoneStep ==
    ASSUME ShellInv, NEW c \in Sessions, WriteDone(c)
    PROVE  ShellInv'
<1>1. Sessions' = Sessions /\ calls[c].at = "written" /\ CallEnds(c)
  BY DEF Sessions, WriteDone, CallsOnly
<1>2. in_flight_requests' \subseteq Requests /\ calls' = [calls EXCEPT ![c] = NoShellCall]
  BY <1>1, EndsRight
<1>3. ShellsTyped'
  BY <1>1, <1>2, StoredRight DEF ShellInv, ShellsTyped, ShellStatuses, WriteDone, CallsOnly
<1>4. OpenSound'
  BY <1>1 DEF ShellInv, OpenSound, WriteDone, CallsOnly
<1>5. CallsSound' /\ BridgesSound' /\ ReplaysSound' /\ RowsSound'
  BY <1>1, <1>2, NoCallRight, GoesKeeps DEF WriteDone, CallsOnly
<1> QED
  BY <1>3, <1>4, <1>5 DEF ShellInv

LEMMA StartsRight ==
    ASSUME ShellInv, NEW c \in Sessions, NEW at \in {"push", "row"}, NEW op \in {"wait", "close"}, NEW s \in Sessions,
           NEW status \in ShellOver, CallStarts(c, at, op, s, status)
    PROVE  c = made + 1 /\ made' = c /\ \E row : RowRight(row) /\ calls' = [calls EXCEPT ![c] = row]
<1>1. RowRight([at |-> at, op |-> op, req |-> "none", s |-> s, status |-> status, shut |-> {}])
  BY RowStarts DEF CallSteps, ShellOps, AnyShell
<1>2. calls' = [calls EXCEPT ![c] = [at |-> at, op |-> op, req |-> "none", s |-> s, status |-> status, shut |-> {}]]
  <2>1. [NoShellCall EXCEPT !.at = at, !.op = op, !.s = s, !.status = status]
          = [at |-> at, op |-> op, req |-> "none", s |-> s, status |-> status, shut |-> {}]
    <3>1. PICK n : n = [NoShellCall EXCEPT !.at = at, !.op = op, !.s = s]
      OBVIOUS
    <3>2. n = [at |-> at, op |-> op, req |-> "none", s |-> s, status |-> "none", shut |-> {}]
      BY ONLY <3>1 DEF NoShellCall
    <3>3. [n EXCEPT !.status = status] = [at |-> at, op |-> op, req |-> "none", s |-> s, status |-> status, shut |-> {}]
      BY ONLY <3>2
    <3> QED
      BY ONLY <3>1, <3>3
  <2>2. calls' = [calls EXCEPT ![c] = [NoShellCall EXCEPT !.at = at, !.op = op, !.s = s, !.status = status]]
    BY DEF CallStarts
  <2> QED
    BY <2>1, <2>2, Zenon
<1> QED
  BY <1>1, <1>2 DEF CallStarts

LEMMA WaitStep ==
    ASSUME ShellInv, NEW c \in Sessions, NEW s \in Sessions, Wait(c, s)
    PROVE  ShellInv'
<1>1. Sessions' = Sessions
  BY DEF Sessions, Wait
<1>2. c = made + 1 /\ made' = c /\ \E row : RowRight(row) /\ calls' = [calls EXCEPT ![c] = row]
  BY StartsRight DEF Wait, ShellOver
<1>3. ShellsTyped'
  BY <1>1, <1>2, NextCall DEF ShellInv, ShellsTyped, ShellStatuses, Wait
<1>4. OpenSound'
  BY <1>1 DEF ShellInv, ShellsTyped, OpenSound, Wait
<1>5. CallsSound' /\ BridgesSound' /\ ReplaysSound' /\ RowsSound'
  BY <1>2, StartKeeps DEF Wait
<1> QED
  BY <1>3, <1>4, <1>5 DEF ShellInv

LEMMA closeStep ==
    ASSUME ShellInv, NEW c \in Sessions, NEW s \in Sessions, NEW force \in BOOLEAN, NEW status \in ShellOver,
           close(c, s, force, status)
    PROVE  ShellInv'
<1>1. Sessions' = Sessions
  BY DEF Sessions, close
<1>2. c = made + 1 /\ made' = c /\ \E row : RowRight(row) /\ calls' = [calls EXCEPT ![c] = row]
  BY StartsRight DEF close
<1>3. ShellsTyped'
  BY <1>1, <1>2, NextCall DEF ShellInv, ShellsTyped, ShellStatuses, close
<1>4. OpenSound'
  BY <1>1 DEF ShellInv, ShellsTyped, OpenSound, close
<1>5. CallsSound' /\ BridgesSound' /\ ReplaysSound' /\ RowsSound'
  BY <1>2, StartKeeps DEF close
<1> QED
  BY <1>3, <1>4, <1>5 DEF ShellInv


LEMMA PushStep ==
    ASSUME ShellInv, NEW c \in Sessions, Push(c)
    PROVE  ShellInv'
<1>1. Sessions' = Sessions /\ calls[c].at = "push"
  BY DEF Sessions, Push
<1>2. RowRight(calls[c]) /\ calls[c].s \in Sessions
  BY <1>1, CallFacts DEF RowRight
<1>3. RowRight([calls[c] EXCEPT !.at = "row"])
  BY <1>2, RowGoes DEF CallSteps
<1>4. ShellsTyped'
  BY <1>1, <1>2, RetainedRight DEF ShellInv, ShellsTyped, ShellStatuses, Push
<1>5. OpenSound'
  BY <1>1 DEF ShellInv, OpenSound, Push
<1>6. CallsSound' /\ BridgesSound' /\ ReplaysSound' /\ RowsSound'
  BY <1>1, <1>3, GoesKeeps DEF Push, CallGoes
<1> QED
  BY <1>4, <1>5, <1>6 DEF ShellInv

LEMMA StatusOfCall ==
    ASSUME ShellInv, NEW c \in Sessions
    PROVE  calls[c].status \in {"none"} \cup ShellOver /\ calls[c].status # "running"
BY CallFacts DEF CallRows, ShellOver

LEMMA update_session_statusStep ==
    ASSUME ShellInv, NEW c \in Sessions, update_session_status(c)
    PROVE  ShellInv'
<1>1. Sessions' = Sessions /\ calls[c].at = "row"
  BY DEF Sessions, update_session_status
<1>2. PICK s \in Sessions : s = calls[c].s
  BY <1>1, CallFacts DEF RowRight
<1>3. PICK st \in {"none"} \cup ShellOver : st = calls[c].status /\ st # "running"
  BY StatusOfCall
<1>4. statuses' = [statuses EXCEPT ![s] = IF statuses[s] = "none" THEN statuses[s] ELSE st]
  BY <1>2, <1>3 DEF update_session_status
<1>5. statuses \in [Sessions -> ShellStatuses]
  BY DEF ShellInv, ShellsTyped
<1>6. /\ statuses' \in [Sessions -> ShellStatuses]
      /\ \A t \in Sessions : statuses'[t] = "running" => statuses[t] = "running"
  BY <1>3, <1>4, <1>5 DEF ShellStatuses
<1>7. ShellsTyped'
  BY <1>1, <1>6 DEF ShellInv, ShellsTyped, ShellStatuses, update_session_status
<1>8. OpenSound'
  BY <1>1 DEF ShellInv, OpenSound, update_session_status
<1>9. CallsSound' /\ BridgesSound' /\ ReplaysSound' /\ RowsSound'
  BY <1>1, <1>6, NoCallRight, GoesKeeps DEF update_session_status
<1> QED
  BY <1>7, <1>8, <1>9 DEF ShellInv

LEMMA session_actionStep ==
    ASSUME ShellInv, NEW c \in Sessions, NEW s \in Sessions, NEW status \in ShellOver, session_action(c, s, status)
    PROVE  ShellInv'
<1>1. Sessions' = Sessions
  BY DEF Sessions, session_action
<1>2. c = made + 1 /\ made' = c /\ \E row : RowRight(row) /\ calls' = [calls EXCEPT ![c] = row]
  BY StartsRight DEF session_action
<1>3. ShellsTyped'
  BY <1>1, <1>2, NextCall DEF ShellInv, ShellsTyped, ShellStatuses, session_action
<1>4. OpenSound'
  BY <1>1 DEF ShellInv, OpenSound, session_action
<1>5. CallsSound' /\ BridgesSound' /\ ReplaysSound' /\ RowsSound'
  BY <1>2, StartKeeps DEF session_action
<1> QED
  BY <1>3, <1>4, <1>5 DEF ShellInv

LEMMA StartStopStep ==
    ASSUME ShellInv, NEW c \in Sessions, NEW how \in {"turn", "stop", "timeout"}, StartStop(c, how)
    PROVE  ShellInv'
<1>1. Sessions' = Sessions /\ c = made + 1 /\ made' = c
  BY DEF Sessions, StartStop
<1>2. PICK shut \in SUBSET Sessions, status \in ShellOver :
        calls' = [calls EXCEPT ![c] = [NoShellCall EXCEPT !.at = "stopping", !.op = how, !.shut = shut, !.status = status]]
  BY DEF StartStop, ShellOver
<1>3. [NoShellCall EXCEPT !.at = "stopping", !.op = how, !.shut = shut, !.status = status]
        = [at |-> "stopping", op |-> how, req |-> "none", s |-> NoSession, status |-> status, shut |-> shut]
  <2>1. PICK n : n = [NoShellCall EXCEPT !.at = "stopping", !.op = how, !.shut = shut]
    OBVIOUS
  <2>2. n = [at |-> "stopping", op |-> how, req |-> "none", s |-> NoSession, status |-> "none", shut |-> shut]
    BY ONLY <2>1 DEF NoShellCall
  <2>3. [n EXCEPT !.status = status]
          = [at |-> "stopping", op |-> how, req |-> "none", s |-> NoSession, status |-> status, shut |-> shut]
    BY ONLY <2>2
  <2> QED
    BY ONLY <2>1, <2>3
<1>4. RowRight([at |-> "stopping", op |-> how, req |-> "none", s |-> NoSession, status |-> status, shut |-> shut])
  <2>1. "stopping" \in CallSteps
    BY DEF CallSteps
  <2>2. how \in ShellOps /\ NoSession \in AnyShell /\ "none" \in Requests \cup {"none"}
    BY DEF ShellOps, AnyShell
  <2>3. status \in {"none"} \cup ShellOver /\ shut \in SUBSET Sessions
    OBVIOUS
  <2>4. "stopping" \notin {"spawned", "persist", "written", "push", "row"} /\ "stopping" \notin {"looked", "begun"}
        /\ "stopping" \notin {"looked", "begun", "admitted", "spawned", "written"}
    OBVIOUS
  <2>5. PICK at : at = "stopping"
    OBVIOUS
  <2>6. RowRight([at |-> at, op |-> how, req |-> "none", s |-> NoSession, status |-> status, shut |-> shut])
    BY ONLY <2>1, <2>2, <2>3, <2>4, <2>5, RowStarts
  <2> QED
    BY ONLY <2>5, <2>6
<1>5. \E row : RowRight(row) /\ calls' = [calls EXCEPT ![c] = row]
  BY <1>2, <1>3, <1>4, Zenon
<1>6. ShellsTyped'
  BY <1>1, NextCall DEF ShellInv, ShellsTyped, ShellStatuses, StartStop
<1>7. OpenSound'
  BY <1>1 DEF ShellInv, OpenSound, StartStop
<1>8. CallsSound' /\ BridgesSound' /\ ReplaysSound' /\ RowsSound'
  BY <1>1, <1>5, StartKeeps DEF StartStop
<1> QED
  BY <1>6, <1>7, <1>8 DEF ShellInv

LEMMA StopOneStep ==
    ASSUME ShellInv, NEW c \in Sessions, StopOne(c)
    PROVE  ShellInv'
<1>1. Sessions' = Sessions /\ calls[c].at = "stopping"
  BY DEF Sessions, StopOne
<1>2. PICK s \in calls[c].shut :
         /\ calls' = [calls EXCEPT ![c].shut = @ \ {s}]
         /\ IF find_session(s)
            THEN /\ child' = [child EXCEPT ![s] = IF calls[c].op # "turn" /\ @ = "running" THEN "exited" ELSE @]
                 /\ told' = told \cup {s}
                 /\ open' = open \ {s} /\ retired' = IF s \in open THEN Retained(s) ELSE retired
            ELSE UNCHANGED <<child, told, open, retired>>
         /\ statuses' = IF calls[c].op = "turn" THEN [statuses EXCEPT ![s] = IF @ = "running" THEN "closed" ELSE @] ELSE statuses
  BY DEF StopOne
<1>3. s \in Sessions /\ calls[c] \in CallRows /\ RowRight(calls[c])
  BY CallFacts
<1>4. RowRight([calls[c] EXCEPT !.shut = calls[c].shut \ {s}])
  <2>1. PICK r : r = [calls[c] EXCEPT !.shut = calls[c].shut \ {s}]
    OBVIOUS
  <2>2. r \in CallRows /\ r.at = calls[c].at /\ r.op = calls[c].op /\ r.s = calls[c].s /\ r.req = calls[c].req
    BY <1>3, <2>1 DEF CallRows
  <2> QED
    BY <1>3, <2>1, <2>2 DEF RowRight
<1>5. calls' = [calls EXCEPT ![c] = [calls[c] EXCEPT !.shut = calls[c].shut \ {s}]]
  BY <1>2
<1>6. statuses \in [Sessions -> ShellStatuses]
  BY DEF ShellInv, ShellsTyped
<1>7. /\ statuses' \in [Sessions -> ShellStatuses]
      /\ \A t \in Sessions : statuses'[t] = "running" => statuses[t] = "running"
  BY <1>2, <1>3, <1>6 DEF ShellStatuses, ShellOver
<1>8. /\ open' \subseteq open /\ told \subseteq told' /\ told' \subseteq told \cup {s} /\ (s \notin open' => s \in told' \/ s \notin open)
      /\ open \subseteq open' \cup {s}
      /\ retired' \in Seq(Sessions) /\ Len(retired') <= MaxRetired
      /\ child' \in [Sessions -> {"none", "running", "exited"}]
      /\ \A t \in Sessions : child'[t] = "running" => child[t] = "running"
  BY <1>2, <1>3, RetainedRight DEF ShellInv, ShellsTyped
<1>9. ShellsTyped'
  BY <1>1, <1>3, <1>7, <1>8 DEF ShellInv, ShellsTyped, ShellStatuses, StopOne
<1>10. OpenSound'
  BY <1>1, <1>3, <1>8 DEF ShellInv, OpenSound
<1>11. CallsSound' /\ BridgesSound' /\ ReplaysSound' /\ RowsSound'
  BY <1>1, <1>4, <1>5, <1>7, GoesKeeps DEF StopOne
<1> QED
  BY <1>9, <1>10, <1>11 DEF ShellInv

LEMMA StoppedStep ==
    ASSUME ShellInv, NEW c \in Sessions, Stopped(c)
    PROVE  ShellInv'
<1>1. Sessions' = Sessions /\ calls[c].at = "stopping"
  BY DEF Sessions, Stopped
<1>2. PICK st \in {"none"} \cup ShellOver : st = calls[c].status /\ st # "running"
  BY StatusOfCall
<1>3. statuses \in [Sessions -> ShellStatuses]
  BY DEF ShellInv, ShellsTyped
<1>4. \/ statuses' = statuses
      \/ statuses' = [s \in Sessions |-> IF statuses[s] = "running" THEN st ELSE statuses[s]]
  BY <1>2 DEF Stopped
<1>5. /\ statuses' \in [Sessions -> ShellStatuses]
      /\ \A t \in Sessions : statuses'[t] = "running" => statuses[t] = "running"
  BY <1>2, <1>3, <1>4 DEF ShellStatuses
<1>6. ShellsTyped'
  BY <1>1, <1>5 DEF ShellInv, ShellsTyped, ShellStatuses, Stopped
<1>7. OpenSound'
  BY <1>1 DEF ShellInv, OpenSound, Stopped
<1>8. CallsSound' /\ BridgesSound' /\ ReplaysSound' /\ RowsSound'
  BY <1>1, <1>5, NoCallRight, GoesKeeps DEF Stopped
<1> QED
  BY <1>6, <1>7, <1>8 DEF ShellInv


\* What a read answers is what comes after its cursor, or after what is lost, up to the latest.
LEMMA AfterRight ==
    ASSUME NEW s, ReplayRight(replay[s]), NEW cursor \in Nat, cursor <= replay[s].latest
    PROVE  \E len \in Nat :
              /\ Len(After(s, cursor)) = len /\ (After(s, cursor) = <<>> <=> len = 0)
              /\ len > 0 => Last(After(s, cursor)).sequence = replay[s].latest
              /\ cursor <= replay[s].lostEvents => len = replay[s].latest - replay[s].lostEvents
              /\ cursor > replay[s].lostEvents => len = replay[s].latest - cursor
<1>1. PICK e : e = replay[s].events
  OBVIOUS
<1>2. replay[s] \in ReplayRows /\ Numbered(replay[s])
  BY DEF ReplayRight
<1>3. e \in Seq(Event) /\ replay[s].lostEvents \in Nat /\ replay[s].latest \in Nat
  BY <1>1, <1>2 DEF ReplayRows
<1>4. PICK n \in Nat, lo \in Nat, la \in Nat : n = Len(e) /\ lo = replay[s].lostEvents /\ la = replay[s].latest
  BY <1>3
<1>5. DOMAIN e = 1..n /\ la = lo + n /\ cursor <= la /\ \A i \in 1..n : e[i].sequence = lo + i
  BY <1>1, <1>2, <1>3, <1>4 DEF Numbered
<1>6. PICK d \in 0..n : (cursor <= lo => d = 0) /\ (cursor > lo => lo + d = cursor)
  <2>1. CASE cursor <= lo
    <3>1. 0 \in 0..n
      OBVIOUS
    <3> QED
      BY <2>1, <3>1
  <2>2. CASE cursor > lo
    <3>1. cursor - lo \in 0..n /\ lo + (cursor - lo) = cursor
      BY <1>5, <2>2
    <3> QED
      BY <2>2, <3>1
  <2> QED
    BY <2>1, <2>2
<1>7. Later(s, cursor) = (d + 1)..n
  <2>1. Later(s, cursor) = {i \in 1..n : e[i].sequence > cursor}
    BY <1>1, <1>5 DEF Later
  <2>2. \A i \in 1..n : e[i].sequence > cursor <=> lo + i > cursor
    BY <1>5
  <2>3. \A i \in 1..n : lo + i > cursor <=> i >= d + 1
    BY <1>6
  <2>4. {i \in 1..n : lo + i > cursor} = (d + 1)..n
    BY <2>3
  <2> QED
    BY <2>1, <2>2, <2>4
<1>8. PICK m \in Nat : m = n - d
  BY <1>6
<1>9. Cardinality((d + 1)..n) = m
  <2>1. d + 1 \in Int /\ n \in Int /\ d + 1 <= n + 1
    BY <1>6
  <2>2. Cardinality((d + 1)..n) = n - (d + 1) + 1
    BY <2>1, RangeFinite
  <2> QED
    BY <1>6, <1>8, <2>2
<1> DEFINE later == (d + 1)..n
           Nth(k) == CHOOSE i \in later : Cardinality({j \in later : j <= i}) = k
<1>10. After(s, cursor) = [k \in 1..m |-> e[Nth(k)]]
  BY <1>1, <1>7, <1>9 DEF After
<1>11. PICK a : a = [k \in 1..m |-> e[Nth(k)]]
  OBVIOUS
<1>12. m > 0 => Nth(m) = n
  <2> SUFFICES ASSUME m > 0 PROVE Nth(m) = n
    OBVIOUS
  <2>1. \A i \in later : Cardinality({j \in later : j <= i}) = i - d
    <3> SUFFICES ASSUME NEW i \in later PROVE Cardinality({j \in later : j <= i}) = i - d
      OBVIOUS
    <3>1. i \in Int /\ d + 1 <= i /\ i <= n
      BY <1>6
    <3>2. {j \in later : j <= i} = (d + 1)..i
      BY <1>6, <3>1
    <3>3. Cardinality((d + 1)..i) = i - (d + 1) + 1
      BY <1>6, <3>1, RangeFinite
    <3>4. i - (d + 1) + 1 = i - d
      BY <1>6, <3>1
    <3> HIDE DEF later
    <3> QED
      BY <3>2, <3>3, <3>4, Zenon
  <2>2. n \in later /\ n - d = m
    BY <1>6, <1>8
  <2>3. Cardinality({j \in later : j <= n}) = m
    BY <2>1, <2>2
  <2>4. Nth(m) \in later /\ Cardinality({j \in later : j <= Nth(m)}) = m
    BY <2>2, <2>3
  <2>5. Nth(m) - d = m /\ Nth(m) \in Int
    BY <1>6, <2>1, <2>4
  <2> HIDE DEF Nth, later
  <2>6. PICK x \in Int : x = Nth(m)
    BY <2>5
  <2>7. x - d = m
    BY <2>5, <2>6
  <2>8. d \in Nat /\ m \in Nat /\ m = n - d
    BY <1>6, <1>8
  <2>9. x = n
    BY ONLY <1>4, <2>6, <2>7, <2>8
  <2> QED
    BY <2>6, <2>9
<1> HIDE DEF Nth, later
<1>13. a = After(s, cursor) /\ Len(a) = m /\ (a = <<>> <=> m = 0)
  <2>1. a = After(s, cursor)
    BY <1>10, <1>11
  <2>2. Len(a) = m
    BY <1>11
  <2>3. m = 0 => a = <<>>
    BY <1>11
  <2>4. a = <<>> => m = 0
    BY <2>2
  <2> QED
    BY <2>1, <2>2, <2>3, <2>4
<1>14. m > 0 => Last(a).sequence = la
  <2> SUFFICES ASSUME m > 0 PROVE Last(a).sequence = la
    OBVIOUS
  <2>1. Last(a) = a[m]
    BY <1>13 DEF Last
  <2>2. m \in 1..m /\ a[m] = e[Nth(m)]
    BY <1>11
  <2>3. n \in 1..n /\ e[n].sequence = lo + n
    BY <1>5, <1>6, <1>8
  <2> QED
    BY <1>5, <1>12, <2>1, <2>2, <2>3
<1>15. (cursor <= lo => m = la - lo) /\ (cursor > lo => m = la - cursor)
  BY <1>5, <1>6, <1>8
<1> QED
  BY <1>4, <1>13, <1>14, <1>15


\* What the steps of one bridge leave right.
LEMMA BridgeMoves ==
    ASSUME ShellInv, NEW n \in Sessions, NEW b, bridges[n].at # "none", bridges' = [bridges EXCEPT ![n] = b],
           b \in BridgeRows, b.s = bridges[n].s, b.at \in {"read", "look", "blind", "over"},
           b.cursor - b.seen <= replay[b.s].lostEvents /\ b.cursor <= replay[b.s].latest,
           UNCHANGED <<open, retired, child, exited, reaping, told, replay, completed_requests,
                       in_flight_requests, calls, made, hosts, bounds>>,
           statuses' \in [Sessions -> ShellStatuses],
           \A t \in Sessions : statuses'[t] = "running" => statuses[t] = "running",
           b.at = "over" => statuses'[b.s] # "running"
    PROVE  ShellInv'
<1>1. Sessions' = Sessions
  BY DEF Sessions
<1>2. bridges = [m \in Sessions |-> bridges[m]]
  BY DEF ShellInv, CallsSound
<1>3. /\ bridges' = [m \in Sessions |-> bridges'[m]]
      /\ \A m \in Sessions : bridges'[m] = IF m = n THEN b ELSE bridges[m]
  BY <1>2
<1>4. BridgeRight(n) /\ BridgeAlone(n)
  BY DEF ShellInv, BridgesSound, CallsSound
<1>5. ShellsTyped'
  BY <1>1 DEF ShellInv, ShellsTyped, ShellStatuses
<1>6. CallsSound'
  <2>1. ASSUME NEW c \in Sessions PROVE CallRight(c)' /\ BridgeAlone(c)'
    <3>1. CallRight(c) /\ BridgeAlone(c)
      BY DEF ShellInv, CallsSound
    <3>2. CallRight(c)'
      BY <1>1, <3>1 DEF CallRight, RowRight, CallRows, AnyShell
    <3>3. BridgeAlone(c)'
      BY <1>3, <1>4, <3>1 DEF BridgeAlone
    <3> QED
      BY <3>2, <3>3
  <2>2. calls' = [c \in Sessions |-> calls'[c]]
    BY DEF ShellInv, CallsSound
  <2> QED
    BY <1>1, <1>3, <2>1, <2>2 DEF CallsSound
<1>7. BridgesSound'
  <2>1. ASSUME NEW m \in Sessions PROVE BridgeRight(m)'
    <3>1. CASE m = n
      <4>1. bridges'[m] = b /\ b.s \in Sessions
        BY <1>3, <1>4, <3>1 DEF BridgeRight
      <4> QED
        BY <1>1, <4>1 DEF BridgeRight, BridgeRows, AnyShell
    <3>2. CASE m # n
      <4>1. bridges'[m] = bridges[m] /\ BridgeRight(m)
        BY <1>3, <3>2 DEF ShellInv, BridgesSound
      <4> QED
        BY <1>1, <4>1 DEF BridgeRight, BridgeRows, AnyShell
    <3> QED
      BY <3>1, <3>2
  <2> QED
    BY <1>1, <2>1 DEF BridgesSound
<1>8. ReplaysSound' /\ OpenSound'
  BY <1>1 DEF ShellInv, ReplaysSound, OpenSound
<1>9. RowsSound'
  <2> SUFFICES ASSUME NEW t \in Sessions, statuses'[t] = "running"
               PROVE  \E m \in Sessions : bridges'[m].s = t /\ bridges'[m].at \in {"read", "look", "blind"}
    BY <1>1 DEF RowsSound, InSight
  <2>1. PICK m \in Sessions : bridges[m].s = t /\ bridges[m].at \in {"read", "look", "blind"}
    BY DEF ShellInv, RowsSound, InSight
  <2>2. CASE m = n
    BY <1>3, <2>1, <2>2
  <2>3. CASE m # n
    BY <1>3, <2>1, <2>3
  <2> QED
    BY <2>2, <2>3
<1> QED
  BY <1>5, <1>6, <1>7, <1>8, <1>9 DEF ShellInv

LEMMA BridgeFacts ==
    ASSUME ShellInv, NEW n \in Sessions, bridges[n].at \in {"read", "look"}
    PROVE  /\ bridges[n] \in BridgeRows /\ bridges[n].s \in Sessions
           /\ bridges[n].cursor \in Nat /\ bridges[n].seen \in Nat
           /\ bridges[n].cursor - bridges[n].seen <= replay[bridges[n].s].lostEvents
           /\ bridges[n].cursor <= replay[bridges[n].s].latest
           /\ statuses \in [Sessions -> ShellStatuses]
<1>1. BridgeRight(n)
  BY DEF ShellInv, BridgesSound
<1>2. bridges[n] \in BridgeRows /\ bridges[n].s \in Sessions
  BY <1>1 DEF BridgeRight
<1> QED
  BY <1>1, <1>2 DEF BridgeRight, BridgeRows, ShellInv, ShellsTyped

\* A bridge at work that only goes on to something else.
LEMMA BridgeGoes ==
    ASSUME ShellInv, NEW n \in Sessions, bridges[n].at \in {"read", "look"}, NEW to \in {"read", "look", "blind", "over"}
    PROVE  LET b == [bridges[n] EXCEPT !.at = to] IN
           /\ b \in BridgeRows /\ b.s = bridges[n].s /\ b.at = to
           /\ b.cursor - b.seen <= replay[b.s].lostEvents /\ b.cursor <= replay[b.s].latest
<1>1. PICK a : a = bridges[n]
  OBVIOUS
<1>2. PICK b : b = [a EXCEPT !.at = to]
  OBVIOUS
<1>3. a \in BridgeRows /\ a.cursor - a.seen <= replay[a.s].lostEvents /\ a.cursor <= replay[a.s].latest
  BY <1>1, BridgeFacts
<1>4. b \in BridgeRows /\ b.s = a.s /\ b.at = to /\ b.cursor = a.cursor /\ b.seen = a.seen
  BY <1>2, <1>3 DEF BridgeRows
<1>5. b.cursor - b.seen <= replay[b.s].lostEvents /\ b.cursor <= replay[b.s].latest
  BY <1>3, <1>4
<1> QED
  BY <1>1, <1>2, <1>4, <1>5

LEMMA BridgeReadStep ==
    ASSUME ShellInv, NEW n \in Sessions, BridgeRead(n)
    PROVE  ShellInv'
<1>1. bridges[n].at = "read"
  BY DEF BridgeRead
<1>2. PICK b : b = bridges[n]
  OBVIOUS
<1>3. /\ b \in BridgeRows /\ b.s \in Sessions /\ b.cursor \in Nat /\ b.seen \in Nat
      /\ b.cursor - b.seen <= replay[b.s].lostEvents /\ b.cursor <= replay[b.s].latest
      /\ statuses \in [Sessions -> ShellStatuses]
  BY <1>1, <1>2, BridgeFacts
<1>4. ASSUME NEW to \in {"blind", "look"}, bridges' = [bridges EXCEPT ![n] = [b EXCEPT !.at = to]]
      PROVE  ShellInv'
  <2>1. PICK r : r = [bridges[n] EXCEPT !.at = to]
    OBVIOUS
  <2>2. /\ r \in BridgeRows /\ r.s = bridges[n].s /\ r.at = to
        /\ r.cursor - r.seen <= replay[r.s].lostEvents /\ r.cursor <= replay[r.s].latest
    BY <1>1, <2>1, BridgeGoes
  <2>3. bridges' = [bridges EXCEPT ![n] = r]
    BY <1>2, <1>4, <2>1
  <2> QED
    BY <1>1, <1>3, <2>2, <2>3, BridgeMoves DEF BridgeRead
<1>5. CASE ~find_session(b.s)
  <2>1. bridges' = [bridges EXCEPT ![n] = [b EXCEPT !.at = "blind"]]
    BY <1>2, <1>5 DEF BridgeRead
  <2> QED
    BY <1>4, <2>1
<1>6. CASE find_session(b.s) /\ After(b.s, b.cursor) = <<>>
  <2>1. bridges' = [bridges EXCEPT ![n] = [b EXCEPT !.at = "look"]]
    BY <1>2, <1>6 DEF BridgeRead
  <2> QED
    BY <1>4, <2>1
<1>7. CASE find_session(b.s) /\ After(b.s, b.cursor) # <<>>
  <2>1. ReplayRight(replay[b.s]) /\ replay[b.s].lostEvents \in Nat /\ replay[b.s].latest \in Nat
    BY <1>3, ReplayFacts
  <2>2. PICK len \in Nat :
              /\ Len(After(b.s, b.cursor)) = len /\ (After(b.s, b.cursor) = <<>> <=> len = 0)
              /\ len > 0 => Last(After(b.s, b.cursor)).sequence = replay[b.s].latest
              /\ b.cursor <= replay[b.s].lostEvents => len = replay[b.s].latest - replay[b.s].lostEvents
              /\ b.cursor > replay[b.s].lostEvents => len = replay[b.s].latest - b.cursor
    BY <1>3, <2>1, AfterRight
  <2>3. len > 0
    BY <1>7, <2>2
  <2>4. PICK cu \in Nat, se \in Nat : cu = replay[b.s].latest /\ se = b.seen + len
    BY <1>3, <2>1
  <2>5. PICK r : r = [b EXCEPT !.cursor = cu, !.seen = se]
    OBVIOUS
  <2>6. bridges' = [bridges EXCEPT ![n] = r]
    <3>1. bridges' = [bridges EXCEPT ![n] = [b EXCEPT !.cursor = Last(After(b.s, b.cursor)).sequence,
                                                      !.seen = b.seen + Len(After(b.s, b.cursor))]]
      BY <1>2, <1>7 DEF BridgeRead
    <3> QED
      BY <2>2, <2>3, <2>4, <2>5, <3>1
  <2>7. r \in BridgeRows /\ r.s = b.s /\ r.at = b.at /\ r.cursor = cu /\ r.seen = se
    BY <1>3, <2>5 DEF BridgeRows
  <2>8. PICK lo \in Nat, la \in Nat, c0 \in Nat, s0 \in Nat :
          lo = replay[b.s].lostEvents /\ la = replay[b.s].latest /\ c0 = b.cursor /\ s0 = b.seen
    BY <1>3, <2>1
  <2>9. cu - se <= lo /\ cu <= la
    <3>1. /\ c0 - s0 <= lo /\ c0 <= la /\ cu = la /\ se = s0 + len
          /\ (c0 <= lo => len = la - lo) /\ (c0 > lo => len = la - c0)
      BY <1>3, <2>2, <2>4, <2>8
    <3> QED
      BY ONLY <3>1, cu \in Nat, se \in Nat, lo \in Nat, la \in Nat, c0 \in Nat, s0 \in Nat, len \in Nat
  <2>10. r.cursor - r.seen <= replay[r.s].lostEvents /\ r.cursor <= replay[r.s].latest
    BY <2>7, <2>8, <2>9
  <2> QED
    BY <1>1, <1>2, <1>3, <2>6, <2>7, <2>10, BridgeMoves DEF BridgeRead
<1> QED
  BY <1>5, <1>6, <1>7

LEMMA BridgeLookStep ==
    ASSUME ShellInv, NEW n \in Sessions, BridgeLook(n)
    PROVE  ShellInv'
<1>1. bridges[n].at = "look"
  BY DEF BridgeLook
<1>2. PICK to \in {"read", "blind", "over"} : bridges' = [bridges EXCEPT ![n] = [bridges[n] EXCEPT !.at = to]]
                                              /\ ((statuses' = statuses /\ to # "over") \/
                                                  statuses' = [statuses EXCEPT ![bridges[n].s] = "exited"])
  BY DEF BridgeLook
<1>3. PICK r : r = [bridges[n] EXCEPT !.at = to]
  OBVIOUS
<1>4. /\ r \in BridgeRows /\ r.s = bridges[n].s /\ r.at = to
      /\ r.cursor - r.seen <= replay[r.s].lostEvents /\ r.cursor <= replay[r.s].latest
  BY <1>1, <1>3, BridgeGoes
<1>5. statuses \in [Sessions -> ShellStatuses] /\ r.s \in Sessions
  BY <1>1, <1>4, BridgeFacts
<1>6. /\ statuses' \in [Sessions -> ShellStatuses]
      /\ \A t \in Sessions : statuses'[t] = "running" => statuses[t] = "running"
      /\ to = "over" => statuses'[r.s] # "running"
  BY <1>2, <1>4, <1>5 DEF ShellStatuses, ShellOver
<1> QED
  BY <1>1, <1>2, <1>3, <1>4, <1>6, BridgeMoves DEF BridgeLook


LEMMA persist_shell_sessionStep ==
    ASSUME ShellInv, NEW c \in Sessions, persist_shell_session(c)
    PROVE  ShellInv'
<1>1. Sessions' = Sessions /\ calls[c].at = "persist" /\ calls' = [calls EXCEPT ![c] = NoShellCall]
  BY DEF Sessions, persist_shell_session
<1>2. PICK s \in Sessions : s = calls[c].s
  BY <1>1, CallFacts DEF RowRight
<1>3. CASE UNCHANGED <<statuses, bridges>>
  <2>1. ShellsTyped' /\ OpenSound'
    BY <1>1, <1>3 DEF ShellInv, ShellsTyped, ShellStatuses, OpenSound, persist_shell_session
  <2>2. CallsSound' /\ BridgesSound' /\ ReplaysSound' /\ RowsSound'
    BY <1>1, <1>3, NoCallRight, GoesKeeps DEF persist_shell_session
  <2> QED
    BY <2>1, <2>2 DEF ShellInv
<1>4. CASE /\ statuses' = [statuses EXCEPT ![calls[c].s] = "running"]
           /\ bridges' = [bridges EXCEPT ![c] = [NoBridge EXCEPT !.at = "read", !.s = calls[c].s]]
  <2>1. PICK b : b = [NoBridge EXCEPT !.at = "read", !.s = s]
    OBVIOUS
  <2>2. b = [at |-> "read", s |-> s, cursor |-> 0, seen |-> 0]
    BY ONLY <2>1 DEF NoBridge
  <2>3. b \in BridgeRows /\ b.at = "read" /\ b.s = s /\ b.cursor = 0 /\ b.seen = 0
    BY <2>2 DEF BridgeRows, AnyShell
  <2>4. /\ bridges = [m \in Sessions |-> bridges[m]] /\ calls = [d \in Sessions |-> calls[d]]
        /\ statuses \in [Sessions -> ShellStatuses]
    BY DEF ShellInv, CallsSound, ShellsTyped
  <2>5. /\ bridges' = [m \in Sessions |-> bridges'[m]] /\ calls' = [d \in Sessions |-> calls'[d]]
        /\ \A m \in Sessions : bridges'[m] = IF m = c THEN b ELSE bridges[m]
        /\ \A m \in Sessions : calls'[m] = IF m = c THEN NoShellCall ELSE calls[m]
        /\ \A m \in Sessions : statuses'[m] = IF m = s THEN "running" ELSE statuses[m]
        /\ statuses' \in [Sessions -> ShellStatuses]
    BY <1>1, <1>2, <1>4, <2>1, <2>4 DEF ShellStatuses
  <2>6. ShellsTyped' /\ OpenSound'
    BY <1>1, <2>5 DEF ShellInv, ShellsTyped, ShellStatuses, OpenSound, persist_shell_session
  <2>7. c <= made /\ bridges[c].at = "none"
    BY <1>1, CallFacts
  <2>8. CallsSound'
    <3>1. ASSUME NEW d \in Sessions PROVE CallRight(d)' /\ BridgeAlone(d)'
      <4>1. CallRight(d) /\ BridgeAlone(d) /\ made' = made
        BY DEF ShellInv, CallsSound, persist_shell_session
      <4>2. RowRight(calls'[d]) /\ (calls'[d].at # "idle" => d <= made)
        BY <2>5, <4>1, NoCallRight DEF CallRight
      <4>3. CallRight(d)'
        BY <1>1, <4>1, <4>2 DEF CallRight, RowRight, CallRows, AnyShell
      <4>4. BridgeAlone(d)'
        <5>1. CASE d = c
          <6>1. calls'[d].at = "idle" /\ ~(d > made)
            BY <2>5, <2>7, <5>1, NoCallRight, ShellNumbers
          <6> QED
            BY <4>1, <6>1 DEF BridgeAlone
        <5>2. CASE d # c
          BY <2>5, <4>1, <5>2 DEF BridgeAlone
        <5> QED
          BY <5>1, <5>2
      <4> QED
        BY <4>3, <4>4
    <3> QED
      BY <1>1, <2>5, <3>1 DEF CallsSound
  <2>9. BridgesSound'
    <3>1. ASSUME NEW m \in Sessions PROVE BridgeRight(m)'
      <4>1. replay' = replay /\ BridgeRight(m)
        BY DEF ShellInv, BridgesSound, persist_shell_session
      <4>2. CASE m = c
        <5>1. bridges'[m] = b
          BY <2>5, <4>2
        <5>2. replay[s].lostEvents \in Nat /\ replay[s].latest \in Nat
          BY ReplayFacts
        <5>3. 0 - 0 <= replay[s].lostEvents /\ 0 <= replay[s].latest
          BY <5>2
        <5> QED
          BY <1>1, <2>3, <4>1, <5>1, <5>3 DEF BridgeRight, BridgeRows, AnyShell
      <4>3. CASE m # c
        <5>1. bridges'[m] = bridges[m]
          BY <2>5, <4>3
        <5> QED
          BY <1>1, <4>1, <5>1 DEF BridgeRight, BridgeRows, AnyShell
      <4> QED
        BY <4>2, <4>3
    <3> QED
      BY <1>1, <3>1 DEF BridgesSound
  <2>10. ReplaysSound'
    BY <1>1 DEF ShellInv, ReplaysSound, persist_shell_session
  <2>11. RowsSound'
    <3> SUFFICES ASSUME NEW t \in Sessions, statuses'[t] = "running"
                 PROVE  \E m \in Sessions : bridges'[m].s = t /\ bridges'[m].at \in {"read", "look", "blind"}
      BY <1>1 DEF RowsSound, InSight
    <3>1. CASE t = s
      BY <2>3, <2>5, <3>1
    <3>2. CASE t # s
      <4>1. PICK m \in Sessions : bridges[m].s = t /\ bridges[m].at \in {"read", "look", "blind"}
        BY <2>5, <3>2 DEF ShellInv, RowsSound, InSight
      <4>2. m # c
        BY <2>7, <4>1
      <4> QED
        BY <2>5, <4>1, <4>2
    <3> QED
      BY <3>1, <3>2
  <2> QED
    BY <2>6, <2>8, <2>9, <2>10, <2>11 DEF ShellInv
<1> QED
  BY <1>3, <1>4 DEF persist_shell_session

LEMMA NoBridgeRight == NoBridge.at = "none" /\ NoBridge.s = NoSession /\ NoBridge \in BridgeRows
BY DEF NoBridge, BridgeRows, AnyShell

LEMMA bootstrapStep ==
    ASSUME ShellInv, bootstrap
    PROVE  ShellInv'
<1>1. /\ Sessions' = Sessions /\ calls' = [c \in Sessions |-> NoShellCall] /\ bridges' = [n \in Sessions |-> NoBridge]
      /\ replay' = replay /\ made' = made /\ bounds' = bounds
  BY DEF Sessions, bootstrap
<1>2. ShellsTyped'
  <2>1. retired' = <<>> /\ <<>> \in Seq(Sessions) /\ Len(<<>>) = 0 /\ MaxRetired \in Nat
    BY ShellAssumption DEF bootstrap
  <2>2. completed_requests' = <<>> /\ DOMAIN <<>> = {}
    BY DEF bootstrap
  <2>3. hosts' \in 0..bounds.hosts
    BY DEF ShellInv, ShellsTyped, bootstrap
  <2>4. child' \in [Sessions -> {"none", "running", "exited"}]
    BY DEF ShellInv, ShellsTyped, bootstrap
  <2>5. statuses' \in [Sessions -> ShellStatuses]
    BY DEF ShellInv, ShellsTyped, ShellStatuses, ShellOver, bootstrap
  <2>6. exited' \in [Sessions -> BOOLEAN] /\ told' \subseteq Sessions
    BY DEF bootstrap
  <2> QED
    BY <1>1, <2>1, <2>2, <2>3, <2>4, <2>5, <2>6 DEF ShellInv, ShellsTyped, ShellStatuses, bootstrap
<1>3. CallsSound'
  BY <1>1, NoCallRight, NoBridgeRight DEF CallsSound, CallRight, RowRight, BridgeAlone, CallRows, AnyShell
<1>4. BridgesSound'
  <2>1. ASSUME NEW n \in Sessions PROVE BridgeRight(n)'
    <3>1. bridges'[n] = NoBridge /\ NoSession \notin Sessions
      BY <1>1, ShellNumbers
    <3> QED
      BY <1>1, <3>1, NoBridgeRight DEF BridgeRight, BridgeRows, AnyShell
  <2> QED
    BY <1>1, <2>1 DEF BridgesSound
<1>5. ReplaysSound'
  BY <1>1 DEF ShellInv, ReplaysSound
<1>6. RowsSound'
  <2>1. \A s \in Sessions : statuses'[s] # "running"
    BY DEF ShellInv, ShellsTyped, bootstrap
  <2> QED
    BY <1>1, <2>1 DEF RowsSound
<1>7. OpenSound'
  <2>1. \A s \in Sessions : child'[s] = "running" => s \in told'
    BY DEF ShellInv, ShellsTyped, bootstrap
  <2> QED
    BY <1>1, <2>1 DEF OpenSound
<1> QED
  BY <1>2, <1>3, <1>4, <1>5, <1>6, <1>7 DEF ShellInv

LEMMA ShellStep ==
    ASSUME ShellInv, [ShellNext]_shellVars
    PROVE  ShellInv'
<1>1. CASE \E s \in Sessions : PtyOutput(s) \/ append_output(s) \/ ShellExit(s) \/ Reap(s) \/ Reaped(s)
  BY <1>1, PtyOutputStep, append_outputStep, ShellExitStep, ReapStep, ReapedStep
<1>2. ASSUME NEW c \in Sessions,
             \E r \in Requests : Ask(c, "create", r, NoSession) \/ \E s \in Sessions : child[s] # "none" /\ Ask(c, "write", r, s)
      PROVE  ShellInv'
  BY <1>2, AskStep DEF AnyShell
<1>3. ASSUME NEW c \in Sessions,
             \/ begin_request(c) \/ Admit(c) \/ SpawnShell(c) \/ Cancelled(c) \/ Created(c) \/ persist_shell_session(c)
             \/ Write(c) \/ WriteDone(c)
      PROVE  ShellInv'
  BY <1>3, begin_requestStep, AdmitStep, SpawnShellStep, CancelledStep, CreatedStep, persist_shell_sessionStep,
     WriteStep, WriteDoneStep
<1>4. ASSUME NEW c \in Sessions,
             \E s \in Sessions : Wait(c, s) \/ session_action(c, s, "closed")
                                 \/ close(c, s, FALSE, "closed") \/ close(c, s, TRUE, "interrupted")
      PROVE  ShellInv'
  <2>1. "closed" \in ShellOver /\ "interrupted" \in ShellOver
    BY DEF ShellOver
  <2> QED
    BY <1>4, <2>1, WaitStep, session_actionStep, closeStep
<1>5. ASSUME NEW c \in Sessions,
             Push(c) \/ update_session_status(c) \/ (\E how \in {"turn", "stop", "timeout"} : StartStop(c, how))
             \/ StopOne(c) \/ Stopped(c)
      PROVE  ShellInv'
  BY <1>5, PushStep, update_session_statusStep, StartStopStep, StopOneStep, StoppedStep
<1>6. CASE \E n \in DOMAIN bridges : BridgeRead(n) \/ BridgeLook(n)
  <2>1. DOMAIN bridges = Sessions
    BY DEF ShellInv, CallsSound
  <2> QED
    BY <1>6, <2>1, BridgeReadStep, BridgeLookStep
<1>7. CASE bootstrap
  BY <1>7, bootstrapStep
<1>8. CASE UNCHANGED shellVars
  BY <1>8, ShellStutter
<1> QED
  BY <1>1, <1>2, <1>3, <1>4, <1>5, <1>6, <1>7, <1>8 DEF ShellNext

LEMMA ShellStart ==
    ASSUME ShellInit
    PROVE  ShellInv
<1>1. bounds \in Bounds /\ bounds.calls \in Nat /\ bounds.printed \in Nat /\ bounds.hosts \in Nat
  BY ShellAssumption DEF ShellInit
<1>2. /\ Sessions = 1..bounds.calls /\ NoSession \notin Sessions
      /\ calls = [c \in Sessions |-> NoShellCall] /\ bridges = [n \in Sessions |-> NoBridge]
      /\ replay = [s \in Sessions |-> EmptyReplay] /\ statuses = [s \in Sessions |-> "none"]
  BY <1>1 DEF ShellInit, Sessions, NoSession
<1>3. ShellsTyped
  <2>1. retired = <<>> /\ <<>> \in Seq(Sessions) /\ Len(<<>>) = 0 /\ MaxRetired \in Nat
    BY ShellAssumption DEF ShellInit
  <2>2. completed_requests = <<>> /\ DOMAIN <<>> = {}
    BY DEF ShellInit
  <2> QED
    BY <1>1, <1>2, <2>1, <2>2 DEF ShellsTyped, ShellStatuses, ShellInit
<1>4. CallsSound
  BY <1>2, NoCallRight, NoBridgeRight DEF CallsSound, CallRight, BridgeAlone
<1>5. BridgesSound
  BY <1>2, NoBridgeRight DEF BridgesSound, BridgeRight
<1>6. ReplaysSound
  <2>1. EmptyReplay.printed = 0
    BY DEF EmptyReplay
  <2> QED
    BY <1>1, <1>2, <2>1, EmptyRight DEF ReplaysSound
<1>7. RowsSound /\ OpenSound
  <2>1. \A s \in Sessions : child[s] = "none"
    BY DEF ShellInit
  <2> QED
    BY <1>2, <2>1 DEF RowsSound, OpenSound
<1> QED
  BY <1>3, <1>4, <1>5, <1>6, <1>7 DEF ShellInv

LEMMA ShellsAreSafe ==
    ASSUME ShellInv
    PROVE  ShellsSafe /\ ShellTypes
<1>1. ReplayExact
  <2> SUFFICES ASSUME NEW s \in Sessions, NEW b, b = replay[s]
               PROVE  /\ \A i \in DOMAIN b.events : b.events[i].sequence = b.lostEvents + i
                      /\ b.latest = b.lostEvents + Len(b.events)
                      /\ b.lost + BytesOf(b.events) + b.waiting = b.printed /\ b.bytes = BytesOf(b.events)
                      /\ b.truncated <=> b.lostEvents > 0
    BY DEF ReplayExact
  <2>1. b \in ReplayRows /\ Numbered(b) /\ BytesCount(b) /\ LossTold(b)
    BY ReplayFacts DEF ReplayRight
  <2>2. DOMAIN b.events = 1..Len(b.events)
    BY <2>1 DEF ReplayRows
  <2> QED
    BY <2>1, <2>2 DEF Numbered, BytesCount, LossTold
<1>2. ReadsTell
  <2> SUFFICES ASSUME NEW s \in Sessions, NEW cursor \in 0..replay[s].latest, ~Gap(s, cursor)
               PROVE  Len(After(s, cursor)) = replay[s].latest - cursor
    BY DEF ReadsTell
  <2>1. ReplayRight(replay[s]) /\ replay[s].lostEvents \in Nat /\ replay[s].latest \in Nat
    BY ReplayFacts
  <2>2. cursor \in Nat /\ cursor <= replay[s].latest
    BY <2>1
  <2>3. PICK len \in Nat :
              /\ Len(After(s, cursor)) = len
              /\ cursor <= replay[s].lostEvents => len = replay[s].latest - replay[s].lostEvents
              /\ cursor > replay[s].lostEvents => len = replay[s].latest - cursor
    BY <2>1, <2>2, AfterRight
  <2>4. replay[s].lostEvents = 0
    BY <2>1 DEF Gap, ReplayRight, LossTold
  <2> QED
    BY <2>1, <2>2, <2>3, <2>4
<1>3. LiveComplete
  <2> SUFFICES ASSUME NEW n \in DOMAIN bridges, bridges[n].s # NoSession
               PROVE  bridges[n].cursor - bridges[n].seen <= replay[bridges[n].s].lostEvents
    BY DEF LiveComplete
  <2>1. n \in Sessions
    BY DEF ShellInv, CallsSound
  <2>2. BridgeRight(n)
    BY <2>1 DEF ShellInv, BridgesSound
  <2>3. bridges[n].s \in Sessions
    BY <2>2 DEF BridgeRight, BridgeRows, AnyShell
  <2> QED
    BY <2>2, <2>3 DEF BridgeRight
<1>4. NoneForgotten
  BY DEF ShellInv, OpenSound, NoneForgotten
<1>5. RowsSettle
  <2>1. DOMAIN bridges = Sessions
    BY DEF ShellInv, CallsSound
  <2> QED
    BY <2>1 DEF ShellInv, RowsSound, InSight, RowsSettle
<1>6. ShellTypes
  <2>1. \A x \in Sessions : replay[x].waiting \in 0..bounds.printed /\ replay[x].printed \in 0..bounds.printed
    <3> SUFFICES ASSUME NEW x \in Sessions
                 PROVE  replay[x].waiting \in 0..bounds.printed /\ replay[x].printed \in 0..bounds.printed
      OBVIOUS
    <3>1. PICK b : b = replay[x]
      OBVIOUS
    <3>2. b \in ReplayRows /\ BytesCount(b) /\ b.printed <= bounds.printed /\ bounds.printed \in Nat
      BY <3>1, ReplayFacts DEF ReplayRight
    <3>3. BytesOf(b.events) \in Nat /\ b.lost \in Nat /\ b.waiting \in Nat /\ b.printed \in Nat
      BY <3>2, BytesOfTotal DEF ReplayRows
    <3>4. b.waiting <= b.printed
      BY <3>2, <3>3 DEF BytesCount
    <3> QED
      BY <3>1, <3>2, <3>3, <3>4
  <2>2. Range(retired) \subseteq Sessions
    BY DEF ShellInv, ShellsTyped, Range
  <2>3. \A c \in Sessions : calls[c].s \in Sessions \cup {NoSession} /\ calls[c].req \in Requests \cup {"none"}
    BY CallFacts DEF CallRows, AnyShell
  <2>4. \A n \in DOMAIN bridges : bridges[n].at \in {"none", "read", "look", "over", "blind"}
    BY DEF ShellInv, CallsSound, BridgesSound, BridgeRight, BridgeRows
  <2> QED
    BY <2>1, <2>2, <2>3, <2>4 DEF ShellInv, ShellsTyped, ShellStatuses, ShellTypes
<1> QED
  BY <1>1, <1>2, <1>3, <1>4, <1>5, <1>6 DEF ShellsSafe

\* For any requests, limits of the replay, calls and restarts of the host: the replay of a shell
\* is the end of what it printed, a read that reports no gap misses nothing, a bridge publishes
\* what the replay had not lost, a shell that runs untold is open, and a row that says running
\* has a bridge (shell/output.rs, shell/operations.rs, shell_commands.rs, terminal_lifecycle.rs).
THEOREM ShellsKept == ShellInit /\ [][ShellNext]_shellVars => [](ShellsSafe /\ ShellTypes)
<1>1. ShellInit => ShellInv
  BY ShellStart
<1>2. ShellInv /\ [ShellNext]_shellVars => ShellInv'
  BY ShellStep
<1>3. ShellInv => ShellsSafe /\ ShellTypes
  BY ShellsAreSafe
<1> QED
  BY <1>1, <1>2, <1>3, PTL

=============================================================================
