---------------------------- MODULE DataTheorems ----------------------------
(***************************************************************************)
(* Facts about numbers, finite sets and sums that the proofs of the        *)
(* components cite.  The induction theorems of the library quantify over   *)
(* operators; here induction is over a set of numbers, so that a recursive *)
(* definition such as SumFunctionOnSet can be reasoned about.              *)
(***************************************************************************)
EXTENDS FiniteSetsExt, FiniteSetTheorems, TLAPS

-----------------------------------------------------------------------------
(* Numbers and finite sets.                                                 *)

LEMMA LeastNumber ==
    ASSUME NEW S \in SUBSET Nat, S # {}
    PROVE  Min(S) \in S /\ \A n \in S : Min(S) <= n
<1> DEFINE R == OpToRel(<, Nat)
<1>1. \E m \in S : \A n \in S : <<n, m>> \notin R
  BY NatLessThanWellFounded, WFMin
<1>2. \A m, n \in Nat : <<n, m>> \notin R => m <= n
  BY DEF OpToRel
<1>3. \E m \in S : \A n \in S : m <= n
  BY <1>1, <1>2
<1> QED
  BY <1>3 DEF Min

LEMMA NumberInduction ==
    ASSUME NEW P, 0 \in P, \A n \in Nat : n \in P => n + 1 \in P
    PROVE  \A n \in Nat : n \in P
<1> DEFINE Left == Nat \ P
<1> SUFFICES ASSUME Left # {} PROVE FALSE
  OBVIOUS
<1>1. Min(Left) \in Left /\ \A n \in Left : Min(Left) <= n
  BY LeastNumber
<1>2. Min(Left) \in Nat /\ Min(Left) # 0
  BY <1>1
<1>3. Min(Left) - 1 \in Nat /\ Min(Left) - 1 \in P
  BY <1>1, <1>2
<1> QED
  BY <1>1, <1>3

\* The larger of two numbers.
LEMMA Larger ==
    ASSUME NEW a \in Int, NEW b \in Int
    PROVE  Max({a, b}) \in {a, b} /\ Max({a, b}) >= a /\ Max({a, b}) >= b
<1>1. \E m \in {a, b} : \A n \in {a, b} : m >= n
  <2>1. CASE a >= b
    BY <2>1
  <2>2. CASE b >= a
    BY <2>2
  <2> QED
    BY <2>1, <2>2
<1> QED
  BY <1>1 DEF Max

LEMMA Smaller ==
    ASSUME NEW a \in Int, NEW b \in Int
    PROVE  Min({a, b}) \in {a, b} /\ Min({a, b}) <= a /\ Min({a, b}) <= b
<1>1. \E m \in {a, b} : \A n \in {a, b} : m <= n
  <2>1. CASE a <= b
    BY <2>1
  <2>2. CASE b <= a
    BY <2>2
  <2> QED
    BY <2>1, <2>2
<1> QED
  BY <1>1 DEF Min

\* The subsets of a finite set, by their size.
LEMMA SmallerSet ==
    ASSUME NEW S, IsFiniteSet(S), NEW x \in S
    PROVE  /\ IsFiniteSet(S \ {x}) /\ x \notin S \ {x}
           /\ Cardinality(S) \in Nat /\ Cardinality(S) > 0
           /\ Cardinality(S \ {x}) = Cardinality(S) - 1
BY FS_RemoveElement, FS_CardinalityType, FS_EmptySet

\* The values of a function on a finite set.
LEMMA FiniteImage ==
    ASSUME NEW f, NEW S, IsFiniteSet(S)
    PROVE  IsFiniteSet({f[x] : x \in S})
<1> DEFINE T == {f[x] : x \in S}
           g == [x \in S |-> f[x]]
<1>1. g \in [S -> T] /\ \A v \in T : \E x \in S : g[x] = v
  OBVIOUS
<1>2. g \in Surjection(S, T)
  <2> HIDE DEF g, T
  <2> QED
    BY <1>1 DEF Surjection
<1> HIDE DEF g, T
<1>3. IsFiniteSet(T)
  BY <1>2, FS_Surjection
<1> QED
  BY <1>3 DEF T

\* A finite set has a first element in every total preorder.
LEMMA FirstOf ==
    ASSUME NEW S, IsFiniteSet(S), S # {}, NEW R,
           \A x, y \in S : <<x, y>> \in R \/ <<y, x>> \in R,
           \A x, y, z \in S : <<x, y>> \in R /\ <<y, z>> \in R => <<x, z>> \in R
    PROVE  \E m \in S : \A x \in S : <<m, x>> \in R
<1> DEFINE P == {n \in Nat : \A T \in SUBSET S :
                    IsFiniteSet(T) /\ Cardinality(T) = n + 1
                        => \E m \in T : \A x \in T : <<m, x>> \in R}
<1>1. 0 \in P
  <2> SUFFICES ASSUME NEW T \in SUBSET S, IsFiniteSet(T), Cardinality(T) = 1
               PROVE  \E m \in T : \A x \in T : <<m, x>> \in R
    OBVIOUS
  <2>1. PICK m \in T : TRUE
    BY FS_EmptySet
  <2>2. IsFiniteSet(T \ {m}) /\ Cardinality(T \ {m}) = 0
    BY SmallerSet
  <2>3. T \ {m} = {}
    BY <2>2, FS_EmptySet
  <2>4. <<m, m>> \in R
    OBVIOUS
  <2> QED
    BY <2>3, <2>4
<1>2. ASSUME NEW n \in Nat, n \in P PROVE n + 1 \in P
  <2> SUFFICES ASSUME NEW T \in SUBSET S, IsFiniteSet(T), Cardinality(T) = n + 2
               PROVE  \E m \in T : \A x \in T : <<m, x>> \in R
    BY <1>2
  <2>1. PICK y \in T : TRUE
    BY FS_EmptySet
  <2>2. IsFiniteSet(T \ {y}) /\ Cardinality(T \ {y}) = n + 1
    BY SmallerSet
  <2>3. PICK m \in T \ {y} : \A x \in T \ {y} : <<m, x>> \in R
    BY <1>2, <2>2
  <2>4. CASE <<m, y>> \in R
    BY <2>3, <2>4
  <2>5. CASE <<m, y>> \notin R
    BY <2>1, <2>3, <2>5
  <2> QED
    BY <2>4, <2>5
<1>3. \A n \in Nat : n \in P
  <2> HIDE DEF P
  <2> QED
    BY <1>1, <1>2, NumberInduction
<1>4. Cardinality(S) \in Nat /\ Cardinality(S) # 0
  BY FS_CardinalityType, FS_EmptySet
<1>5. Cardinality(S) - 1 \in P
  BY <1>3, <1>4
<1> QED
  BY <1>4, <1>5

LEMMA GreatestNumber ==
    ASSUME NEW S \in SUBSET Int, IsFiniteSet(S), S # {}
    PROVE  Max(S) \in S /\ \A n \in S : n <= Max(S)
<1> DEFINE R == {p \in Int \X Int : p[1] >= p[2]}
<1>1. \A a, b \in Int : <<a, b>> \in R <=> a >= b
  OBVIOUS
<1> HIDE DEF R
<1>2. \E m \in S : \A n \in S : <<m, n>> \in R
  <2>1. ASSUME NEW x \in S, NEW y \in S
        PROVE  <<x, y>> \in R \/ <<y, x>> \in R
    <3>1. x \in Int /\ y \in Int
      OBVIOUS
    <3>2. x >= y \/ y >= x
      BY <3>1
    <3> QED
      BY <1>1, <3>1, <3>2
  <2>2. \A x, y, z \in S : <<x, y>> \in R /\ <<y, z>> \in R => <<x, z>> \in R
    BY <1>1
  <2> QED
    BY <2>1, <2>2, FirstOf
<1>3. \E m \in S : \A n \in S : m >= n
  BY <1>1, <1>2
<1> QED
  BY <1>3 DEF Max

LEMMA SmallestNumber ==
    ASSUME NEW S \in SUBSET Int, IsFiniteSet(S), S # {}
    PROVE  Min(S) \in S /\ \A n \in S : Min(S) <= n
<1> DEFINE R == {p \in Int \X Int : p[1] <= p[2]}
<1>1. \A a, b \in Int : <<a, b>> \in R <=> a <= b
  OBVIOUS
<1> HIDE DEF R
<1>2. \E m \in S : \A n \in S : <<m, n>> \in R
  <2>1. ASSUME NEW x \in S, NEW y \in S
        PROVE  <<x, y>> \in R \/ <<y, x>> \in R
    <3>1. x \in Int /\ y \in Int
      OBVIOUS
    <3>2. x <= y \/ y <= x
      BY <3>1
    <3> QED
      BY <1>1, <3>1, <3>2
  <2>2. \A x, y, z \in S : <<x, y>> \in R /\ <<y, z>> \in R => <<x, z>> \in R
    BY <1>1
  <2> QED
    BY <2>1, <2>2, FirstOf
<1>3. \E m \in S : \A n \in S : m <= n
  BY <1>1, <1>2
<1> QED
  BY <1>3 DEF Min

-----------------------------------------------------------------------------
(* Sums of a function over a set.                                           *)

\* The table that the recursive definition of a sum describes.
Picked(s) == CHOOSE x \in s : TRUE
Entry(f, g, s) == IF s = {} THEN 0 ELSE f[Picked(s)] + g[s \ {Picked(s)}]
SumTable(f, S, g) == g = [s \in SUBSET S |-> Entry(f, g, s)]

\* The table can be built up by the size of the subsets.
LEMMA TableExists ==
    ASSUME NEW f, NEW S, IsFiniteSet(S)
    PROVE  \E g : SumTable(f, S, g)
<1> DEFINE Upto(n) == {s \in SUBSET S : Cardinality(s) <= n}
           P == {n \in Nat : \E g : g = [s \in Upto(n) |-> Entry(f, g, s)]}
<1>0. \A s \in SUBSET S : IsFiniteSet(s) /\ Cardinality(s) \in Nat
  BY FS_Subset, FS_CardinalityType
<1>1. 0 \in P
  <2> DEFINE g == [s \in Upto(0) |-> 0]
  <2>1. \A s \in Upto(0) : s = {}
    BY <1>0, FS_EmptySet
  <2>2. g = [s \in Upto(0) |-> Entry(f, g, s)]
    BY <2>1 DEF Entry
  <2> QED
    BY <2>2
<1>2. ASSUME NEW n \in Nat, n \in P PROVE n + 1 \in P
  <2>1. PICK g : g = [s \in Upto(n) |-> Entry(f, g, s)]
    BY <1>2
  <2> DEFINE h == [s \in Upto(n + 1) |-> Entry(f, g, s)]
  <2>2. \A s \in Upto(n) : s \in Upto(n + 1) /\ h[s] = g[s]
    <3>1. \A s \in Upto(n) : s \in Upto(n + 1)
      BY <1>0
    <3> QED
      BY <2>1, <3>1
  <2>3. ASSUME NEW s \in Upto(n + 1), s # {}
        PROVE  s \ {Picked(s)} \in Upto(n)
    <3>1. Picked(s) \in s
      BY <2>3 DEF Picked
    <3> QED
      BY <1>0, <3>1, SmallerSet
  <2>4. \A s \in Upto(n + 1) : Entry(f, h, s) = Entry(f, g, s)
    <3> HIDE DEF h
    <3> QED
      BY <2>2, <2>3 DEF Entry
  <2>5. h = [s \in Upto(n + 1) |-> Entry(f, h, s)]
    BY <2>4
  <2> HIDE DEF h
  <2> QED
    BY <2>5
<1>3. Cardinality(S) \in Nat /\ Cardinality(S) \in P
  <2>1. \A n \in Nat : n \in P
    <3> HIDE DEF P
    <3> QED
      BY <1>1, <1>2, NumberInduction
  <2> QED
    BY <2>1, <1>0
<1>4. Upto(Cardinality(S)) = SUBSET S
  BY <1>0, FS_Subset
<1>5. PICK g : g = [s \in Upto(Cardinality(S)) |-> Entry(f, g, s)]
  BY <1>3
<1> QED
  BY <1>4, <1>5 DEF SumTable

LEMMA SumIsTable ==
    ASSUME NEW f, NEW S, IsFiniteSet(S)
    PROVE  \E g : SumTable(f, S, g) /\ SumFunctionOnSet(f, S) = g[S]
<1>1. SumFunctionOnSet(f, S) = (CHOOSE g : SumTable(f, S, g))[S]
  BY DEF SumFunctionOnSet, FoldFunctionOnSet, MapThenFoldSet, SumTable, Entry, Picked
<1> QED
  BY <1>1, TableExists

\* Every entry of the table is a number.
LEMMA TableNumbers ==
    ASSUME NEW f, NEW S, IsFiniteSet(S), NEW N, N \in {Nat, Int, {0}},
           \A x \in S : f[x] \in N,
           NEW g, SumTable(f, S, g)
    PROVE  \A s \in SUBSET S : g[s] \in N
<1> DEFINE P == {n \in Nat : \A s \in SUBSET S : Cardinality(s) = n => g[s] \in N}
<1>0. \A s \in SUBSET S : IsFiniteSet(s) /\ Cardinality(s) \in Nat
  BY FS_Subset, FS_CardinalityType
<1>1. \A s \in SUBSET S : g[s] = Entry(f, g, s)
  BY DEF SumTable
<1>2. 0 \in P
  <2> SUFFICES ASSUME NEW s \in SUBSET S, Cardinality(s) = 0 PROVE g[s] \in N
    OBVIOUS
  <2>1. s = {}
    BY <1>0, FS_EmptySet
  <2>2. g[s] = 0
    BY <1>1, <2>1 DEF Entry
  <2> QED
    BY <2>2
<1>3. ASSUME NEW n \in Nat, n \in P PROVE n + 1 \in P
  <2>1. ASSUME NEW s \in SUBSET S, Cardinality(s) = n + 1 PROVE g[s] \in N
    <3> DEFINE y == Picked(s)
    <3>1. s # {} /\ y \in s
      BY <2>1, FS_EmptySet DEF Picked
    <3>2. g[s] = f[y] + g[s \ {y}]
      BY <1>1, <3>1 DEF Entry
    <3> HIDE DEF y
    <3>3. Cardinality(s \ {y}) = n /\ s \ {y} \in SUBSET S
      BY <1>0, <2>1, <3>1, SmallerSet
    <3>4. g[s \ {y}] \in N /\ f[y] \in N
      BY <1>3, <3>1, <3>3
    <3>5. \A a, b \in N : a + b \in N
      OBVIOUS
    <3> QED
      BY <3>2, <3>4, <3>5
  <2> QED
    BY <2>1
<1>4. \A n \in Nat : n \in P
  <2> HIDE DEF P
  <2> QED
    BY <1>2, <1>3, NumberInduction
<1> QED
  BY <1>0, <1>4

\* An entry does not depend on the element that is taken out first.
LEMMA TableAnyElement ==
    ASSUME NEW f, NEW S, IsFiniteSet(S), \A x \in S : f[x] \in Int,
           NEW g, SumTable(f, S, g)
    PROVE  \A s \in SUBSET S : \A x \in s : g[s] = f[x] + g[s \ {x}]
<1> DEFINE P == {n \in Nat : \A s \in SUBSET S : Cardinality(s) = n =>
                    \A x \in s : g[s] = f[x] + g[s \ {x}]}
<1>0. \A s \in SUBSET S : IsFiniteSet(s) /\ Cardinality(s) \in Nat
  BY FS_Subset, FS_CardinalityType
<1>1. \A s \in SUBSET S : g[s] = Entry(f, g, s)
  BY DEF SumTable
<1>2. \A s \in SUBSET S : g[s] \in Int
  BY TableNumbers
<1>3. 0 \in P
  BY <1>0, FS_EmptySet
<1>4. ASSUME NEW n \in Nat, n \in P PROVE n + 1 \in P
  <2>1. ASSUME NEW s \in SUBSET S, Cardinality(s) = n + 1, NEW x \in s
        PROVE  g[s] = f[x] + g[s \ {x}]
    <3> DEFINE y == Picked(s)
               both == (s \ {y}) \ {x}
    <3>1. y \in s
      BY DEF Picked
    <3>2. g[s] = f[y] + g[s \ {y}]
      BY <1>1, <3>1 DEF Entry
    <3> HIDE DEF y
    <3>3. CASE x = y
      BY <3>2, <3>3
    <3>4. CASE x # y
      <4>1. /\ s \ {y} \in SUBSET S /\ Cardinality(s \ {y}) = n /\ x \in s \ {y}
            /\ s \ {x} \in SUBSET S /\ Cardinality(s \ {x}) = n /\ y \in s \ {x}
        BY <1>0, <2>1, <3>1, <3>4, SmallerSet
      <4>2. (s \ {x}) \ {y} = both
        OBVIOUS
      <4>3. g[s \ {y}] = f[x] + g[both]
        BY <1>4, <4>1
      <4>4. g[s \ {x}] = f[y] + g[both]
        BY <1>4, <4>1, <4>2
      <4>5. both \in SUBSET S
        BY <4>1
      <4>6. g[both] \in Int /\ f[x] \in Int /\ f[y] \in Int
        <5> HIDE DEF both
        <5> QED
          BY <1>2, <4>5, <4>1
      <4> HIDE DEF both
      <4> QED
        BY <3>2, <4>3, <4>4, <4>6
    <3> QED
      BY <3>3, <3>4
  <2> QED
    BY <2>1
<1>5. \A n \in Nat : n \in P
  <2> HIDE DEF P
  <2> QED
    BY <1>3, <1>4, NumberInduction
<1> QED
  BY <1>0, <1>5

\* The tables of two functions agree on the sets where the functions agree.
LEMMA TablesAgree ==
    ASSUME NEW f, NEW S, IsFiniteSet(S), NEW g, SumTable(f, S, g),
           NEW e, NEW T, IsFiniteSet(T), NEW h, SumTable(e, T, h)
    PROVE  \A s \in SUBSET (S \cap T) : (\A x \in s : f[x] = e[x]) => g[s] = h[s]
<1> DEFINE P == {n \in Nat : \A s \in SUBSET (S \cap T) :
                    Cardinality(s) = n /\ (\A x \in s : f[x] = e[x]) => g[s] = h[s]}
<1>0. \A s \in SUBSET (S \cap T) : IsFiniteSet(s) /\ Cardinality(s) \in Nat
  <2>1. IsFiniteSet(S \cap T)
    BY FS_Subset
  <2> QED
    BY <2>1, FS_Subset, FS_CardinalityType
<1>1. \A s \in SUBSET (S \cap T) : g[s] = Entry(f, g, s) /\ h[s] = Entry(e, h, s)
  BY DEF SumTable
<1>2. 0 \in P
  <2>1. ASSUME NEW s \in SUBSET (S \cap T), Cardinality(s) = 0 PROVE g[s] = h[s]
    <3>1. s = {}
      BY <1>0, <2>1, FS_EmptySet
    <3> QED
      BY <1>1, <3>1 DEF Entry
  <2> QED
    BY <2>1
<1>3. ASSUME NEW n \in Nat, n \in P PROVE n + 1 \in P
  <2>1. ASSUME NEW s \in SUBSET (S \cap T), Cardinality(s) = n + 1,
               \A x \in s : f[x] = e[x]
        PROVE  g[s] = h[s]
    <3> DEFINE y == Picked(s)
    <3>1. s # {} /\ y \in s
      BY <2>1, FS_EmptySet DEF Picked
    <3>2. g[s] = f[y] + g[s \ {y}] /\ h[s] = e[y] + h[s \ {y}]
      BY <1>1, <3>1 DEF Entry
    <3> HIDE DEF y
    <3>3. Cardinality(s \ {y}) = n /\ s \ {y} \in SUBSET (S \cap T)
      <4>1. IsFiniteSet(s)
        BY <1>0
      <4>2. Cardinality(s \ {y}) = n
        BY <2>1, <3>1, <4>1, SmallerSet
      <4> QED
        BY <4>2
    <3>4. g[s \ {y}] = h[s \ {y}]
      BY <1>3, <2>1, <3>3
    <3> QED
      BY <2>1, <3>1, <3>2, <3>4
  <2> QED
    BY <2>1
<1>4. \A n \in Nat : n \in P
  <2> HIDE DEF P
  <2> QED
    BY <1>2, <1>3, NumberInduction
<1> QED
  BY <1>0, <1>4

-----------------------------------------------------------------------------
(* What the models cite of sums.                                            *)

LEMMA SumNumber ==
    ASSUME NEW f, NEW S, IsFiniteSet(S), NEW N, N \in {Nat, Int, {0}},
           \A x \in S : f[x] \in N
    PROVE  SumFunctionOnSet(f, S) \in N
BY SumIsTable, TableNumbers

LEMMA SumOfZeros ==
    ASSUME NEW f, NEW S, IsFiniteSet(S), \A x \in S : f[x] = 0
    PROVE  SumFunctionOnSet(f, S) = 0
<1>1. SumFunctionOnSet(f, S) \in {0}
  <2>1. \A x \in S : f[x] \in {0}
    OBVIOUS
  <2>2. PICK N : N = {0}
    OBVIOUS
  <2>3. SumFunctionOnSet(f, S) \in N
    BY <2>1, <2>2, SumNumber
  <2> QED
    BY <2>2, <2>3
<1> QED
  BY <1>1

LEMMA SumOfNothing ==
    ASSUME NEW f
    PROVE  SumFunctionOnSet(f, {}) = 0
<1>1. PICK g : SumTable(f, {}, g) /\ SumFunctionOnSet(f, {}) = g[{}]
  BY SumIsTable, FS_EmptySet
<1> QED
  BY <1>1 DEF SumTable, Entry

LEMMA SumEqual ==
    ASSUME NEW f, NEW e, NEW S, IsFiniteSet(S), \A x \in S : f[x] = e[x]
    PROVE  SumFunctionOnSet(f, S) = SumFunctionOnSet(e, S)
<1>1. PICK g : SumTable(f, S, g) /\ SumFunctionOnSet(f, S) = g[S]
  BY SumIsTable
<1>2. PICK h : SumTable(e, S, h) /\ SumFunctionOnSet(e, S) = h[S]
  BY SumIsTable
<1> QED
  BY <1>1, <1>2, TablesAgree

\* One element more.
LEMMA SumRemove ==
    ASSUME NEW f, NEW S, IsFiniteSet(S), \A x \in S : f[x] \in Int, NEW x \in S
    PROVE  SumFunctionOnSet(f, S) = f[x] + SumFunctionOnSet(f, S \ {x})
<1>0. IsFiniteSet(S \ {x})
  BY SmallerSet
<1>1. PICK g : SumTable(f, S, g) /\ SumFunctionOnSet(f, S) = g[S]
  BY SumIsTable
<1>2. PICK h : SumTable(f, S \ {x}, h) /\ SumFunctionOnSet(f, S \ {x}) = h[S \ {x}]
  BY SumIsTable, <1>0
<1>3. g[S] = f[x] + g[S \ {x}]
  BY <1>1, TableAnyElement
<1>4. g[S \ {x}] = h[S \ {x}]
  <2>1. S \ {x} \in SUBSET (S \cap (S \ {x}))
    OBVIOUS
  <2> QED
    BY <1>0, <1>1, <1>2, <2>1, TablesAgree
<1> QED
  BY <1>1, <1>2, <1>3, <1>4

LEMMA SumAdd ==
    ASSUME NEW f, NEW S, IsFiniteSet(S), \A x \in S : f[x] \in Int,
           NEW x, x \notin S, f[x] \in Int
    PROVE  SumFunctionOnSet(f, S \cup {x}) = f[x] + SumFunctionOnSet(f, S)
<1>1. IsFiniteSet(S \cup {x}) /\ (S \cup {x}) \ {x} = S
  BY FS_AddElement
<1>2. \A y \in S \cup {x} : f[y] \in Int
  OBVIOUS
<1>3. x \in S \cup {x}
  OBVIOUS
<1> QED
  BY <1>1, <1>2, <1>3, SumRemove

\* No summand is above a sum of natural numbers.
LEMMA SumAtLeast ==
    ASSUME NEW f, NEW S, IsFiniteSet(S), \A x \in S : f[x] \in Nat, NEW x \in S
    PROVE  SumFunctionOnSet(f, S) >= f[x]
<1>1. IsFiniteSet(S \ {x}) /\ \A y \in S \ {x} : f[y] \in Nat
  BY SmallerSet
<1>2. SumFunctionOnSet(f, S \ {x}) \in Nat
  BY <1>1, SumNumber
<1>3. SumFunctionOnSet(f, S) = f[x] + SumFunctionOnSet(f, S \ {x})
  BY SumRemove
<1> QED
  BY <1>2, <1>3

\* A sum of natural numbers is at least the sum over any part of the set.
LEMMA SumOfPart ==
    ASSUME NEW f, NEW S, IsFiniteSet(S), \A x \in S : f[x] \in Nat, NEW T \in SUBSET S
    PROVE  SumFunctionOnSet(f, T) <= SumFunctionOnSet(f, S)
<1> DEFINE Holds == {n \in Nat : \A R \in SUBSET (S \ T) :
                        Cardinality(R) = n => SumFunctionOnSet(f, T) <= SumFunctionOnSet(f, T \cup R)}
<1>1. \A R \in SUBSET S : IsFiniteSet(R) /\ SumFunctionOnSet(f, R) \in Nat
  BY FS_Subset, SumNumber
<1>2. 0 \in Holds
  <2> SUFFICES ASSUME NEW R \in SUBSET (S \ T), Cardinality(R) = 0
               PROVE  SumFunctionOnSet(f, T) <= SumFunctionOnSet(f, T \cup R)
    OBVIOUS
  <2>1. R = {}
    BY <1>1, FS_EmptySet
  <2>2. T \cup R = T
    BY <2>1
  <2>3. SumFunctionOnSet(f, T) \in Nat
    BY <1>1
  <2> QED
    BY <2>2, <2>3
<1>3. ASSUME NEW n \in Nat, n \in Holds PROVE n + 1 \in Holds
  <2> SUFFICES ASSUME NEW R \in SUBSET (S \ T), Cardinality(R) = n + 1
               PROVE  SumFunctionOnSet(f, T) <= SumFunctionOnSet(f, T \cup R)
    OBVIOUS
  <2>1. IsFiniteSet(R)
    BY <1>1
  <2>2. R # {}
    BY FS_EmptySet
  <2>3. PICK x \in R : TRUE
    BY <2>2
  <2>4. Cardinality(R \ {x}) = n /\ R \ {x} \in SUBSET (S \ T)
    BY <2>1, SmallerSet
  <2>5. SumFunctionOnSet(f, T) <= SumFunctionOnSet(f, T \cup (R \ {x}))
    BY <1>3, <2>4
  <2>6. /\ T \cup (R \ {x}) \in SUBSET S
        /\ x \notin T \cup (R \ {x})
        /\ (T \cup (R \ {x})) \cup {x} = T \cup R
    OBVIOUS
  <2>7. SumFunctionOnSet(f, T \cup R) = f[x] + SumFunctionOnSet(f, T \cup (R \ {x}))
    <3>1. PICK U : U = T \cup (R \ {x})
      OBVIOUS
    <3>2. IsFiniteSet(U) /\ \A y \in U : f[y] \in Int
      BY <1>1, <2>6, <3>1
    <3>3. SumFunctionOnSet(f, U \cup {x}) = f[x] + SumFunctionOnSet(f, U)
      BY <2>6, <3>1, <3>2, SumAdd
    <3> QED
      BY <2>6, <3>1, <3>3
  <2>8. /\ f[x] \in Nat /\ SumFunctionOnSet(f, T) \in Nat
        /\ SumFunctionOnSet(f, T \cup (R \ {x})) \in Nat
    BY <1>1, <2>6
  <2> QED
    BY <2>5, <2>7, <2>8
<1>4. \A n \in Nat : n \in Holds
  <2> HIDE DEF Holds
  <2> QED
    BY <1>2, <1>3, NumberInduction
<1>5. Cardinality(S \ T) \in Nat
  <2>1. IsFiniteSet(S \ T)
    BY <1>1
  <2> QED
    BY <2>1, FS_CardinalityType
<1>6. T \cup (S \ T) = S
  OBVIOUS
<1> QED
  BY <1>4, <1>5, <1>6
=============================================================================
