--------------------------- MODULE Selector_proofs ---------------------------
(***************************************************************************)
(* Proofs about Selector, for every registry, cost, ranking, bundle and    *)
(* budget.                                                                 *)
(***************************************************************************)
EXTENDS Selector, DataTheorems

USE RegistryAssumption, BudgetAssumption

\* A ranking is a sequence as long as the registry.
LEMMA RankingLength ==
    ASSUME NEW r \in Rankings
    PROVE  /\ Cardinality(Items) \in Nat
           /\ DOMAIN r = 1 .. Cardinality(Items)
           /\ Len(r) = Cardinality(Items)
           /\ r \in Seq(Items)
<1>1. Cardinality(Items) \in Nat
  BY FS_CardinalityType
<1>2. r \in [1 .. Cardinality(Items) -> Items]
  BY DEF Rankings
<1>3. r \in Seq(Items)
  BY <1>1, <1>2
<1> QED
  BY <1>1, <1>2, <1>3

\* What the walk has not reached yet has no bucket.
Ahead == \A n \in DOMAIN ranked : n > i => bucket[ranked[n]] = "unseen"

IInv == SelTypeOK /\ Ahead /\ BudgetSpentWell /\ OnlyCheaperOvertakes

\* A round of the loop touches the bucket of the current item only.
LEMMA VisitOne ==
    ASSUME SelTypeOK, Ahead, NEW b \in Buckets, Visit(b)
    PROVE  /\ i + 1 \in DOMAIN ranked /\ Current \in Items
           /\ bucket[Current] = "unseen"
           /\ bucket'[Current] = b
           /\ \A k \in Items : k # Current => bucket'[k] = bucket[k]
           /\ \A n \in DOMAIN ranked : n # i + 1 => ranked[n] # Current
           /\ i' = i + 1 /\ i' \in 0 .. Len(ranked)
           /\ bucket' \in [Items -> Buckets]
           /\ ranked' = ranked /\ positive' = positive /\ excluded' = excluded
           /\ failures' = failures /\ present' = present
<1>1. /\ Cardinality(Items) \in Nat /\ DOMAIN ranked = 1 .. Cardinality(Items)
      /\ Len(ranked) = Cardinality(Items)
  BY RankingLength DEF SelTypeOK
<1>2. ranked \in [DOMAIN ranked -> Items]
  BY <1>1 DEF SelTypeOK, Rankings
<1>3. i \in 0 .. Len(ranked) /\ i < Len(ranked) /\ i + 1 \in DOMAIN ranked
  BY <1>1 DEF SelTypeOK, Visit
<1>4. \A n \in DOMAIN ranked : n # i + 1 => ranked[n] # Current
  BY <1>3 DEF SelTypeOK, Rankings, Current
<1>5. bucket[Current] = "unseen"
  BY <1>3 DEF Ahead, Current, SelTypeOK
<1>6. Current \in Items
  BY <1>2, <1>3 DEF Current
<1> QED
  BY <1>3, <1>4, <1>5, <1>6 DEF SelTypeOK, Visit, planVars, bundleVars

LEMMA AheadKept ==
    ASSUME SelTypeOK, Ahead, NEW b \in Buckets, Visit(b)
    PROVE  Ahead'
<1>1. /\ ranked' = ranked /\ i' = i + 1
      /\ \A k \in Items : k # Current => bucket'[k] = bucket[k]
      /\ \A n \in DOMAIN ranked : n # i + 1 => ranked[n] # Current
  BY VisitOne
<1>2. \A n \in DOMAIN ranked : n \in Nat /\ ranked[n] \in Items
  BY RankingLength DEF SelTypeOK, Rankings
<1>3. i \in Nat
  BY RankingLength DEF SelTypeOK
<1> QED
  BY <1>1, <1>2, <1>3 DEF Ahead

LEMMA InitIInv == Init => IInv
<1> SUFFICES ASSUME Init PROVE IInv
  OBVIOUS
<1>1. /\ Cardinality(Items) \in Nat /\ DOMAIN ranked = 1 .. Cardinality(Items)
      /\ Len(ranked) = Cardinality(Items)
  BY RankingLength DEF Init
<1>2. positive \subseteq Items
  BY <1>1 DEF Init, Rankings
<1>3. SelTypeOK
  BY <1>1, <1>2 DEF Init, StartWalk, SelTypeOK, Buckets
<1>4. \A n \in DOMAIN ranked : ranked[n] \in Items
  BY DEF Init, Rankings
<1> QED
  BY <1>3, <1>4 DEF IInv, Init, StartWalk, Ahead, BudgetSpentWell,
                    OnlyCheaperOvertakes, InBucket

\* A round that selects nothing and drops nothing keeps the invariant.
LEMMA PassOver ==
    ASSUME IInv, NEW b \in {"excluded", "skipped", "unavailable"}, Visit(b),
           tokens_used' = tokens_used
    PROVE  IInv'
<1> USE DEF IInv
<1>0. b \in Buckets
  BY DEF Buckets
<1>1. SelTypeOK'
  BY <1>0, VisitOne DEF SelTypeOK
<1>2. Ahead'
  BY <1>0, AheadKept
<1>3. BudgetSpentWell'
  BY <1>0, VisitOne DEF BudgetSpentWell, InBucket
<1>4. \A n \in DOMAIN ranked : ranked[n] \in Items
  BY DEF SelTypeOK, Rankings
<1>5. OnlyCheaperOvertakes'
  BY <1>0, <1>4, VisitOne DEF OnlyCheaperOvertakes
<1> QED
  BY <1>1, <1>2, <1>3, <1>5

LEMMA DropKeeps == IInv /\ DropForBudget => IInv'
<1> SUFFICES ASSUME IInv, DropForBudget PROVE IInv'
  OBVIOUS
<1> USE DEF IInv
<1>0. Visit("dropped") /\ "dropped" \in Buckets /\ tokens_used' = tokens_used
  BY DEF DropForBudget, Buckets
<1>1. SelTypeOK'
  BY <1>0, VisitOne DEF SelTypeOK
<1>2. Ahead'
  BY <1>0, AheadKept
<1>3. BudgetSpentWell'
  BY <1>0, VisitOne DEF BudgetSpentWell, InBucket, DropForBudget
<1>4. \A n \in DOMAIN ranked : ranked[n] \in Items
  BY DEF SelTypeOK, Rankings
\* Whatever is ranked after the dropped item has not been selected yet.
<1>5. OnlyCheaperOvertakes'
  <2> SUFFICES ASSUME NEW m \in DOMAIN ranked, NEW n \in DOMAIN ranked, m < n,
                      bucket'[ranked[m]] = "dropped", bucket'[ranked[n]] = "selected"
               PROVE  TokenCost[ranked[n]] < TokenCost[ranked[m]]
    BY <1>0, VisitOne DEF OnlyCheaperOvertakes
  <2>1. n # i + 1 /\ bucket[ranked[n]] = "selected"
    BY <1>0, <1>4, VisitOne DEF Current
  <2>2. n <= i
    BY <2>1 DEF Ahead, SelTypeOK, Rankings
  <2>3. m # i + 1
    BY <2>2 DEF SelTypeOK, Rankings
  <2>4. bucket[ranked[m]] = "dropped"
    BY <1>0, <1>4, <2>3, VisitOne
  <2> QED
    BY <2>1, <2>4 DEF OnlyCheaperOvertakes
<1> QED
  BY <1>1, <1>2, <1>3, <1>5

LEMMA SelectKeeps == IInv /\ Select => IInv'
<1> SUFFICES ASSUME IInv, Select PROVE IInv'
  OBVIOUS
<1> USE DEF IInv
<1>0. Visit("selected") /\ "selected" \in Buckets
  BY DEF Select, Buckets
<1>1. TokenCost[Current] \in Nat /\ tokens_used \in Nat
  BY <1>0, VisitOne DEF SelTypeOK
<1>2. SelTypeOK'
  BY <1>0, <1>1, VisitOne DEF SelTypeOK, Select
<1>3. Ahead'
  BY <1>0, AheadKept
<1>4. BudgetSpentWell'
  <2> SUFFICES ASSUME NEW k \in InBucket("dropped")'
               PROVE  tokens_used' + TokenCost[k] > Budget
    BY DEF BudgetSpentWell, Select
  <2>1. k \in InBucket("dropped")
    BY <1>0, VisitOne DEF InBucket
  <2>2. TokenCost[k] \in Nat
    BY <2>1 DEF InBucket
  <2> QED
    BY <1>1, <2>1, <2>2 DEF BudgetSpentWell, Select
<1>5. \A n \in DOMAIN ranked : ranked[n] \in Items
  BY DEF SelTypeOK, Rankings
\* The selected item fits where the items dropped before it do not.
<1>6. OnlyCheaperOvertakes'
  <2> SUFFICES ASSUME NEW m \in DOMAIN ranked, NEW n \in DOMAIN ranked, m < n,
                      bucket'[ranked[m]] = "dropped", bucket'[ranked[n]] = "selected"
               PROVE  TokenCost[ranked[n]] < TokenCost[ranked[m]]
    BY <1>0, VisitOne DEF OnlyCheaperOvertakes
  <2>1. m # i + 1 /\ bucket[ranked[m]] = "dropped"
    BY <1>0, <1>5, VisitOne DEF Current
  <2>2. CASE n = i + 1
    <3>1. tokens_used + TokenCost[ranked[m]] > Budget
      BY <1>5, <2>1 DEF BudgetSpentWell, InBucket
    <3>2. tokens_used + TokenCost[ranked[n]] <= Budget
      BY <2>2 DEF Select, Current
    <3>3. TokenCost[ranked[m]] \in Nat /\ TokenCost[ranked[n]] \in Nat
      BY <1>5
    <3> QED
      BY <1>1, <3>1, <3>2, <3>3
  <2>3. CASE n # i + 1
    <3>1. bucket[ranked[n]] = "selected"
      BY <1>0, <1>5, <2>3, VisitOne
    <3> QED
      BY <2>1, <3>1 DEF OnlyCheaperOvertakes
  <2> QED
    BY <2>2, <2>3
<1> QED
  BY <1>2, <1>3, <1>4, <1>6

LEMMA WalkKeeps == IInv /\ [Walk]_selVars => IInv'
<1>1. IInv /\ SetAside => IInv'
  BY PassOver DEF SetAside
<1>2. IInv /\ Skip => IInv'
  BY PassOver DEF Skip
<1>3. IInv /\ MarkUnavailable => IInv'
  BY PassOver DEF MarkUnavailable
<1>4. IInv /\ UNCHANGED selVars => IInv'
  BY DEF IInv, selVars, planVars, bundleVars, walkVars, SelTypeOK, Ahead,
         BudgetSpentWell, OnlyCheaperOvertakes, InBucket
<1> QED
  BY <1>1, <1>2, <1>3, <1>4, DropKeeps, SelectKeeps DEF Walk

LEMMA SelInvariance == Spec => []IInv
  BY WalkKeeps, InitIInv, PTL DEF Spec

\* The walk keeps its types, and never leaves the ranking (selector.py).
THEOREM SelectorTypeCorrect == Spec => []SelTypeOK
<1>1. IInv => SelTypeOK
  BY DEF IInv
<1> QED
  BY <1>1, SelInvariance, PTL

\* resolve() never overspends the token budget, and never drops an item that
\* would still fit when the walk is over.
THEOREM BudgetTheorem == Spec => []BudgetSpentWell
<1>1. IInv => BudgetSpentWell
  BY DEF IInv
<1> QED
  BY <1>1, SelInvariance, PTL

\* Only a strictly cheaper item is selected after a better ranked one was
\* dropped for the budget.
THEOREM OvertakingTheorem == Spec => []OnlyCheaperOvertakes
<1>1. IInv => OnlyCheaperOvertakes
  BY DEF IInv
<1> QED
  BY <1>1, SelInvariance, PTL

-----------------------------------------------------------------------------
(* The walk is greedy.                                                      *)

\* What has a bucket has been visited.
Behind == \A k \in Items : bucket[k] # "unseen" => \E m \in 1 .. i : ranked[m] = k

GreedyInv == IInv /\ Behind /\ GreedyByRank

\* A round changes no sum of the rounds before it, and what is selected before
\* the current item is all that is selected so far.
LEMMA SelectedSoFar ==
    ASSUME GreedyInv, NEW b \in Buckets, Visit(b)
    PROVE  /\ i \in Nat /\ i + 1 \in DOMAIN ranked /\ 1 .. i \subseteq DOMAIN ranked
           /\ Behind'
           /\ \A n \in 1 .. i : SelectedBefore(n)' = SelectedBefore(n)
           /\ \A n \in Nat : n = i + 1 => SelectedBefore(n)' = InBucket("selected")
           /\ IsFiniteSet(InBucket("selected")) /\ Current \notin InBucket("selected")
           /\ InBucket("selected")' = IF b = "selected" THEN InBucket("selected") \cup {Current}
                                      ELSE InBucket("selected")
<1> USE DEF GreedyInv, IInv
<1>1. /\ Cardinality(Items) \in Nat /\ DOMAIN ranked = 1 .. Cardinality(Items)
      /\ Len(ranked) = Cardinality(Items)
  BY RankingLength DEF SelTypeOK
<1>2. /\ i + 1 \in DOMAIN ranked /\ Current \in Items
      /\ bucket[Current] = "unseen" /\ bucket'[Current] = b
      /\ \A k \in Items : k # Current => bucket'[k] = bucket[k]
      /\ \A n \in DOMAIN ranked : n # i + 1 => ranked[n] # Current
      /\ i' = i + 1 /\ ranked' = ranked
  BY VisitOne
<1>3. i \in Nat /\ 1 .. i \subseteq DOMAIN ranked
  BY <1>1, <1>2 DEF SelTypeOK
<1>4. \A n \in DOMAIN ranked : ranked[n] \in Items
  BY DEF SelTypeOK, Rankings
<1>5. Behind'
  <2> SUFFICES ASSUME NEW k \in Items, bucket'[k] # "unseen"
               PROVE  \E m \in 1 .. i + 1 : ranked[m] = k
    BY <1>2 DEF Behind
  <2>1. CASE k = Current
    BY <1>3, <2>1 DEF Current
  <2>2. CASE k # Current
    <3>1. PICK m \in 1 .. i : ranked[m] = k
      BY <1>2, <2>2 DEF Behind
    <3> QED
      BY <1>3, <3>1
  <2> QED
    BY <2>1, <2>2
<1>6. InBucket("selected")' = IF b = "selected" THEN InBucket("selected") \cup {Current}
                              ELSE InBucket("selected")
  BY <1>2 DEF InBucket
<1>7. \A m \in 1 .. i : ranked[m] \in InBucket("selected")' <=> ranked[m] \in InBucket("selected")
  BY <1>2, <1>3, <1>4 DEF InBucket
<1>8. ASSUME NEW n \in 1 .. i PROVE SelectedBefore(n)' = SelectedBefore(n)
  <2>1. 1 .. n - 1 \subseteq 1 .. i
    BY <1>3
  <2> QED
    BY <1>2, <1>7, <2>1 DEF SelectedBefore
<1>9. InBucket("selected") \subseteq {ranked[m] : m \in 1 .. i}
  BY DEF Behind, InBucket
<1>10. ASSUME NEW n \in Nat, n = i + 1 PROVE SelectedBefore(n)' = InBucket("selected")
  <2>1. SelectedBefore(n)' = {ranked[m] : m \in 1 .. i} \cap InBucket("selected")'
    BY <1>2, <1>3, <1>10 DEF SelectedBefore
  <2> QED
    BY <1>7, <1>9, <2>1
<1>11. IsFiniteSet(InBucket("selected"))
  BY FS_Subset DEF InBucket
<1>12. Current \notin InBucket("selected")
  BY <1>2 DEF InBucket
<1> QED
  BY <1>2, <1>3, <1>5, <1>6, <1>8, <1>10, <1>11, <1>12

\* A round that decides the current item by the rule keeps the rule.
LEMMA GreedyRound ==
    ASSUME GreedyInv, NEW b \in Buckets, Visit(b),
           tokens_used' = IF b = "selected" THEN tokens_used + TokenCost[Current]
                          ELSE tokens_used,
           b = "selected" <=> /\ Current \in positive \ excluded
                              /\ HasValue(Current)
                              /\ tokens_used + TokenCost[Current] <= Budget
    PROVE  Behind' /\ GreedyByRank'
<1>1. /\ Current \in Items
      /\ bucket'[Current] = b
      /\ \A k \in Items : k # Current => bucket'[k] = bucket[k]
      /\ \A n \in DOMAIN ranked : n # i + 1 => ranked[n] # Current
      /\ i' = i + 1 /\ ranked' = ranked /\ positive' = positive /\ excluded' = excluded
      /\ failures' = failures /\ present' = present
  BY VisitOne DEF GreedyInv, IInv
<1>2. /\ i \in Nat /\ i + 1 \in DOMAIN ranked /\ 1 .. i \subseteq DOMAIN ranked
      /\ Behind'
      /\ \A n \in 1 .. i : SelectedBefore(n)' = SelectedBefore(n)
      /\ \A n \in Nat : n = i + 1 => SelectedBefore(n)' = InBucket("selected")
      /\ IsFiniteSet(InBucket("selected")) /\ Current \notin InBucket("selected")
      /\ InBucket("selected")' = IF b = "selected" THEN InBucket("selected") \cup {Current}
                                 ELSE InBucket("selected")
  BY SelectedSoFar
<1>3. \A n \in DOMAIN ranked : ranked[n] \in Items
  BY DEF GreedyInv, IInv, SelTypeOK, Rankings
<1>4. tokens_used = Cost(InBucket("selected"))
  BY DEF GreedyInv, GreedyByRank
<1>5. tokens_used' = Cost(InBucket("selected"))'
  <2>1. CASE b = "selected"
    <3>1. \A k \in Items : TokenCost[k] \in Int
      OBVIOUS
    <3>2. \A k \in InBucket("selected") : TokenCost[k] \in Int
      BY <3>1 DEF InBucket
    <3>3. Cost(InBucket("selected") \cup {Current}) = TokenCost[Current] + Cost(InBucket("selected"))
      BY <1>1, <1>2, <3>1, <3>2, SumAdd DEF Cost
    <3>4. tokens_used \in Int /\ TokenCost[Current] \in Int
      BY <1>1, <3>1 DEF GreedyInv, IInv, SelTypeOK
    <3> QED
      BY <1>2, <1>4, <2>1, <3>3, <3>4 DEF Cost
  <2>2. CASE b # "selected"
    BY <1>2, <1>4, <2>2 DEF Cost
  <2> QED
    BY <2>1, <2>2
<1>6. \A k : HasValue(k)' <=> HasValue(k)
  BY <1>1 DEF HasValue
<1>7. ASSUME NEW n \in 1 .. i
      PROVE  bucket'[ranked[n]] = "selected" <=>
                /\ ranked[n] \in positive \ excluded
                /\ HasValue(ranked[n])
                /\ Cost(SelectedBefore(n))' + TokenCost[ranked[n]] <= Budget
  <2>1. bucket'[ranked[n]] = bucket[ranked[n]]
    BY <1>1, <1>2, <1>3
  <2>2. Cost(SelectedBefore(n))' = Cost(SelectedBefore(n))
    BY <1>2 DEF Cost
  <2>3. bucket[ranked[n]] = "selected" <=>
                /\ ranked[n] \in positive \ excluded
                /\ HasValue(ranked[n])
                /\ Cost(SelectedBefore(n)) + TokenCost[ranked[n]] <= Budget
    BY DEF GreedyInv, GreedyByRank
  <2> QED
    BY <2>1, <2>2, <2>3
<1>8. \A n \in Nat : n = i + 1 => Cost(SelectedBefore(n))' = tokens_used
  BY <1>2, <1>4 DEF Cost
<1>9. ASSUME NEW n \in Nat, n = i + 1
      PROVE  bucket'[ranked[n]] = "selected" <=>
                /\ ranked[n] \in positive \ excluded
                /\ HasValue(ranked[n])
                /\ Cost(SelectedBefore(n))' + TokenCost[ranked[n]] <= Budget
  BY <1>1, <1>8, <1>9 DEF Current
<1>10. 1 .. i' = 1 .. i \cup {i + 1}
  BY <1>1, <1>2
<1>11. ASSUME NEW n \in 1 .. i'
       PROVE  bucket'[ranked'[n]] = "selected" <=>
                /\ ranked'[n] \in positive' \ excluded'
                /\ HasValue(ranked[n])'
                /\ Cost(SelectedBefore(n))' + TokenCost[ranked'[n]] <= Budget
  <2>1. CASE n \in 1 .. i
    BY <1>1, <1>6, <1>7, <2>1
  <2>2. CASE n = i + 1
    BY <1>1, <1>2, <1>6, <1>9, <2>2
  <2> QED
    BY <1>10, <2>1, <2>2
<1> QED
  BY <1>2, <1>5, <1>11 DEF GreedyByRank, HasValue

LEMMA GreedyStep ==
    ASSUME GreedyInv, [Walk]_selVars, IInv'
    PROVE  GreedyInv'
<1>1. {"excluded", "skipped", "unavailable", "dropped", "selected"} \subseteq Buckets
  BY DEF Buckets
<1>2. CASE SetAside
  <2>1. Visit("excluded") /\ Current \in excluded /\ tokens_used' = tokens_used
    BY <1>2 DEF SetAside
  <2> QED
    BY <1>1, <2>1, GreedyRound DEF GreedyInv
<1>3. CASE Skip
  <2>1. Visit("skipped") /\ Current \notin positive /\ tokens_used' = tokens_used
    BY <1>3 DEF Skip
  <2> QED
    BY <1>1, <2>1, GreedyRound DEF GreedyInv
<1>4. CASE MarkUnavailable
  <2>1. Visit("unavailable") /\ ~HasValue(Current) /\ tokens_used' = tokens_used
    BY <1>4 DEF MarkUnavailable
  <2> QED
    BY <1>1, <2>1, GreedyRound DEF GreedyInv
<1>5. CASE DropForBudget
  <2>1. /\ Visit("dropped") /\ tokens_used' = tokens_used
        /\ tokens_used + TokenCost[Current] > Budget
    BY <1>5 DEF DropForBudget
  <2>2. Current \in Items
    BY <1>1, <2>1, VisitOne DEF GreedyInv, IInv
  <2>3. ~(tokens_used + TokenCost[Current] <= Budget)
    BY <2>1, <2>2 DEF GreedyInv, IInv, SelTypeOK
  <2> QED
    BY <1>1, <2>1, <2>3, GreedyRound DEF GreedyInv
<1>6. CASE Select
  <2>1. /\ Visit("selected") /\ Candidate /\ HasValue(Current)
        /\ tokens_used + TokenCost[Current] <= Budget
        /\ tokens_used' = tokens_used + TokenCost[Current]
    BY <1>6 DEF Select
  <2> QED
    BY <1>1, <2>1, GreedyRound DEF GreedyInv, Candidate
<1>7. CASE UNCHANGED selVars
  BY <1>7 DEF GreedyInv, Behind, GreedyByRank, SelectedBefore, InBucket, HasValue, Cost,
              selVars, planVars, bundleVars, walkVars
<1> QED
  BY <1>2, <1>3, <1>4, <1>5, <1>6, <1>7 DEF Walk

\* A walk that has not begun keeps the books trivially.
LEMMA GreedyStart ==
    ASSUME StartWalk, IInv
    PROVE  GreedyInv
<1>1. InBucket("selected") = {}
  BY DEF StartWalk, InBucket
<1>2. tokens_used = Cost(InBucket("selected"))
  BY <1>1, SumOfNothing DEF Cost, StartWalk
<1>3. 1 .. i = {}
  BY DEF StartWalk
<1> QED
  BY <1>2, <1>3 DEF GreedyInv, Behind, GreedyByRank, StartWalk

\* The walk is greedy in the order of the ranking: the tokens used are those of
\* the selected items, and an item is selected exactly if it is wanted, real, and
\* fits after the items selected before it (resolve).
THEOREM GreedyTheorem == Spec => []GreedyByRank
<1>1. Init => GreedyInv
  BY InitIInv, GreedyStart DEF Init
<1>2. GreedyInv /\ [Walk]_selVars => GreedyInv'
  <2>1. IInv /\ [Walk]_selVars => IInv'
    BY WalkKeeps
  <2> QED
    BY <2>1, GreedyStep DEF GreedyInv
<1>3. GreedyInv => GreedyByRank
  BY DEF GreedyInv
<1> QED
  BY <1>1, <1>2, <1>3, PTL DEF Spec

-----------------------------------------------------------------------------
(* The lists that the walk returns.                                         *)

Filtered(seq, S, u, n) ==
    IF n = 0 THEN <<>> ELSE IF seq[n] \in S THEN Append(u[n - 1], seq[n]) ELSE u[n - 1]

\* The recursion that defines Among has a solution.
LEMMA AmongExists ==
    ASSUME NEW seq, NEW S, NEW L \in Nat
    PROVE  \E u : u = [n \in 0 .. L |-> Filtered(seq, S, u, n)]
<1> DEFINE P == {m \in Nat : \E u : u = [n \in 0 .. m |-> Filtered(seq, S, u, n)]}
<1>1. 0 \in P
  <2> DEFINE u == [n \in 0 .. 0 |-> <<>>]
  <2>1. u = [n \in 0 .. 0 |-> Filtered(seq, S, u, n)]
    BY DEF Filtered
  <2> QED
    BY <2>1
<1>2. ASSUME NEW m \in Nat, m \in P PROVE m + 1 \in P
  <2>1. PICK u : u = [n \in 0 .. m |-> Filtered(seq, S, u, n)]
    BY <1>2
  <2> DEFINE v == [n \in 0 .. m + 1 |-> Filtered(seq, S, u, n)]
  <2>2. \A n \in 0 .. m : v[n] = u[n]
    BY <2>1
  <2>3. \A n \in 0 .. m + 1 : n = 0 \/ n - 1 \in 0 .. m
    OBVIOUS
  <2>4. \A n \in 0 .. m + 1 : Filtered(seq, S, v, n) = Filtered(seq, S, u, n)
    <3> HIDE DEF v
    <3> QED
      BY <2>2, <2>3 DEF Filtered
  <2>5. v = [n \in 0 .. m + 1 |-> Filtered(seq, S, v, n)]
    BY <2>4
  <2> HIDE DEF v
  <2> QED
    BY <2>5
<1>3. \A m \in Nat : m \in P
  <2> HIDE DEF P
  <2> QED
    BY <1>1, <1>2, NumberInduction
<1> QED
  BY <1>3

LEMMA AmongUnfolds ==
    ASSUME NEW seq, NEW S, Len(seq) \in Nat
    PROVE  \E u : /\ Among(seq, S) = u[Len(seq)]
                  /\ \A n \in 0 .. Len(seq) : u[n] = Filtered(seq, S, u, n)
<1> DEFINE T(u) == u = [n \in 0 .. Len(seq) |-> Filtered(seq, S, u, n)]
<1>1. Among(seq, S) = (CHOOSE u : T(u))[Len(seq)]
  BY DEF Among, Filtered
<1>2. \E u : T(u)
  BY AmongExists
<1>3. T(CHOOSE u : T(u))
  <2> HIDE DEF T
  <2> QED
    BY <1>2
<1> QED
  BY <1>1, <1>3

\* What is among S is in S, and a sequence of elements of S is left as it is.
LEMMA AmongIsIn ==
    ASSUME NEW S, NEW T, NEW seq \in Seq(T)
    PROVE  Among(seq, S) \in Seq(S \cap T)
<1>1. PICK u : /\ Among(seq, S) = u[Len(seq)]
               /\ \A n \in 0 .. Len(seq) : u[n] = Filtered(seq, S, u, n)
  BY AmongUnfolds
<1> DEFINE P == {m \in Nat : m <= Len(seq) => u[m] \in Seq(S \cap T)}
<1>2. 0 \in P
  <2>1. u[0] = <<>>
    BY <1>1 DEF Filtered
  <2>2. u[0] \in Seq(S \cap T)
    BY <2>1
  <2> QED
    BY <2>2
<1>3. ASSUME NEW m \in Nat, m \in P PROVE m + 1 \in P
  <2> SUFFICES ASSUME m + 1 <= Len(seq) PROVE u[m + 1] \in Seq(S \cap T)
    OBVIOUS
  <2>1. u[m] \in Seq(S \cap T) /\ seq[m + 1] \in T
    BY <1>3
  <2>2. u[m + 1] = IF seq[m + 1] \in S THEN Append(u[m], seq[m + 1]) ELSE u[m]
    BY <1>1 DEF Filtered
  <2> QED
    BY <2>1, <2>2
<1>4. \A m \in Nat : m \in P
  <2> HIDE DEF P
  <2> QED
    BY <1>2, <1>3, NumberInduction
<1> QED
  BY <1>1, <1>4

LEMMA AmongAll ==
    ASSUME NEW S, NEW seq \in Seq(S)
    PROVE  Among(seq, S) = seq
<1>1. PICK u : /\ Among(seq, S) = u[Len(seq)]
               /\ \A n \in 0 .. Len(seq) : u[n] = Filtered(seq, S, u, n)
  BY AmongUnfolds
<1> DEFINE P == {m \in Nat : m <= Len(seq) => u[m] = SubSeq(seq, 1, m)}
<1>2. 0 \in P
  <2>1. u[0] = <<>>
    BY <1>1 DEF Filtered
  <2>2. SubSeq(seq, 1, 0) = <<>>
    OBVIOUS
  <2>3. u[0] = SubSeq(seq, 1, 0)
    BY <2>1, <2>2
  <2> QED
    BY <2>3
<1>3. ASSUME NEW m \in Nat, m \in P PROVE m + 1 \in P
  <2> SUFFICES ASSUME m + 1 <= Len(seq) PROVE u[m + 1] = SubSeq(seq, 1, m + 1)
    OBVIOUS
  <2>1. u[m] = SubSeq(seq, 1, m) /\ seq[m + 1] \in S
    BY <1>3
  <2>2. u[m + 1] = Append(u[m], seq[m + 1])
    <3>1. m + 1 \in 0 .. Len(seq) /\ m + 1 # 0 /\ (m + 1) - 1 = m
      OBVIOUS
    <3> QED
      BY <1>1, <2>1, <3>1 DEF Filtered
  <2> QED
    BY <2>1, <2>2
<1>4. \A m \in Nat : m \in P
  <2> HIDE DEF P
  <2> QED
    BY <1>2, <1>3, NumberInduction
<1> QED
  BY <1>1, <1>4

\* What was selected is wanted, and was delivered by a healthy service.
LEMMA SelectedIsReal ==
    ASSUME GreedyInv
    PROVE  /\ Listed("selected") \in Seq(InBucket("selected"))
           /\ \A k \in InBucket("selected") : k \in positive \ excluded /\ HasValue(k)
<1>1. ranked \in Seq(Items)
  BY RankingLength DEF GreedyInv, IInv, SelTypeOK, Rankings
<1>2. Listed("selected") \in Seq(InBucket("selected"))
  <2>1. InBucket("selected") \cap Items = InBucket("selected")
    BY DEF InBucket
  <2> QED
    BY <1>1, <2>1, AmongIsIn DEF Listed
<1>3. ASSUME NEW k \in InBucket("selected")
      PROVE  k \in positive \ excluded /\ HasValue(k)
  <2>1. PICK m \in 1 .. i : ranked[m] = k
    BY DEF GreedyInv, Behind, InBucket
  <2> QED
    BY <2>1 DEF GreedyInv, GreedyByRank, InBucket
<1> QED
  BY <1>2, <1>3

\* An item that was wanted and real is only passed over for a cheaper one.
LEMMA PassedOver ==
    ASSUME GreedyInv, NEW m \in 1 .. i, NEW n \in 1 .. i, m < n,
           bucket[ranked[n]] = "selected", bucket[ranked[m]] # "selected",
           ranked[m] \in positive \ excluded, HasValue(ranked[m])
    PROVE  TokenCost[ranked[m]] > TokenCost[ranked[n]]
<1>1. IsFiniteSet(SelectedBefore(n)) /\ \A k \in SelectedBefore(n) : TokenCost[k] \in Nat
  <2>1. SelectedBefore(n) \subseteq Items
    BY DEF SelectedBefore, InBucket
  <2> QED
    BY <2>1, FS_Subset
<1>2. SelectedBefore(m) \in SUBSET SelectedBefore(n)
  <2>1. 1 .. m - 1 \subseteq 1 .. n - 1
    OBVIOUS
  <2> QED
    BY <2>1 DEF SelectedBefore
<1>3. Cost(SelectedBefore(m)) <= Cost(SelectedBefore(n))
  BY <1>1, <1>2, SumOfPart DEF Cost
<1>4. Cost(SelectedBefore(m)) \in Int /\ Cost(SelectedBefore(n)) \in Int
  <2>1. /\ IsFiniteSet(SelectedBefore(m))
        /\ \A k \in SelectedBefore(m) : TokenCost[k] \in Nat
    BY <1>1, <1>2, FS_Subset
  <2>2. Cost(SelectedBefore(m)) \in Nat /\ Cost(SelectedBefore(n)) \in Nat
    BY <1>1, <2>1, SumNumber DEF Cost
  <2> QED
    BY <2>2
<1>5. ranked[m] \in Items /\ ranked[n] \in Items
  <2>1. DOMAIN ranked = 1 .. Len(ranked) /\ i \in 0 .. Len(ranked) /\ Len(ranked) \in Nat
    BY RankingLength DEF GreedyInv, IInv, SelTypeOK
  <2>2. m \in DOMAIN ranked /\ n \in DOMAIN ranked
    BY <2>1
  <2> QED
    BY <2>2 DEF GreedyInv, IInv, SelTypeOK, Rankings
<1>6. /\ Cost(SelectedBefore(n)) + TokenCost[ranked[n]] <= Budget
      /\ ~(Cost(SelectedBefore(m)) + TokenCost[ranked[m]] <= Budget)
  BY DEF GreedyInv, GreedyByRank
<1>7. TokenCost[ranked[m]] \in Int /\ TokenCost[ranked[n]] \in Int /\ Budget \in Int
  BY <1>5
<1> QED
  BY <1>3, <1>4, <1>6, <1>7
=============================================================================
