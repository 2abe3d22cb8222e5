------------------------------ MODULE Selector ------------------------------
(***************************************************************************)
(* Phase 2 of personalization, app/engine/selector.py: resolve() walks the *)
(* plan's ranking once and sorts every candidate into a bucket, spending a *)
(* token budget on those it selects.                                       *)
(*                                                                         *)
(* The code appends to five lists while it walks the ranking.  Here bucket *)
(* maps each item to the list it went to; the lists are recovered, in      *)
(* ranking order, by Listed.                                               *)
(***************************************************************************)
EXTENDS Registry, Functions

CONSTANT Budget \* settings.context_token_budget

\* A negative budget is not a configuration anyone runs.
ASSUME BudgetAssumption == Budget \in Nat

VARIABLES
    ranked,      \* plan.ranked, the keys only
    positive,    \* the keys whose score is above zero
    excluded,    \* plan.excluded
    failures,    \* bundle.failures: services without a payload
    present,     \* the items whose extractor finds a value in the payload
    i,           \* the walk has dealt with ranked[1 .. i]
    bucket,      \* where each item went
    tokens_used

planVars   == <<ranked, positive, excluded>>
bundleVars == <<failures, present>>
walkVars   == <<i, bucket, tokens_used>>
selVars    == <<planVars, bundleVars, walkVars>>

Buckets == {"unseen", "excluded", "skipped", "unavailable", "dropped", "selected"}

\* A ranking lists every registry item once.
Rankings == {r \in [1 .. Cardinality(Items) -> Items] :
                \A m, n \in DOMAIN r : r[m] = r[n] => m = n}

SelTypeOK ==
    /\ ranked \in Rankings
    /\ positive \subseteq Items
    /\ excluded \subseteq Items \ positive
    /\ failures \subseteq Services
    /\ present \subseteq Items
    /\ i \in 0 .. Len(ranked)
    /\ bucket \in [Items -> Buckets]
    /\ tokens_used \in Nat

StartWalk ==
    /\ i = 0
    /\ bucket = [k \in Items |-> "unseen"]
    /\ tokens_used = 0

-----------------------------------------------------------------------------
(* One round of the loop per action: what happens to the item at hand.      *)

Current == ranked[i + 1]

Visit(b) ==
    /\ i < Len(ranked)
    /\ i' = i + 1
    /\ bucket' = [bucket EXCEPT ![Current] = b]
    /\ UNCHANGED <<planVars, bundleVars>>

\* An explicit rule exclusion is reported; an item that never scored is not.
SetAside ==
    /\ Visit("excluded")
    /\ Current \in excluded
    /\ UNCHANGED tokens_used

Skip ==
    /\ Visit("skipped")
    /\ Current \notin excluded
    /\ Current \notin positive
    /\ UNCHANGED tokens_used

\* Mutant of Candidate: an item that never scored is taken along.
CandidateUnscored == Current \notin excluded

Candidate == Current \notin excluded /\ Current \in positive

\* The service failed, or its payload lacks this slice.
HasValue(k) == ServiceOf[k] \notin failures /\ k \in present

MarkUnavailable ==
    /\ Visit("unavailable")
    /\ Candidate
    /\ ~HasValue(Current)
    /\ UNCHANGED tokens_used

\* Mutant of DropForBudget: an item that fits exactly is dropped.
DropExactFit ==
    /\ Visit("dropped")
    /\ Candidate
    /\ HasValue(Current)
    /\ tokens_used + TokenCost[Current] >= Budget
    /\ UNCHANGED tokens_used

\* Relevant and real, but it does not fit; the walk goes on.
DropForBudget ==
    /\ Visit("dropped")
    /\ Candidate
    /\ HasValue(Current)
    /\ tokens_used + TokenCost[Current] > Budget
    /\ UNCHANGED tokens_used

\* Mutant of Select: the item alone is held against the budget.
SelectAgainstWholeBudget ==
    /\ Visit("selected")
    /\ Candidate
    /\ HasValue(Current)
    /\ TokenCost[Current] <= Budget
    /\ tokens_used' = tokens_used + TokenCost[Current]

Select ==
    /\ Visit("selected")
    /\ Candidate
    /\ HasValue(Current)
    /\ tokens_used + TokenCost[Current] <= Budget
    /\ tokens_used' = tokens_used + TokenCost[Current]

Walk == SetAside \/ Skip \/ MarkUnavailable \/ DropForBudget \/ Select

\* ResolvedContext: each list holds its keys in ranking order.
InBucket(b) == {k \in Items : bucket[k] = b}
Listed(b) == Among(ranked, InBucket(b))
Resolved == i = Len(ranked)

-----------------------------------------------------------------------------
(* resolve() on its own: any plan of the planner against any bundle.        *)

\* Scores descend, so the positive keys come first in the ranking.
Init ==
    /\ ranked \in Rankings
    /\ \E n \in 0 .. Len(ranked) : positive = {ranked[m] : m \in 1 .. n}
    /\ excluded \in SUBSET (Items \ positive)
    /\ failures \in SUBSET Services
    /\ present \in SUBSET Items
    /\ StartWalk

Spec == Init /\ [][Walk]_selVars

\* The budget is never overspent, and nothing that was dropped would fit in
\* what the whole walk left over: the tail of the budget is not wasted.
BudgetSpentWell ==
    /\ tokens_used <= Budget
    /\ \A k \in InBucket("dropped") : tokens_used + TokenCost[k] > Budget

\* An item can only overtake a better ranked one that was dropped by being
\* strictly cheaper than it.
OnlyCheaperOvertakes ==
    \A m, n \in DOMAIN ranked :
        m < n /\ bucket[ranked[m]] = "dropped" /\ bucket[ranked[n]] = "selected"
            => TokenCost[ranked[n]] < TokenCost[ranked[m]]

\* tokens_used is the cost of what was selected, and an item was selected
\* exactly if it fitted after the items selected before it.
Cost(S) == SumFunctionOnSet(TokenCost, S)
SelectedBefore(n) == {ranked[m] : m \in 1 .. n - 1} \cap InBucket("selected")
GreedyByRank ==
    /\ tokens_used = Cost(InBucket("selected"))
    /\ \A n \in 1 .. i :
          LET k == ranked[n]
          IN  bucket[k] = "selected" <=>
                /\ k \in positive \ excluded
                /\ HasValue(k)
                /\ Cost(SelectedBefore(n)) + TokenCost[k] <= Budget
=============================================================================
