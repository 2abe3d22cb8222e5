------------------------------ MODULE Registry ------------------------------
(***************************************************************************)
(* The context registry, app/engine/registry.py: the slices of upstream    *)
(* data that may reach the prompt.  Extractors and renderers are reduced   *)
(* to what the engine depends on: the service an item comes from and the   *)
(* fixed token cost computed at import time from a sample value.           *)
(***************************************************************************)
EXTENDS Integers, Sequences, FiniteSets

CONSTANTS
    Items,     \* the keys of REGISTRY
    TokenCost, \* item.token_cost
    ServiceOf  \* item.service

Services == {ServiceOf[k] : k \in Items}

\* _cost is max(1, ...).
ASSUME RegistryAssumption ==
    /\ IsFiniteSet(Items)
    /\ TokenCost \in [Items -> Nat \ {0}]

\* The elements of a sequence that are in S, in their order: a list that a loop
\* over the sequence has appended them to.
Among(seq, S) ==
    LET upto[n \in 0 .. Len(seq)] ==
            IF n = 0 THEN <<>>
            ELSE IF seq[n] \in S THEN Append(upto[n - 1], seq[n])
            ELSE upto[n - 1]
    IN  upto[Len(seq)]
=============================================================================
