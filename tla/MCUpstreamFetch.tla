-------------------------- MODULE MCUpstreamFetch --------------------------
(* Finite instances of UpstreamFetch for TLC. *)
EXTENDS UpstreamFetch, TLC

CONSTANTS c1, c2, c3, k1

TwoCallers   == {c1, c2}
ThreeCallers == {c1, c2, c3}
OneKey       == {k1}

OneTick   == [k \in Keys |-> 1]
OneRetry  == [k \in Keys |-> 1]
AllStale  == [k \in Keys |-> TRUE]

Callers_symmetry == Permutations(Callers)
============================================================================
