---------------------------- MODULE MCAggregator ----------------------------
(* Finite instances of Aggregator for TLC. *)
EXTENDS Aggregator

CONSTANTS r1, r2, u1

OneRequest  == {r1}
TwoRequests == {r1, r2}
OneUser     == {u1}

UserPanchang == <<"user", "panchang">>

AllCalls == Requests \X Services
AllKeys  == {<<s, u>> : s \in Services \ DateKeyed, u \in Users} \cup (DateKeyed \X Days)

OneTick  == [k \in Keys |-> 1]
NoRetry  == [k \in Keys |-> 0]
AllStale == [k \in Keys |-> TRUE]
============================================================================
