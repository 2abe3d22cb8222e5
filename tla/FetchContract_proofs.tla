------------------------ MODULE FetchContract_proofs ------------------------
(***************************************************************************)
(* UpstreamFetch implements FetchContract, for any callers, keys and       *)
(* policies: every step of the cache, the client and their environment is  *)
(* a step of the contract, or one a caller cannot see.                     *)
(***************************************************************************)
EXTENDS UpstreamFetch_proofs

USE CallersAssumption, PolicyAssumption, FaultsAssumption, NoneAssumption

\* No payload is delivered before it was received.
DeliveredByNow ==
    \A c \in Callers : pc[c] = "woken" /\ outcome[c].exc = "none" => outcome[c].value <= now

LEMMA DeliveredStep ==
    TypeOK /\ DeliveredByNow /\ [Next]_vars => DeliveredByNow'
<1> SUFFICES ASSUME TypeOK, DeliveredByNow, [Next]_vars PROVE DeliveredByNow'
  OBVIOUS
<1> USE DEF TypeOK, DeliveredByNow, Outcome
<1>1. ASSUME NEW c \in Callers, Start(c) PROVE DeliveredByNow'
  BY <1>1 DEF Start, Hit, Join, JoinCancelled, Lead, Enter
<1>2. ASSUME NEW c \in Callers, Answer(c) PROVE DeliveredByNow'
  <2>1. CASE Succeed(c)
    BY <2>1 DEF Succeed, SettlePc, SettleOutcome, Waiters
  <2>2. ASSUME NEW exc \in Faults, BackOff(c, exc) PROVE DeliveredByNow'
    BY <2>2 DEF BackOff
  <2>3. ASSUME NEW exc \in Faults, Fail(c, exc) PROVE DeliveredByNow'
    BY <2>3 DEF Fail, SettlePc, SettleOutcome, Waiters, Retryable, Final
  <2> QED
    BY <1>2, <2>1, <2>2, <2>3 DEF Answer
<1>3. ASSUME NEW c \in Callers, Retry(c) PROVE DeliveredByNow'
  BY <1>3 DEF Retry
<1>4. ASSUME NEW c \in Callers, Wake(c) PROVE DeliveredByNow'
  BY <1>4 DEF Wake, WakeWithValue, WakeWithFailure, WakeWithCancel, Resume
<1>5. ASSUME NEW c \in Callers, Collect(c) PROVE DeliveredByNow'
  BY <1>5 DEF Collect
<1>6. ASSUME NEW c \in Callers, Cancellation(c) PROVE DeliveredByNow'
  BY <1>6 DEF Cancellation, CancelLeader, CancelWaiter, CancelWoken, Cancel, SettlePc,
     SettleOutcome, Waiters, CancelledOutcome
<1>7. CASE Clear
  BY <1>7 DEF Clear, callVars
<1>8. CASE Tick
  BY <1>8 DEF Tick, cacheVars, callVars
<1>9. CASE UNCHANGED vars
  BY <1>9 DEF vars
<1> QED
  BY <1>1, <1>2, <1>3, <1>4, <1>5, <1>6, <1>7, <1>8, <1>9 DEF Next

-----------------------------------------------------------------------------
(* What the mapping makes of the operators of the contract.                 *)

LEMMA SameFresh == ASSUME TypeOK, NEW k \in Keys PROVE /\ Memory[k] = None <=> entries[k] = None
                                                       /\ Expiry => (Contract!Fresh(k) <=> Fresh(k))
<1>1. entries[k] # None => entries[k].value \in Nat /\ entries[k].value # None
  BY DEF TypeOK, Entry
<1>2. Memory[k] = None <=> entries[k] = None
  BY <1>1 DEF Memory
<1>3. Expiry /\ entries[k] # None =>
        entries[k].expires_at = entries[k].value + Ttl[k] /\ Memory[k] = entries[k].value
  BY DEF Expiry, Memory
<1> QED
  BY <1>2, <1>3 DEF Fresh, Contract!Fresh

LEMMA SameFallback ==
    ASSUME TypeOK, NEW k \in Keys, NEW exc
    PROVE  Contract!Degraded(k, exc) = Fallback(k, exc)
<1>1. Memory[k] = None <=> entries[k] = None
  BY SameFresh
<1>2. entries[k] # None => Memory[k] = entries[k].value
  BY DEF Memory
<1> QED
  BY <1>1, <1>2 DEF Fallback, Stale, Failed, Contract!Degraded, Contract!Old, Contract!Nothing

-----------------------------------------------------------------------------
(* The steps, one action of the implementation at a time.                   *)

LEMMA StartSimulated ==
    ASSUME IInv, NEW c \in Callers, NEW k \in Keys,
           Hit(c, k) \/ Join(c, k) \/ JoinCancelled(c, k) \/ Lead(c, k)
    PROVE  Contract!AnswerAtOnce(c, k) \/ Contract!Refresh(c, k) \/ Contract!Follow(c, k)
<1> USE DEF IInv, TypeOK
<1>1. /\ Contract!Ask(c, k)
      /\ Contract!Fresh(k) <=> Fresh(k)
  <2>1. Memory' = Memory
    BY DEF Hit, Join, JoinCancelled, Lead, Enter, Memory
  <2>2. Status[c] = "idle"
    BY DEF Hit, Join, JoinCancelled, Lead, Enter, Status, Active
  <2> QED
    BY <2>1, <2>2, SameFresh DEF Hit, Join, JoinCancelled, Lead, Enter, Contract!Ask
<1>2. CASE Hit(c, k)
  <2>1. Status' = [Status EXCEPT ![c] = "answered"]
    BY <1>2 DEF Hit, Status, Active
  <2>2. Contract!Payload(Memory[k]) = Live(entries[k].value)
    BY <1>2 DEF Hit, Fresh, Memory, Live, Contract!Payload
  <2> QED
    BY <1>1, <1>2, <2>1, <2>2 DEF Hit, Contract!AnswerAtOnce, Contract!Reply, Contract!Becomes
<1>3. CASE Join(c, k)
  <2>1. Status' = [Status EXCEPT ![c] = "asking"]
    BY <1>3 DEF Join, Status, Active
  <2> QED
    BY <1>1, <1>3, <2>1 DEF Join, Contract!Follow, Contract!Becomes
<1>4. CASE JoinCancelled(c, k)
  <2>1. Status' = [Status EXCEPT ![c] = "raised"]
    BY <1>4 DEF JoinCancelled, Status, Active
  <2> QED
    BY <1>1, <1>4, <2>1, CallersAssumption
       DEF JoinCancelled, Contract!Follow, Contract!Raise, Contract!Becomes
<1>5. CASE Lead(c, k)
  <2>1. Status' = [Status EXCEPT ![c] = "asking"]
    BY <1>5 DEF Lead, Status, Active
  <2> QED
    BY <1>1, <1>5, <2>1 DEF Lead, Contract!Refresh, Contract!Becomes
<1> QED
  BY <1>2, <1>3, <1>4, <1>5

\* Settling a future moves nobody whom a caller can see but the leader.
LEMMA SettlingHidden ==
    ASSUME TypeOK, NEW l \in Callers, NEW c \in Callers, NEW at, pc' = SettlePc(l, c, at)
    PROVE  \A d \in Callers \ {c} : Status'[d] = Status[d]
BY DEF SettlePc, Waiters, Status, Active

LEMMA AnswerSimulated ==
    ASSUME IInv, NEW c \in Callers, Answer(c)
    PROVE  \/ Contract!Receive(c)
           \/ \E exc \in Faults : Contract!GiveUp(c, exc)
           \/ UNCHANGED Contract!contractVars
<1> USE DEF IInv, TypeOK
<1>0. ASSUME pc[c] = "loading", EndLoad(c), UNCHANGED <<now, key, started>>
      PROVE  Contract!Release(c)
  <2>1. Status[c] = "asking" /\ in_flight[key[c]] = c
    BY <1>0 DEF Status, Active, Flight, Loading
  <2> QED
    BY <1>0, <2>1 DEF EndLoad, Contract!Release
<1>1. CASE Succeed(c)
  <2>1. Status' = [Status EXCEPT ![c] = "answered"]
    <3>1. Status'[c] = "answered"
      BY <1>1 DEF Succeed, SettlePc, Status, Active
    <3>2. \A d \in Callers \ {c} : Status'[d] = Status[d]
      BY <1>1, SettlingHidden DEF Succeed
    <3> QED
      BY <3>1, <3>2 DEF Status
  <2>2. Memory' = [Memory EXCEPT ![key[c]] = now]
    <3>1. [value |-> now, expires_at |-> now + Ttl[key[c]]] \in Entry
      BY <1>1 DEF Succeed, Entry
    <3> QED
      BY <1>1, <3>1 DEF Succeed, Memory
  <2> QED
    BY <1>0, <1>1, <2>1, <2>2
       DEF Succeed, Live, Contract!Receive, Contract!Reply, Contract!Becomes, Contract!Payload
<1>2. ASSUME NEW exc \in Faults, BackOff(c, exc) PROVE UNCHANGED Contract!contractVars
  BY <1>2 DEF BackOff, Contract!contractVars, Status, Memory, Active
<1>3. ASSUME NEW exc \in Faults, Fail(c, exc) PROVE Contract!GiveUp(c, exc)
  <2>1. \A d \in Callers \ {c} : Status'[d] = Status[d]
    BY <1>3, SettlingHidden DEF Fail
  <2>2. Memory' = Memory /\ Contract!Release(c)
    BY <1>0, <1>3 DEF Fail, Memory
  <2>3. CASE c \notin cancelled
    <3>1. Status'[c] = "answered"
      BY <1>3, <2>3 DEF Fail, SettlePc, Status, Active
    <3>2. Status' = [Status EXCEPT ![c] = "answered"]
      BY <2>1, <3>1 DEF Status
    <3> QED
      BY <1>3, <2>2, <2>3, <3>2, SameFallback
         DEF Fail, Contract!GiveUp, Contract!Reply, Contract!Becomes
  <2>4. CASE c \in cancelled
    <3>1. Status'[c] = "raised"
      BY <1>3, <2>4 DEF Fail, SettlePc, Status, Active
    <3>2. Status' = [Status EXCEPT ![c] = "raised"]
      BY <2>1, <3>1 DEF Status
    <3> QED
      BY <1>3, <2>2, <2>4, <3>2 DEF Fail, Contract!GiveUp, Contract!Raise, Contract!Becomes
  <2> QED
    BY <2>3, <2>4
<1> QED
  BY <1>1, <1>2, <1>3 DEF Answer

LEMMA WakeSimulated ==
    ASSUME IInv, DeliveredByNow, NEW c \in Callers, Wake(c)
    PROVE  Contract!Share(c)
<1> USE DEF IInv, TypeOK
<1>1. /\ Status[c] = "asking" /\ in_flight[key[c]] # c
      /\ Memory' = Memory
      /\ UNCHANGED <<now, in_flight, key, started>>
  <2>1. pc[c] = "woken" /\ Resume(c)
    BY DEF Wake, WakeWithValue, WakeWithFailure, WakeWithCancel, Resume
  <2>2. in_flight[key[c]] # c
    BY <2>1, CallersAssumption DEF Flight, Loading
  <2> QED
    BY <2>1, <2>2 DEF Resume, Status, Active, Memory
<1>2. CASE WakeWithValue(c)
  <2>1. Status' = [Status EXCEPT ![c] = "answered"]
    BY <1>2 DEF WakeWithValue, Status, Active
  <2>2. outcome[c].value \in started[c] .. now
    BY <1>2 DEF WakeWithValue, Resume, Expiry, DeliveredByNow, Outcome
  <2>3. Contract!Reply(c, Contract!Payload(outcome[c].value))
    BY <1>2, <2>1 DEF WakeWithValue, Live, Contract!Reply, Contract!Becomes, Contract!Payload
  <2> QED
    BY <1>1, <2>2, <2>3 DEF Contract!Share
<1>3. CASE WakeWithFailure(c)
  <2>1. Status' = [Status EXCEPT ![c] = "answered"]
    BY <1>3 DEF WakeWithFailure, Status, Active
  <2>2. key[c] \in Keys /\ outcome[c].exc \in Faults
    BY <1>3 DEF WakeWithFailure, Resume
  <2>3. Contract!Reply(c, Contract!Degraded(key[c], outcome[c].exc))
    BY <1>3, <2>1, <2>2, SameFallback DEF WakeWithFailure, Contract!Reply, Contract!Becomes
  <2> QED
    BY <1>1, <2>2, <2>3 DEF Contract!Share
<1>4. CASE WakeWithCancel(c)
  <2>1. Status' = [Status EXCEPT ![c] = "raised"]
    BY <1>4 DEF WakeWithCancel, Status, Active
  <2>2. Contract!Raise(c)
    BY <1>4, <2>1 DEF WakeWithCancel, Contract!Raise, Contract!Becomes
  <2> QED
    BY <1>1, <2>2 DEF Contract!Share
<1> QED
  BY <1>2, <1>3, <1>4 DEF Wake

LEMMA CollectSimulated ==
    ASSUME IInv, NEW c \in Callers, Collect(c) PROVE Contract!Free(c)
<1> USE DEF IInv, TypeOK
<1>1. Status[c] \in {"answered", "raised"}
  BY DEF Collect, Done, Status, Active
<1>2. Status' = [Status EXCEPT ![c] = "idle"]
  BY DEF Collect, Status, Active
<1> QED
  BY <1>1, <1>2 DEF Collect, Memory, Contract!Free, Contract!Becomes

LEMMA CancellationSimulated ==
    ASSUME IInv, NEW c \in Callers, Cancellation(c) PROVE Contract!Abandon(c)
<1> USE DEF IInv, TypeOK
<1>1. Status[c] = "asking" /\ Status' = [Status EXCEPT ![c] = "idle"]
  <2>1. Status[c] = "asking" /\ Status'[c] = "idle"
    BY DEF Cancellation, CancelLeader, CancelWaiter, CancelWoken, SettlePc, Status, Active,
           Loading
  <2>2. \A d \in Callers \ {c} : Status'[d] = Status[d]
    <3>1. CASE CancelLeader(c)
      BY <3>1, SettlingHidden DEF CancelLeader
    <3>2. CASE CancelWaiter(c)
      BY <3>2, SettlingHidden DEF CancelWaiter
    <3>3. CASE CancelWoken(c)
      BY <3>3 DEF CancelWoken, Status, Active
    <3> QED
      BY <3>1, <3>2, <3>3 DEF Cancellation
  <2> QED
    BY <2>1, <2>2 DEF Status
<1>2. in_flight' = [k \in Keys |-> IF in_flight[k] = c THEN None ELSE in_flight[k]]
  <2>1. CASE Loading(c)
    <3>1. \A k \in Keys : in_flight[k] = c <=> k = key[c]
      BY <2>1, CallersAssumption DEF Flight, Loading
    <3> QED
      BY <2>1, <3>1 DEF Cancellation, CancelLeader, CancelWaiter, CancelWoken, EndLoad, Loading
  <2>2. CASE ~Loading(c)
    <3>1. \A k \in Keys : in_flight[k] # c
      BY <2>2, CallersAssumption DEF Flight
    <3> QED
      BY <2>2, <3>1 DEF Cancellation, CancelLeader, CancelWaiter, CancelWoken
  <2> QED
    BY <2>1, <2>2
<1>3. /\ key' = [key EXCEPT ![c] = None] /\ started' = [started EXCEPT ![c] = 0]
      /\ UNCHANGED <<now, result>> /\ Memory' = Memory
  BY DEF Cancellation, CancelLeader, CancelWaiter, CancelWoken, Cancel, Memory
<1> QED
  BY <1>1, <1>2, <1>3 DEF Contract!Abandon, Contract!Becomes

LEMMA ClearSimulated == ASSUME IInv, Clear PROVE Contract!Flush
BY DEF Clear, callVars, Memory, Status, Active, Contract!Flush

LEMMA TickSimulated == ASSUME IInv, Tick PROVE Contract!Pass
BY DEF Tick, cacheVars, callVars, Memory, Status, Active, Contract!Pass

LEMMA StepSimulated ==
    IInv /\ DeliveredByNow /\ [Next]_vars => [Contract!ContractNext]_(Contract!contractVars)
<1> SUFFICES ASSUME IInv, DeliveredByNow, [Next]_vars
             PROVE  Contract!ContractNext \/ UNCHANGED Contract!contractVars
  BY DEF Contract!contractVars
<1>1. ASSUME NEW c \in Callers, Start(c) PROVE Contract!ContractNext
  <2> PICK k \in Keys : Hit(c, k) \/ Join(c, k) \/ JoinCancelled(c, k) \/ Lead(c, k)
    BY <1>1 DEF Start
  <2> QED
    BY StartSimulated DEF Contract!ContractNext
<1>2. ASSUME NEW c \in Callers, Answer(c)
      PROVE  Contract!ContractNext \/ UNCHANGED Contract!contractVars
  BY <1>2, AnswerSimulated DEF Contract!ContractNext
<1>3. ASSUME NEW c \in Callers, Retry(c) PROVE UNCHANGED Contract!contractVars
  BY <1>3 DEF Retry, IInv, TypeOK, Contract!contractVars, Status, Memory, Active
<1>4. ASSUME NEW c \in Callers, Wake(c) PROVE Contract!ContractNext
  BY <1>4, WakeSimulated DEF Contract!ContractNext
<1>5. ASSUME NEW c \in Callers, Collect(c) PROVE Contract!ContractNext
  BY <1>5, CollectSimulated DEF Contract!ContractNext
<1>6. ASSUME NEW c \in Callers, Cancellation(c) PROVE Contract!ContractNext
  BY <1>6, CancellationSimulated DEF Contract!ContractNext
<1>7. CASE Clear
  BY <1>7, ClearSimulated DEF Contract!ContractNext
<1>8. CASE Tick
  BY <1>8, TickSimulated DEF Contract!ContractNext
<1>9. CASE UNCHANGED vars
  BY <1>9 DEF vars, Contract!contractVars, Status, Memory, Active
<1> QED
  BY <1>1, <1>2, <1>3, <1>4, <1>5, <1>6, <1>7, <1>8, <1>9 DEF Next

\* fetch and the cache implement the contract: what a caller sees of retries,
\* shared futures, wake-ups, flushes and cancellations is a lock per key and a
\* memory of last good payloads.
THEOREM ContractKept == Spec => KeepsContract
<1>1. Init => Contract!ContractInit
  BY DEF Init, Contract!ContractInit, Memory, Status, Active
<1>2. Init => DeliveredByNow
  BY DEF Init, DeliveredByNow
<1>3. Spec => []DeliveredByNow
  <2>1. IInv /\ DeliveredByNow /\ [Next]_vars => DeliveredByNow'
    BY DeliveredStep DEF IInv
  <2> QED
    BY <1>2, <2>1, Invariance, PTL DEF Spec
<1> QED
  BY <1>1, <1>3, StepSimulated, Invariance, PTL DEF Spec, KeepsContract, Contract!ContractSpec
=============================================================================
