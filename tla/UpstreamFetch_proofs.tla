------------------------ MODULE UpstreamFetch_proofs ------------------------
(***************************************************************************)
(* Proofs about UpstreamFetch, for any number of callers and keys and any  *)
(* retry, TTL and stale-on-error policy.                                   *)
(***************************************************************************)
EXTENDS UpstreamFetch, TLAPS

USE CallersAssumption, PolicyAssumption, FaultsAssumption, BoundsAssumption,
    NoneAssumption

\* fetch returns a FetchResult on every path.
LEMMA ResultTypes ==
    ASSUME TypeOK, NEW k \in Keys, NEW exc \in Faults, NEW v \in Nat
    PROVE  /\ Live(v) \in FetchResult
           /\ Fallback(k, exc) \in FetchResult
<1>1. Failed(exc) \in FetchResult
  BY DEF Failed, FetchResult
<1>2. entries[k] # None => Stale(entries[k].value, exc) \in FetchResult
  BY DEF TypeOK, Entry, Stale, FetchResult
<1> QED
  BY <1>1, <1>2 DEF Live, Fallback, FetchResult

-----------------------------------------------------------------------------
(* The inductive invariant.                                                 *)

\* _in_flight names exactly the running loads, and a waiting call awaits the
\* load registered under its own key.
Flight ==
    /\ \A k \in Keys : in_flight[k] # None =>
          Loading(in_flight[k]) /\ key[in_flight[k]] = k
    /\ \A c \in Callers : Loading(c) => in_flight[key[c]] = c
    /\ \A c \in Callers : pc[c] = "waiting" =>
          /\ awaits[c] # None
          /\ in_flight[key[c]] = awaits[c]
          /\ awaits[c] \notin cancelled

\* The calls whose answer may still come from the fallback.
MayFallBack(c) ==
    \/ Loading(c)
    \/ pc[c] = "waiting"
    \/ pc[c] = "woken" /\ outcome[c].exc \in Faults

\* As long as a call may fall back, the entry under its key is the one that had
\* expired when the call began.
Expiry ==
    /\ \A c \in Callers : started[c] <= now
    /\ \A k \in Keys : entries[k] # None =>
          entries[k].value <= now /\ entries[k].expires_at = entries[k].value + Ttl[k]
    /\ \A c \in Callers : MayFallBack(c) /\ entries[key[c]] # None =>
          entries[key[c]].expires_at <= started[c]
    /\ \A c \in Callers : pc[c] = "woken" /\ outcome[c].exc = "none" =>
          started[c] <= outcome[c].value

IInv == TypeOK /\ Flight /\ Expiry /\ StaleFlagTruthful

LEMMA TypeInit == Init => TypeOK
BY DEF Init, TypeOK, Loading

LEMMA TypeStep == TypeOK /\ [Next]_vars => TypeOK'
<1> SUFFICES ASSUME TypeOK, [Next]_vars PROVE TypeOK'
  OBVIOUS
<1> USE DEF TypeOK, Loading
<1>1. ASSUME NEW c \in Callers, Start(c) PROVE TypeOK'
  <2> PICK k \in Keys : Hit(c, k) \/ Join(c, k) \/ JoinCancelled(c, k) \/ Lead(c, k)
    BY <1>1 DEF Start
  <2>1. CASE Hit(c, k)
    <3>1. entries[k].value \in Nat
      BY <2>1 DEF Hit, Fresh, Entry
    <3> QED
      BY <2>1, <3>1 DEF Hit, Enter, Live, FetchResult
  <2>2. CASE Join(c, k)
    BY <2>2 DEF Join, Enter
  <2>3. CASE JoinCancelled(c, k)
    BY <2>3 DEF JoinCancelled, Enter
  <2>4. CASE Lead(c, k)
    BY <2>4 DEF Lead, Enter
  <2> QED
    BY <2>1, <2>2, <2>3, <2>4
<1>2. ASSUME NEW c \in Callers, Answer(c) PROVE TypeOK'
  <2>1. CASE Succeed(c)
    <3> DEFINE o == [exc |-> "none", value |-> now]
    <3>1. o \in Outcome /\ Live(now) \in FetchResult
      BY DEF Outcome, Live, FetchResult
    <3>2. [value |-> now, expires_at |-> now + Ttl[key[c]]] \in Entry
      BY <2>1 DEF Succeed, Entry
    <3> QED
      BY <2>1, <3>1, <3>2 DEF Succeed, EndLoad, SettlePc, SettleOutcome, Waiters
  <2>2. ASSUME NEW exc \in Faults, BackOff(c, exc) PROVE TypeOK'
    BY <2>2 DEF BackOff
  <2>3. ASSUME NEW exc \in Faults, Fail(c, exc) PROVE TypeOK'
    <3>1. [exc |-> exc, value |-> 0] \in Outcome
      BY DEF Outcome
    <3>2. Fallback(key[c], exc) \in FetchResult
      BY <2>3, ResultTypes DEF Fail
    <3> QED
      BY <2>3, <3>1, <3>2 DEF Fail, EndLoad, SettlePc, SettleOutcome, Waiters
  <2> QED
    BY <1>2, <2>1, <2>2, <2>3 DEF Answer
<1>3. ASSUME NEW c \in Callers, Retry(c) PROVE TypeOK'
  BY <1>3 DEF Retry
<1>4. ASSUME NEW c \in Callers, Wake(c) PROVE TypeOK'
  <2>1. CASE WakeWithValue(c)
    BY <2>1, ResultTypes DEF WakeWithValue, Resume, Outcome, Live, FetchResult
  <2>2. CASE WakeWithFailure(c)
    <3>1. Fallback(key[c], outcome[c].exc) \in FetchResult
      BY <2>2, ResultTypes DEF WakeWithFailure, Resume
    <3> QED
      BY <2>2, <3>1 DEF WakeWithFailure, Resume
  <2>3. CASE WakeWithCancel(c)
    BY <2>3 DEF WakeWithCancel, Resume
  <2> QED
    BY <1>4, <2>1, <2>2, <2>3 DEF Wake
<1>5. ASSUME NEW c \in Callers, Collect(c) PROVE TypeOK'
  BY <1>5 DEF Collect, Done
<1>6. ASSUME NEW c \in Callers, Cancellation(c) PROVE TypeOK'
  <2>1. CancelledOutcome \in Outcome
    BY DEF CancelledOutcome, Outcome
  <2>2. CASE CancelLeader(c)
    BY <2>1, <2>2 DEF CancelLeader, Cancel, EndLoad, SettlePc, SettleOutcome, Waiters
  <2>3. CASE CancelWaiter(c)
    BY <2>1, <2>3 DEF CancelWaiter, Cancel, SettlePc, SettleOutcome, Waiters
  <2>4. CASE CancelWoken(c)
    BY <2>4 DEF CancelWoken, Cancel
  <2> QED
    BY <1>6, <2>2, <2>3, <2>4 DEF Cancellation
<1>7. CASE Clear
  BY <1>7 DEF Clear, callVars
<1>8. CASE Tick
  BY <1>8 DEF Tick, cacheVars, callVars
<1>9. CASE UNCHANGED vars
  BY <1>9 DEF vars
<1> QED
  BY <1>1, <1>2, <1>3, <1>4, <1>5, <1>6, <1>7, <1>8, <1>9 DEF Next

LEMMA FlightInit == Init => Flight
BY DEF Init, Flight, Loading

LEMMA FlightStep == TypeOK /\ Flight /\ [Next]_vars => Flight'
<1> SUFFICES ASSUME TypeOK, Flight, [Next]_vars PROVE Flight'
  OBVIOUS
<1> USE DEF TypeOK, Flight, Loading
<1>1. ASSUME NEW c \in Callers, Start(c) PROVE Flight'
  <2> PICK k \in Keys : Hit(c, k) \/ Join(c, k) \/ JoinCancelled(c, k) \/ Lead(c, k)
    BY <1>1 DEF Start
  <2>1. CASE Hit(c, k)
    BY <2>1 DEF Hit, Enter
  <2>2. CASE Join(c, k)
    BY <2>2 DEF Join, Enter
  <2>3. CASE JoinCancelled(c, k)
    BY <2>3 DEF JoinCancelled, Enter
  <2>4. CASE Lead(c, k)
    BY <2>4 DEF Lead, Enter
  <2> QED
    BY <2>1, <2>2, <2>3, <2>4
<1>2. ASSUME NEW c \in Callers, Answer(c) PROVE Flight'
  <2>1. CASE Succeed(c)
    BY <2>1 DEF Succeed, EndLoad, SettlePc, Waiters
  <2>2. ASSUME NEW exc \in Faults, BackOff(c, exc) PROVE Flight'
    BY <2>2 DEF BackOff
  <2>3. ASSUME NEW exc \in Faults, Fail(c, exc) PROVE Flight'
    BY <2>3 DEF Fail, EndLoad, SettlePc, Waiters
  <2> QED
    BY <1>2, <2>1, <2>2, <2>3 DEF Answer
<1>3. ASSUME NEW c \in Callers, Retry(c) PROVE Flight'
  BY <1>3 DEF Retry
<1>4. ASSUME NEW c \in Callers, Wake(c) PROVE Flight'
  BY <1>4 DEF Wake, WakeWithValue, WakeWithFailure, WakeWithCancel, Resume
<1>5. ASSUME NEW c \in Callers, Collect(c) PROVE Flight'
  BY <1>5 DEF Collect, Done
<1>6. ASSUME NEW c \in Callers, Cancellation(c) PROVE Flight'
  <2>1. CASE CancelLeader(c)
    BY <2>1 DEF CancelLeader, Cancel, EndLoad, SettlePc, Waiters
  <2>2. CASE CancelWaiter(c)
    BY <2>2 DEF CancelWaiter, Cancel, SettlePc, Waiters
  <2>3. CASE CancelWoken(c)
    BY <2>3 DEF CancelWoken, Cancel
  <2> QED
    BY <1>6, <2>1, <2>2, <2>3 DEF Cancellation
<1>7. CASE Clear
  BY <1>7 DEF Clear, callVars
<1>8. CASE Tick
  BY <1>8 DEF Tick, cacheVars, callVars
<1>9. CASE UNCHANGED vars
  BY <1>9 DEF vars
<1> QED
  BY <1>1, <1>2, <1>3, <1>4, <1>5, <1>6, <1>7, <1>8, <1>9 DEF Next

LEMMA ExpiryInit == Init => Expiry /\ StaleFlagTruthful
BY DEF Init, Expiry, MayFallBack, Loading, StaleFlagTruthful

LEMMA ExpiryStep ==
    TypeOK /\ Flight /\ Expiry /\ TypeOK' /\ [Next]_vars => Expiry'
<1> SUFFICES ASSUME TypeOK, Flight, Expiry, TypeOK', [Next]_vars PROVE Expiry'
  OBVIOUS
<1> USE DEF TypeOK, Flight, Expiry, MayFallBack, Loading, Entry, Outcome
<1>1. ASSUME NEW c \in Callers, Start(c) PROVE Expiry'
  <2> PICK k \in Keys : Hit(c, k) \/ Join(c, k) \/ JoinCancelled(c, k) \/ Lead(c, k)
    BY <1>1 DEF Start
  <2>1. CASE Hit(c, k)
    BY <2>1 DEF Hit, Enter
  <2>2. CASE Join(c, k)
    BY <2>2 DEF Join, Enter, Fresh
  <2>3. CASE JoinCancelled(c, k)
    BY <2>3 DEF JoinCancelled, Enter
  <2>4. CASE Lead(c, k)
    BY <2>4 DEF Lead, Enter, Fresh
  <2> QED
    BY <2>1, <2>2, <2>3, <2>4
<1>2. ASSUME NEW c \in Callers, Answer(c) PROVE Expiry'
  <2>1. CASE Succeed(c)
    <3>1. \A k \in Keys : entries'[k] # None =>
            entries'[k].value <= now /\ entries'[k].expires_at = entries'[k].value + Ttl[k]
      BY <2>1 DEF Succeed
    \* Only calls on other keys may still fall back: on this key the load was
    \* the only one, every waiter has been given the value, and no call woken
    \* by an earlier failure was left in the ready queue.
    <3>2. \A d \in Callers : MayFallBack(d)' => key[d] # key[c]
      BY <2>1 DEF Succeed, EndLoad, SettlePc, SettleOutcome, Waiters, FailureWakeupDue, Retryable, Final
    <3>3. \A d \in Callers : MayFallBack(d)' => MayFallBack(d)
      BY <2>1 DEF Succeed, EndLoad, SettlePc, SettleOutcome, Waiters
    <3>4. \A d \in Callers : MayFallBack(d)' => entries'[key'[d]] = entries[key[d]]
      BY <2>1, <3>2 DEF Succeed
    <3>5. \A d \in Callers : MayFallBack(d)' /\ entries'[key'[d]] # None =>
            entries'[key'[d]].expires_at <= started'[d]
      BY <2>1, <3>3, <3>4 DEF Succeed
    <3>6. \A d \in Callers : pc'[d] = "woken" /\ outcome'[d].exc = "none" =>
            started'[d] <= outcome'[d].value
      BY <2>1 DEF Succeed, SettlePc, SettleOutcome, Waiters
    <3> QED
      BY <2>1, <3>1, <3>5, <3>6 DEF Succeed
  <2>2. ASSUME NEW exc \in Faults, BackOff(c, exc) PROVE Expiry'
    BY <2>2 DEF BackOff
  <2>3. ASSUME NEW exc \in Faults, Fail(c, exc) PROVE Expiry'
    BY <2>3 DEF Fail, EndLoad, SettlePc, SettleOutcome, Waiters, Retryable, Final
  <2> QED
    BY <1>2, <2>1, <2>2, <2>3 DEF Answer
<1>3. ASSUME NEW c \in Callers, Retry(c) PROVE Expiry'
  BY <1>3 DEF Retry
<1>4. ASSUME NEW c \in Callers, Wake(c) PROVE Expiry'
  BY <1>4 DEF Wake, WakeWithValue, WakeWithFailure, WakeWithCancel, Resume
<1>5. ASSUME NEW c \in Callers, Collect(c) PROVE Expiry'
  BY <1>5 DEF Collect, Done
<1>6. ASSUME NEW c \in Callers, Cancellation(c) PROVE Expiry'
  <2>1. CASE CancelLeader(c)
    BY <2>1 DEF CancelLeader, Cancel, EndLoad, SettlePc, SettleOutcome, Waiters,
                CancelledOutcome, Retryable, Final
  <2>2. CASE CancelWaiter(c)
    BY <2>2 DEF CancelWaiter, Cancel, SettlePc, SettleOutcome, Waiters,
                CancelledOutcome, Retryable, Final
  <2>3. CASE CancelWoken(c)
    BY <2>3 DEF CancelWoken, Cancel
  <2> QED
    BY <1>6, <2>1, <2>2, <2>3 DEF Cancellation
<1>7. CASE Clear
  BY <1>7 DEF Clear, callVars
<1>8. CASE Tick
  BY <1>8 DEF Tick, cacheVars, callVars
<1>9. CASE UNCHANGED vars
  BY <1>9 DEF vars
<1> QED
  BY <1>1, <1>2, <1>3, <1>4, <1>5, <1>6, <1>7, <1>8, <1>9 DEF Next

\* What a call that returns in this step must satisfy for the stale flag to be
\* right; every other returned call keeps its result.
StaleFlagOf(c) ==
    result[c].ok =>
        IF result[c].stale
        THEN result[c].value + Ttl[key[c]] <= started[c]
        ELSE \/ result[c].value + Ttl[key[c]] > started[c]
             \/ result[c].value >= started[c]

LEMMA StaleFlagByCall ==
    StaleFlagTruthful <=> \A c \in Callers : pc[c] = "returned" => StaleFlagOf(c)
BY DEF StaleFlagTruthful, StaleFlagOf

\* The fallback of a failed call is a payload that had expired before it began.
LEMMA FallbackExpired ==
    ASSUME TypeOK, Expiry, NEW c \in Callers, MayFallBack(c), NEW exc \in Faults,
           key[c] \in Keys, Fallback(key[c], exc).ok
    PROVE  /\ Fallback(key[c], exc).stale
           /\ Fallback(key[c], exc).value + Ttl[key[c]] <= started[c]
<1>1. ServeStale[key[c]] /\ entries[key[c]] # None
  BY DEF Fallback, Failed
<1>2. Fallback(key[c], exc) = Stale(entries[key[c]].value, exc)
  BY <1>1 DEF Fallback
<1>3. entries[key[c]].value + Ttl[key[c]] <= started[c]
  BY <1>1 DEF Expiry
<1> QED
  BY <1>2, <1>3 DEF Stale

LEMMA StaleFlagStep ==
    TypeOK /\ Flight /\ Expiry /\ StaleFlagTruthful /\ [Next]_vars => StaleFlagTruthful'
<1> SUFFICES ASSUME TypeOK, Flight, Expiry, [Next]_vars,
                    \A d \in Callers : pc[d] = "returned" => StaleFlagOf(d),
                    NEW d \in Callers, pc'[d] = "returned"
             PROVE  StaleFlagOf(d)'
  BY StaleFlagByCall DEF StaleFlagTruthful, StaleFlagOf
<1> USE DEF TypeOK
<1>0. ASSUME pc[d] = "returned", result'[d] = result[d], key'[d] = key[d],
             started'[d] = started[d]
      PROVE  StaleFlagOf(d)'
  BY <1>0 DEF StaleFlagOf
<1>1. ASSUME NEW c \in Callers, Start(c) PROVE StaleFlagOf(d)'
  <2> PICK k \in Keys : Hit(c, k) \/ Join(c, k) \/ JoinCancelled(c, k) \/ Lead(c, k)
    BY <1>1 DEF Start
  <2>1. CASE Hit(c, k)
    <3>1. CASE c = d
      <4>1. entries[k].value + Ttl[k] > now
        BY <2>1 DEF Hit, Fresh, Expiry
      <4> QED
        BY <2>1, <3>1, <4>1 DEF Hit, Enter, StaleFlagOf, Live
    <3>2. CASE c # d
      BY <1>0, <2>1, <3>2 DEF Hit, Enter
    <3> QED
      BY <3>1, <3>2
  <2>2. CASE Join(c, k) \/ JoinCancelled(c, k) \/ Lead(c, k)
    BY <1>0, <2>2 DEF Join, JoinCancelled, Lead, Enter
  <2> QED
    BY <2>1, <2>2
<1>2. ASSUME NEW c \in Callers, Answer(c) PROVE StaleFlagOf(d)'
  <2>1. CASE Succeed(c)
    <3>1. CASE c = d
      BY <2>1, <3>1 DEF Succeed, StaleFlagOf, Live, Expiry
    <3>2. CASE c # d
      BY <1>0, <2>1, <3>2 DEF Succeed, SettlePc
    <3> QED
      BY <3>1, <3>2
  <2>2. ASSUME NEW exc \in Faults, BackOff(c, exc) PROVE StaleFlagOf(d)'
    BY <1>0, <2>2 DEF BackOff
  <2>3. ASSUME NEW exc \in Faults, Fail(c, exc) PROVE StaleFlagOf(d)'
    <3>1. CASE c = d
      <4>1. result'[d] = Fallback(key[c], exc) /\ key'[d] = key[c] /\ started'[d] = started[c]
        BY <2>3, <3>1 DEF Fail, SettlePc
      <4>2. MayFallBack(c) /\ key[c] \in Keys
        BY <2>3 DEF Fail, MayFallBack, Loading
      <4> QED
        BY <4>1, <4>2, FallbackExpired DEF StaleFlagOf
    <3>2. CASE c # d
      BY <1>0, <2>3, <3>2 DEF Fail, SettlePc
    <3> QED
      BY <3>1, <3>2
  <2> QED
    BY <1>2, <2>1, <2>2, <2>3 DEF Answer
<1>3. ASSUME NEW c \in Callers, Retry(c) PROVE StaleFlagOf(d)'
  BY <1>0, <1>3 DEF Retry
<1>4. ASSUME NEW c \in Callers, Wake(c) PROVE StaleFlagOf(d)'
  <2>1. CASE c # d
    BY <1>0, <1>4, <2>1 DEF Wake, WakeWithValue, WakeWithFailure, WakeWithCancel, Resume
  <2>2. CASE c = d /\ WakeWithValue(c)
    BY <2>2 DEF WakeWithValue, Resume, StaleFlagOf, Live, Expiry, Outcome
  <2>3. CASE c = d /\ WakeWithFailure(c)
    <3>1. /\ result'[d] = Fallback(key[c], outcome[c].exc)
          /\ key'[d] = key[c] /\ started'[d] = started[c]
      BY <2>3 DEF WakeWithFailure, Resume
    <3>2. MayFallBack(c) /\ key[c] \in Keys /\ outcome[c].exc \in Faults
      BY <2>3 DEF WakeWithFailure, Resume, MayFallBack
    <3> QED
      BY <3>1, <3>2, FallbackExpired DEF StaleFlagOf
  <2>4. CASE c = d /\ WakeWithCancel(c)
    BY <2>4 DEF WakeWithCancel, Resume
  <2> QED
    BY <1>4, <2>1, <2>2, <2>3, <2>4 DEF Wake
<1>5. ASSUME NEW c \in Callers, Collect(c) PROVE StaleFlagOf(d)'
  BY <1>0, <1>5 DEF Collect
<1>6. ASSUME NEW c \in Callers, Cancellation(c) PROVE StaleFlagOf(d)'
  BY <1>0, <1>6 DEF Cancellation, CancelLeader, CancelWaiter, CancelWoken, Cancel, SettlePc
<1>7. CASE Clear
  BY <1>0, <1>7 DEF Clear, callVars
<1>8. CASE Tick
  BY <1>0, <1>8 DEF Tick, cacheVars, callVars
<1>9. CASE UNCHANGED vars
  BY <1>0, <1>9 DEF vars
<1> QED
  BY <1>1, <1>2, <1>3, <1>4, <1>5, <1>6, <1>7, <1>8, <1>9 DEF Next

-----------------------------------------------------------------------------
(* The theorems.                                                            *)

LEMMA Invariance == Spec => []IInv
<1>1. Init => IInv
  BY TypeInit, FlightInit, ExpiryInit DEF IInv
<1>2. IInv /\ [Next]_vars => IInv'
  BY TypeStep, FlightStep, ExpiryStep, StaleFlagStep DEF IInv
<1> QED
  BY <1>1, <1>2, PTL DEF Spec

\* fetch and the cache keep their types, and a load never exceeds its budget
\* of retries + 1 attempts (base.py, _load).
THEOREM TypeCorrect == Spec => []TypeOK
<1>1. IInv => TypeOK
  BY DEF IInv
<1> QED
  BY <1>1, Invariance, PTL

\* get_or_fetch runs at most one loader per key at a time, under any number of
\* callers, flushes, failures and cancellations.
THEOREM AtMostOneLoad == Spec => []SingleFlight
<1>1. IInv => SingleFlight
  BY DEF IInv, Flight, SingleFlight
<1> QED
  BY <1>1, Invariance, PTL

\* No call waits on a future that nobody will settle, and no key keeps a
\* refresh that is over.
THEOREM NoOrphanedWaiter == Spec => []NoOrphan
<1>1. IInv => NoOrphan
  BY DEF IInv, TypeOK, Flight, NoOrphan
<1> QED
  BY <1>1, Invariance, PTL

\* FetchResult.stale is set exactly when the payload had outlived its TTL
\* before the call began, for leaders and followers alike.
THEOREM StaleFlagCorrect == Spec => []StaleFlagTruthful
<1>1. IInv => StaleFlagTruthful
  BY DEF IInv
<1> QED
  BY <1>1, Invariance, PTL

\* Failures, late answers and cancellations never evict a payload or replace
\* it by an older one.
THEOREM PayloadsRetained == Spec => Retention
<1>1. IInv /\ [Next]_vars => [RetentionStep]_vars
  <2> SUFFICES ASSUME IInv, Next, NEW k \in Keys, entries[k] # None
               PROVE  IF entries'[k] = None
                      THEN AdminEnabled /\ pc' = pc /\ \A j \in Keys : entries'[j] = None
                      ELSE entries'[k].value >= entries[k].value
    BY DEF RetentionStep
  <2> USE DEF IInv, TypeOK
  <2>0. ASSUME entries' = entries PROVE entries'[k] # None /\ entries'[k].value >= entries[k].value
    BY <2>0 DEF Entry
  <2>1. ASSUME NEW c \in Callers, Succeed(c)
        PROVE  entries'[k] # None /\ entries'[k].value >= entries[k].value
    <3>1. entries'[k] = entries[k] \/ entries'[k] = [value |-> now, expires_at |-> now + Ttl[key[c]]]
      BY <2>1 DEF Succeed
    <3>2. [value |-> now, expires_at |-> now + Ttl[key[c]]] \in Entry
      BY <2>1 DEF Succeed, Entry
    <3> QED
      BY <3>1, <3>2 DEF Expiry, Entry
  <2>2. CASE Clear
    BY <2>2 DEF Clear, callVars
  <2>3. CASE ~Clear /\ \A c \in Callers : ~Succeed(c)
    <3>1. entries' = entries
      BY <2>3 DEF Next, Start, Hit, Join, JoinCancelled, Lead, Enter, Answer, BackOff, Fail,
         Retry, Wake, WakeWithValue, WakeWithFailure, WakeWithCancel, Resume, Collect,
         Cancellation, CancelLeader, CancelWaiter, CancelWoken, Cancel, Tick, cacheVars
    <3> QED
      BY <2>0, <3>1
  <2> QED
    BY <2>1, <2>2, <2>3
<1> QED
  BY <1>1, Invariance, PTL DEF Spec, Retention
=============================================================================
