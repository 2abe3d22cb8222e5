-------------------------- MODULE Aggregator_proofs --------------------------
(***************************************************************************)
(* Proofs about Aggregator, for any requests, users, services, policies    *)
(* and length of the day, on top of the inductive invariant of             *)
(* UpstreamFetch.                                                          *)
(***************************************************************************)
EXTENDS Aggregator, UpstreamFetch_proofs

LEMMA DivisionInOrder ==
    ASSUME NEW d \in Nat \ {0}, NEW a \in Nat, NEW b \in Nat, a <= b
    PROVE  a \div d \in Nat /\ b \div d \in Nat /\ a \div d <= b \div d
<1>1. a \div d \in Nat /\ b \div d \in Nat
  OBVIOUS
<1>2. d * (a \div d) <= a /\ b < d * (b \div d) + d
  OBVIOUS
<1> DEFINE p == a \div d
           q == b \div d
<1>3. ASSUME q < p PROVE FALSE
  <2>1. p \in Nat /\ q \in Nat /\ q + 1 <= p
    BY <1>1, <1>3
  <2> HIDE DEF p, q
  <2>2. d * (q + 1) <= d * p
    BY <2>1
  <2>3. d * (q + 1) = d * q + d
    BY <2>1
  <2>4. d * p <= a /\ b < d * q + d
    BY <1>2 DEF p, q
  <2>5. d * p \in Nat /\ d * q \in Nat
    BY <2>1
  <2> QED
    BY <2>2, <2>3, <2>4, <2>5
<1> QED
  BY <1>1, <1>3

\* Later instants are not on earlier days.
LEMMA DaysInOrder ==
    ASSUME NEW a \in Nat, NEW b \in Nat, a <= b
    PROVE  DayOf(a) \in Nat /\ DayOf(b) \in Nat /\ DayOf(a) <= DayOf(b)
BY FanOutAssumption, DivisionInOrder DEF DayOf

USE CallersAssumption, PolicyAssumption, FaultsAssumption, BoundsAssumption,
    NoneAssumption, FanOutAssumption

\* The record of a fetch: what it was asked for and when is what the request
\* was, and a fetch that has not begun belongs to a request that just arrived.
Follows(r, s) ==
    /\ pc[Call(r, s)] # "idle" =>
          /\ phase[r] \in {"gathering", "cancelling"}
          /\ key[Call(r, s)] = CacheKey(s, user[r], received[r])
          /\ started[Call(r, s)] = received[r]
    /\ phase[r] = "gathering" /\ pc[Call(r, s)] = "idle" => received[r] = now

CallsFollow == \A r \in Requests, s \in Services : Follows(r, s)

RequestTypes ==
    /\ now <= MaxTime
    /\ phase \in [Requests -> {"idle", "gathering", "cancelling"} \cup Answers]
    /\ user \in [Requests -> Users \cup {None}]
    /\ received \in [Requests -> Nat]
    /\ \A r \in Requests : received[r] <= now
    /\ \A r \in Requests : phase[r] = "gathering" => user[r] \in Users

BundleTypes ==
    /\ bundle = [r \in Requests |-> bundle[r]]
    /\ \A r \in Requests :
          /\ bundle[r].stale \subseteq DOMAIN bundle[r].data
          /\ phase[r] = "context" =>
                /\ DOMAIN bundle[r].data = Services \ bundle[r].failures
                /\ bundle[r].failures \subseteq Services \ Required

AggInv == IInv /\ RequestTypes /\ BundleTypes /\ CallsFollow

\* A call is one request's and one service's.
LEMMA CallNames ==
    /\ \A r \in Requests, s \in Services : Call(r, s) \in Callers
    /\ \A c \in Callers : \E r \in Requests, s \in Services : c = Call(r, s)
    /\ \A r, q \in Requests, s, t \in Services :
          Call(r, s) = Call(q, t) => r = q /\ s = t
    /\ \A r, q \in Requests, s \in Services : Call(q, s) \in CallsOf(r) <=> q = r
BY DEF Call, CallsOf

\* The key of every request is one the cache may hold.
LEMMA KeyExists ==
    ASSUME TypeOK, RequestTypes, NEW r \in Requests, phase[r] = "gathering", NEW s \in Services
    PROVE  CacheKey(s, user[r], received[r]) \in Keys
<1>1. user[r] \in Users /\ received[r] \in Nat /\ received[r] <= MaxTime
  <2>1. now \in Nat /\ now <= MaxTime /\ received[r] <= now
    BY DEF TypeOK, RequestTypes
  <2> QED
    BY <2>1 DEF RequestTypes
<1>2. CASE s \in DateKeyed
  <2>1. DayOf(received[r]) \in Days
    BY <1>1, DaysInOrder DEF Days
  <2> QED
    BY <1>2, <2>1 DEF CacheKey
<1>3. CASE s \notin DateKeyed
  BY <1>1, <1>3 DEF CacheKey
<1> QED
  BY <1>2, <1>3

LEMMA AggInitInv == AggInit => AggInv
<1> SUFFICES ASSUME AggInit PROVE AggInv
  OBVIOUS
<1>1. IInv
  BY TypeInit, FlightInit, ExpiryInit DEF AggInit, IInv
<1>2. RequestTypes
  BY DEF AggInit, Init, RequestTypes
<1>3. BundleTypes
  BY DEF AggInit, BundleTypes, EmptyBundle
<1>4. CallsFollow
  BY CallNames DEF AggInit, Init, CallsFollow, Follows
<1> QED
  BY <1>1, <1>2, <1>3, <1>4 DEF AggInv

LEMMA FetchInv ==
    ASSUME IInv, [Next]_vars
    PROVE  IInv'
BY TypeStep, FlightStep, ExpiryStep, StaleFlagStep DEF IInv

\* A step of a running fetch begins and ends no fetch, and changes no record.
LEMMA FetchStepRecord ==
    ASSUME TypeOK, NEW c \in Callers, FetchStep(c)
    PROVE  /\ [Next]_vars /\ UNCHANGED reqVars
           /\ key' = key /\ started' = started /\ now' = now
           /\ \A d \in Callers : pc'[d] = "idle" <=> pc[d] = "idle"
<1>1. [Next]_vars /\ UNCHANGED reqVars
  BY DEF FetchStep, Next
<1>2. CASE Succeed(c) \/ \E exc \in Faults : BackOff(c, exc) \/ Fail(c, exc)
  <2>1. CASE Succeed(c)
    BY <1>1, <2>1 DEF Succeed, SettlePc, Waiters, TypeOK
  <2>2. CASE \E exc \in Faults : BackOff(c, exc)
    BY <1>1, <2>2 DEF BackOff, TypeOK
  <2>3. ASSUME NEW exc \in Faults, Fail(c, exc)
        PROVE  /\ key' = key /\ started' = started /\ now' = now
               /\ \A d \in Callers : pc'[d] = "idle" <=> pc[d] = "idle"
    <3>1. pc[c] = "loading" /\ key' = key /\ started' = started /\ now' = now
      BY <2>3 DEF Fail
    <3>2. pc' = SettlePc(c, c, "returned") \/ pc' = SettlePc(c, c, "raised")
      BY <2>3 DEF Fail
    <3> QED
      BY <3>1, <3>2 DEF SettlePc, Waiters
  <2> QED
    BY <1>1, <1>2, <2>1, <2>2, <2>3
<1>3. CASE Retry(c)
  BY <1>1, <1>3 DEF Retry, TypeOK
<1>4. CASE Wake(c)
  BY <1>1, <1>4 DEF Wake, WakeWithValue, WakeWithFailure, WakeWithCancel, Resume, TypeOK
<1> QED
  BY <1>2, <1>3, <1>4 DEF FetchStep, Answer

\* Releasing the finished fetches of a request disturbs no other fetch.
LEMMA ReleaseInv ==
    ASSUME IInv, NEW r \in Requests, Gathered(r), ReleaseCalls(r)
    PROVE  IInv'
<1>1. /\ UNCHANGED <<now, entries, in_flight, attempt, awaits, outcome, cancelled, cancels>>
      /\ \A c \in Callers : c \in CallsOf(r) =>
            Done(c) /\ pc'[c] = "idle" /\ key'[c] = None /\ started'[c] = 0 /\ result'[c] = None
      /\ \A c \in Callers : c \notin CallsOf(r) =>
            /\ pc'[c] = pc[c] /\ key'[c] = key[c] /\ started'[c] = started[c]
            /\ result'[c] = result[c]
  BY DEF ReleaseCalls, Gathered
<1>2. TypeOK'
  BY <1>1 DEF IInv, TypeOK, ReleaseCalls
<1>3. Flight'
  <2>1. \A c \in Callers : Loading(c) \/ pc[c] = "waiting" => c \notin CallsOf(r)
    BY <1>1 DEF Loading, Done
  <2>2. \A c \in Callers : pc'[c] # "idle" => c \notin CallsOf(r)
    BY <1>1
  <2>3. \A k \in Keys : in_flight[k] # None => in_flight[k] \in Callers
    BY DEF IInv, TypeOK
  <2>4. \A c \in Callers : Loading(c)' <=> Loading(c)
    BY <1>1, <2>1, <2>2 DEF Loading
  <2>5. \A k \in Keys : in_flight'[k] # None =>
            pc'[in_flight'[k]] \in {"loading", "backoff"} /\ key'[in_flight'[k]] = k
    <3> SUFFICES ASSUME NEW k \in Keys, in_flight[k] # None
                 PROVE  /\ pc'[in_flight[k]] \in {"loading", "backoff"}
                        /\ key'[in_flight[k]] = k
      BY <1>1
    <3>1. in_flight[k] \in Callers /\ Loading(in_flight[k]) /\ key[in_flight[k]] = k
      BY <2>3 DEF IInv, Flight
    <3>2. in_flight[k] \notin CallsOf(r)
      BY <2>1, <3>1
    <3> QED
      BY <1>1, <3>1, <3>2 DEF Loading
  <2>6. \A c \in Callers : Loading(c)' => in_flight'[key'[c]] = c
    BY <1>1, <2>1, <2>4 DEF IInv, Flight
  <2>7. \A c \in Callers : pc'[c] = "waiting" =>
            /\ awaits'[c] # None /\ in_flight'[key'[c]] = awaits'[c]
            /\ awaits'[c] \notin cancelled'
    BY <1>1, <2>2 DEF IInv, Flight
  <2> QED
    BY <2>5, <2>6, <2>7 DEF Flight, Loading
<1>4. Expiry'
  BY <1>1 DEF IInv, TypeOK, Expiry, MayFallBack, Loading, Done
<1>5. StaleFlagTruthful'
  BY <1>1 DEF IInv, TypeOK, StaleFlagTruthful
<1> QED
  BY <1>2, <1>3, <1>4, <1>5 DEF IInv

-----------------------------------------------------------------------------
(* The steps of a request.                                                  *)

\* A fetch whose slot and request a step leaves alone is recorded as before.
LEMMA FollowsKept ==
    ASSUME NEW r \in Requests, NEW s \in Services, Follows(r, s), now' = now,
           pc'[Call(r, s)] = "idle" <=> pc[Call(r, s)] = "idle",
           key'[Call(r, s)] = key[Call(r, s)], started'[Call(r, s)] = started[Call(r, s)],
           phase'[r] = phase[r], user'[r] = user[r], received'[r] = received[r]
    PROVE  Follows(r, s)'
BY DEF Follows, CacheKey

LEMMA ReceiveStep ==
    ASSUME AggInv, NEW r \in Requests, NEW u \in Users, Receive(r, u)
    PROVE  AggInv'
<1>1. /\ phase[r] = "idle" /\ UNCHANGED <<vars, bundle>>
      /\ phase' = [phase EXCEPT ![r] = "gathering"] /\ user' = [user EXCEPT ![r] = u]
      /\ received' = [received EXCEPT ![r] = now]
  BY DEF Receive
<1>2. now \in Nat /\ \A s \in Services : pc[Call(r, s)] = "idle"
  BY <1>1 DEF AggInv, IInv, TypeOK, CallsFollow, Follows
<1>3. IInv'
  BY <1>1, FetchInv DEF AggInv
<1>4. RequestTypes'
  BY <1>1, <1>2 DEF AggInv, RequestTypes, vars
<1>5. BundleTypes'
  BY <1>1 DEF AggInv, BundleTypes, RequestTypes
<1>6. CallsFollow'
  <2> SUFFICES ASSUME NEW q \in Requests, NEW t \in Services PROVE Follows(q, t)'
    BY DEF CallsFollow
  <2>1. Follows(q, t)
    BY DEF AggInv, CallsFollow, Follows
  <2>2. pc' = pc /\ key' = key /\ started' = started /\ now' = now
    BY <1>1 DEF vars
  <2>3. CASE q = r
    BY <1>1, <1>2, <2>2, <2>3 DEF Follows, AggInv, RequestTypes, Answers
  <2>4. CASE q # r
    BY <1>1, <2>1, <2>2, <2>4, FollowsKept DEF AggInv, RequestTypes
  <2> QED
    BY <2>3, <2>4
<1> QED
  BY <1>3, <1>4, <1>5, <1>6 DEF AggInv

LEMMA RespondStep ==
    ASSUME AggInv, NEW r \in Requests, Respond(r)
    PROVE  AggInv'
<1>1. /\ phase[r] \in Answers /\ UNCHANGED vars
      /\ phase' = [phase EXCEPT ![r] = "idle"] /\ user' = [user EXCEPT ![r] = None]
      /\ received' = [received EXCEPT ![r] = 0]
      /\ bundle' = [bundle EXCEPT ![r] = EmptyBundle]
  BY DEF Respond
<1>2. now \in Nat /\ \A s \in Services : pc[Call(r, s)] = "idle"
  BY <1>1 DEF AggInv, IInv, TypeOK, CallsFollow, Follows, Answers
<1>3. IInv'
  BY <1>1, FetchInv DEF AggInv
<1>4. RequestTypes'
  BY <1>1, <1>2 DEF AggInv, RequestTypes, vars
<1>5. BundleTypes'
  BY <1>1 DEF AggInv, BundleTypes, RequestTypes, EmptyBundle
<1>6. CallsFollow'
  <2> SUFFICES ASSUME NEW q \in Requests, NEW t \in Services PROVE Follows(q, t)'
    BY DEF CallsFollow
  <2>1. Follows(q, t)
    BY DEF AggInv, CallsFollow, Follows
  <2>2. pc' = pc /\ key' = key /\ started' = started /\ now' = now
    BY <1>1 DEF vars
  <2>3. CASE q = r
    BY <1>1, <1>2, <2>2, <2>3 DEF Follows, AggInv, RequestTypes, Answers
  <2>4. CASE q # r
    BY <1>1, <2>1, <2>2, <2>4, FollowsKept DEF AggInv, RequestTypes
  <2> QED
    BY <2>3, <2>4
<1> QED
  BY <1>3, <1>4, <1>5, <1>6 DEF AggInv

\* A fetch begins in the instant its request arrived.
LEMMA StartRecord ==
    ASSUME AggInv, NEW r \in Requests, NEW s \in Services, StartCall(r, s)
    PROVE  LET c == Call(r, s)
               k == CacheKey(s, user[r], received[r])
           IN  /\ c \in Callers /\ k \in Keys /\ phase[r] = "gathering" /\ received[r] = now
               /\ Hit(c, k) \/ Join(c, k) \/ JoinCancelled(c, k) \/ Lead(c, k)
               /\ pc' = [pc EXCEPT ![c] = pc'[c]] /\ pc'[c] # "idle"
               /\ key' = [key EXCEPT ![c] = k] /\ started' = [started EXCEPT ![c] = now]
               /\ now' = now /\ UNCHANGED reqVars
<1> DEFINE c == Call(r, s)
           k == CacheKey(s, user[r], now)
<1>1. /\ phase[r] = "gathering" /\ pc[c] = "idle" /\ UNCHANGED reqVars
      /\ Hit(c, k) \/ Join(c, k) \/ JoinCancelled(c, k) \/ Lead(c, k)
  BY DEF StartCall, NotStarted
<1>2. received[r] = now /\ c \in Callers
  BY <1>1, CallNames DEF AggInv, CallsFollow, Follows
<1>3. k \in Keys
  BY <1>1, <1>2, KeyExists DEF AggInv, IInv
<1>4. /\ pc' = [pc EXCEPT ![c] = pc'[c]] /\ pc'[c] # "idle"
      /\ key' = [key EXCEPT ![c] = k] /\ started' = [started EXCEPT ![c] = now]
      /\ now' = now
  <2>1. pc \in [Callers -> {"idle", "loading", "backoff", "waiting", "woken",
                            "returned", "raised"}]
    BY DEF AggInv, IInv, TypeOK
  <2>2. Enter(c, k)
    BY <1>1 DEF Hit, Join, JoinCancelled, Lead
  <2>3. \E at \in {"returned", "waiting", "raised", "loading"} : pc' = [pc EXCEPT ![c] = at]
    BY <1>1 DEF Hit, Join, JoinCancelled, Lead
  <2> QED
    BY <1>2, <2>1, <2>2, <2>3 DEF Enter
<1> QED
  BY <1>1, <1>2, <1>3, <1>4

LEMMA StartCallStep ==
    ASSUME AggInv, NEW r \in Requests, NEW s \in Services, StartCall(r, s)
    PROVE  AggInv'
<1> DEFINE c == Call(r, s)
           k == CacheKey(s, user[r], received[r])
<1>1. /\ c \in Callers /\ k \in Keys /\ phase[r] = "gathering" /\ received[r] = now
      /\ Hit(c, k) \/ Join(c, k) \/ JoinCancelled(c, k) \/ Lead(c, k)
      /\ pc' = [pc EXCEPT ![c] = pc'[c]]
      /\ key' = [key EXCEPT ![c] = k] /\ started' = [started EXCEPT ![c] = now]
      /\ now' = now /\ UNCHANGED reqVars
  BY StartRecord
<1>2. IInv'
  <2>1. [Next]_vars
    BY <1>1 DEF Next, Start
  <2> QED
    BY <2>1, FetchInv DEF AggInv
<1>3. RequestTypes' /\ BundleTypes'
  BY <1>1 DEF AggInv, RequestTypes, BundleTypes, reqVars
<1>4. CallsFollow'
  <2> SUFFICES ASSUME NEW q \in Requests, NEW t \in Services
               PROVE  /\ pc'[Call(q, t)] # "idle" =>
                            /\ phase[q] \in {"gathering", "cancelling"}
                            /\ key'[Call(q, t)] = CacheKey(t, user[q], received[q])
                            /\ started'[Call(q, t)] = received[q]
                      /\ phase[q] = "gathering" /\ pc'[Call(q, t)] = "idle" =>
                            received[q] = now
    BY <1>1 DEF CallsFollow, Follows, reqVars, CacheKey
  <2>1. key \in [Callers -> Keys \cup {None}] /\ started \in [Callers -> Nat]
    BY DEF AggInv, IInv, TypeOK
  <2>2. pc \in [Callers -> {"idle", "loading", "backoff", "waiting", "woken",
                            "returned", "raised"}]
    BY DEF AggInv, IInv, TypeOK
  <2>3. CASE Call(q, t) = c
    <3>1. q = r /\ t = s
      BY <2>3, CallNames
    <3> QED
      BY <1>1, <2>1, <3>1
  <2>4. CASE Call(q, t) # c
    <3>1. Call(q, t) \in Callers
      BY CallNames
    <3>2. /\ pc'[Call(q, t)] = pc[Call(q, t)] /\ key'[Call(q, t)] = key[Call(q, t)]
          /\ started'[Call(q, t)] = started[Call(q, t)]
      BY <1>1, <2>1, <2>2, <2>4, <3>1
    <3> QED
      BY <3>2 DEF AggInv, CallsFollow, Follows
  <2> QED
    BY <2>3, <2>4
<1> QED
  BY <1>2, <1>3, <1>4 DEF AggInv

LEMMA FetchStepStep ==
    ASSUME AggInv, NEW c \in Callers, FetchStep(c)
    PROVE  AggInv'
<1>1. /\ [Next]_vars /\ UNCHANGED reqVars
      /\ key' = key /\ started' = started /\ now' = now
      /\ \A d \in Callers : pc'[d] = "idle" <=> pc[d] = "idle"
  BY FetchStepRecord DEF AggInv, IInv
<1>2. IInv'
  BY <1>1, FetchInv DEF AggInv
<1>3. RequestTypes' /\ BundleTypes'
  BY <1>1 DEF AggInv, RequestTypes, BundleTypes, reqVars
<1>4. CallsFollow'
  <2> SUFFICES ASSUME NEW q \in Requests, NEW t \in Services PROVE Follows(q, t)'
    BY DEF CallsFollow
  <2>1. Follows(q, t) /\ Call(q, t) \in Callers
    BY CallNames DEF AggInv, CallsFollow, Follows
  <2> QED
    BY <1>1, <2>1, FollowsKept DEF reqVars
<1> QED
  BY <1>2, <1>3, <1>4 DEF AggInv

LEMMA FoldStep ==
    ASSUME AggInv, NEW r \in Requests, FoldContext(r) \/ FoldCritical(r)
    PROVE  AggInv'
<1>1. /\ Gathered(r) /\ ReleaseCalls(r) /\ UNCHANGED <<user, received>>
      /\ \E a \in Answers : phase' = [phase EXCEPT ![r] = a]
      /\ phase'[r] = "context" => Critical(r) = {} /\ bundle' = [bundle EXCEPT ![r] = Bundle(r)]
      /\ phase'[r] # "context" => bundle' = bundle
  <2>1. phase \in [Requests -> {"idle", "gathering", "cancelling"} \cup Answers]
    BY DEF AggInv, RequestTypes
  <2>2. CASE FoldContext(r)
    BY <2>1, <2>2 DEF FoldContext, Answers
  <2>3. CASE FoldCritical(r)
    BY <2>1, <2>3 DEF FoldCritical, Answers
  <2> QED
    BY <2>2, <2>3
<1>2. PICK a \in Answers : phase' = [phase EXCEPT ![r] = a]
  BY <1>1
<1>3. IInv'
  BY <1>1, ReleaseInv DEF AggInv
<1>4. now' = now /\ \A q \in Requests, t \in Services :
          IF q = r THEN pc'[Call(q, t)] = "idle"
          ELSE /\ pc'[Call(q, t)] = pc[Call(q, t)] /\ key'[Call(q, t)] = key[Call(q, t)]
               /\ started'[Call(q, t)] = started[Call(q, t)]
  <2> SUFFICES ASSUME NEW q \in Requests, NEW t \in Services
               PROVE  IF q = r THEN pc'[Call(q, t)] = "idle"
                      ELSE /\ pc'[Call(q, t)] = pc[Call(q, t)]
                           /\ key'[Call(q, t)] = key[Call(q, t)]
                           /\ started'[Call(q, t)] = started[Call(q, t)]
    BY <1>1 DEF ReleaseCalls
  <2>1. Call(q, t) \in Callers /\ (Call(q, t) \in CallsOf(r) <=> q = r)
    BY CallNames
  <2> QED
    BY <1>1, <2>1 DEF ReleaseCalls
<1>5. RequestTypes'
  BY <1>1, <1>2, <1>4 DEF AggInv, RequestTypes, Answers
<1>6. BundleTypes'
  <2>1. bundle = [q \in Requests |-> bundle[q]]
    BY DEF AggInv, BundleTypes
  <2>2. \A q \in Requests \ {r} : bundle'[q] = bundle[q] /\ phase'[q] = phase[q]
    BY <1>1, <1>2, <2>1 DEF AggInv, RequestTypes
  <2>3. bundle' = [q \in Requests |-> bundle'[q]]
    BY <1>1, <2>1
  <2>4. CASE phase'[r] = "context"
    <3>1. bundle'[r] = Bundle(r)
      BY <1>1, <2>1, <2>4
    <3>2. /\ Bundle(r).stale \subseteq DOMAIN Bundle(r).data
          /\ DOMAIN Bundle(r).data = Services \ Bundle(r).failures
          /\ Bundle(r).failures \subseteq Services \ Required
      BY <1>1, <2>4 DEF Bundle, FailedOf, Succeeded, Critical
    <3> QED
      BY <2>2, <2>3, <3>1, <3>2 DEF AggInv, BundleTypes
  <2>5. CASE phase'[r] # "context"
    BY <1>1, <2>2, <2>3, <2>5 DEF AggInv, BundleTypes
  <2> QED
    BY <2>4, <2>5
<1>7. CallsFollow'
  BY <1>1, <1>2, <1>4 DEF AggInv, CallsFollow, Follows, RequestTypes, Answers, CacheKey
<1> QED
  BY <1>3, <1>5, <1>6, <1>7 DEF AggInv

LEMMA FlushStep ==
    ASSUME AggInv, Flush
    PROVE  AggInv'
<1>1. UNCHANGED <<reqVars, now, callVars>> /\ [Next]_vars
  BY DEF Flush, Clear, Next
<1>2. IInv'
  BY <1>1, FetchInv DEF AggInv
<1>3. RequestTypes' /\ BundleTypes'
  BY <1>1 DEF AggInv, RequestTypes, BundleTypes, reqVars
<1>4. CallsFollow'
  BY <1>1 DEF AggInv, CallsFollow, Follows, reqVars, callVars, CacheKey
<1> QED
  BY <1>2, <1>3, <1>4 DEF AggInv

\* Time passes only when every fetch that was asked for has begun.
LEMMA TickStep ==
    ASSUME AggInv, AggTick
    PROVE  AggInv'
<1>1. /\ UNCHANGED <<reqVars, callVars>> /\ [Next]_vars
      /\ now < MaxTime /\ now' = now + 1
      /\ \A r \in Requests : NotStarted(r) = {}
  BY DEF AggTick, Tick, Next
<1>2. now \in Nat
  BY DEF AggInv, IInv, TypeOK
<1>3. IInv'
  BY <1>1, FetchInv DEF AggInv
<1>4. RequestTypes'
  BY <1>1, <1>2 DEF AggInv, RequestTypes, reqVars
<1>5. BundleTypes'
  BY <1>1 DEF AggInv, BundleTypes, reqVars
<1>6. CallsFollow'
  BY <1>1 DEF AggInv, CallsFollow, Follows, NotStarted, reqVars, callVars, CacheKey
<1> QED
  BY <1>3, <1>4, <1>5, <1>6 DEF AggInv

\* Cancelling a request begins and ends no fetch.
LEMMA CancelRequestStep ==
    ASSUME AggInv, NEW r \in Requests, CancelRequest(r)
    PROVE  AggInv'
<1>1. /\ phase[r] = "gathering" /\ UNCHANGED <<vars, user, received, bundle>>
      /\ phase' = [phase EXCEPT ![r] = "cancelling"]
  BY DEF CancelRequest
<1>2. IInv'
  BY <1>1, FetchInv DEF AggInv
<1>3. RequestTypes'
  BY <1>1 DEF AggInv, RequestTypes, vars
<1>4. BundleTypes'
  BY <1>1 DEF AggInv, BundleTypes, RequestTypes
<1>5. CallsFollow'
  <2> SUFFICES ASSUME NEW q \in Requests, NEW t \in Services PROVE Follows(q, t)'
    BY DEF CallsFollow
  <2>1. Follows(q, t) /\ phase \in [Requests -> {"idle", "gathering", "cancelling"} \cup Answers]
    BY DEF AggInv, CallsFollow, RequestTypes
  <2>2. pc' = pc /\ key' = key /\ started' = started /\ now' = now
    BY <1>1 DEF vars
  <2> QED
    BY <1>1, <2>1, <2>2 DEF Follows, CacheKey
<1> QED
  BY <1>2, <1>3, <1>4, <1>5 DEF AggInv

\* A fetch that unwinds leaves the records of the others alone.
LEMMA UnwindRecord ==
    ASSUME TypeOK, NEW c \in Callers, Unwind(c)
    PROVE  /\ [Next]_vars /\ UNCHANGED <<reqVars, now, entries>>
           /\ pc'[c] = "idle"
           /\ \A d \in Callers \ {c} :
                 /\ pc'[d] = "idle" <=> pc[d] = "idle"
                 /\ pc'[d] = "returned" => pc[d] = "returned"
                 /\ key'[d] = key[d] /\ started'[d] = started[d] /\ result'[d] = result[d]
<1>1. [Next]_vars /\ UNCHANGED reqVars
  BY DEF Unwind, Next
<1>2. CASE Collect(c)
  BY <1>1, <1>2 DEF Collect, TypeOK
<1>3. CASE CancelLeader(c)
  BY <1>1, <1>3 DEF CancelLeader, Cancel, SettlePc, Waiters, TypeOK
<1>4. CASE CancelWaiter(c)
  BY <1>1, <1>4 DEF CancelWaiter, Cancel, SettlePc, Waiters, TypeOK
<1>5. CASE CancelWoken(c)
  BY <1>1, <1>5 DEF CancelWoken, Cancel, TypeOK
<1> QED
  BY <1>2, <1>3, <1>4, <1>5 DEF Unwind, Cancellation

LEMMA UnwindStep ==
    ASSUME AggInv, NEW c \in Callers, Unwind(c)
    PROVE  AggInv'
<1>1. /\ [Next]_vars /\ UNCHANGED <<reqVars, now, entries>>
      /\ pc'[c] = "idle"
      /\ \A d \in Callers \ {c} :
            /\ pc'[d] = "idle" <=> pc[d] = "idle"
            /\ key'[d] = key[d] /\ started'[d] = started[d]
  BY UnwindRecord DEF AggInv, IInv
<1>2. PICK r \in Requests : phase[r] = "cancelling" /\ c \in CallsOf(r)
  BY DEF Unwind, CallsInPhase
<1>3. IInv'
  BY <1>1, FetchInv DEF AggInv
<1>4. RequestTypes' /\ BundleTypes'
  BY <1>1 DEF AggInv, RequestTypes, BundleTypes, reqVars
<1>5. CallsFollow'
  <2> SUFFICES ASSUME NEW q \in Requests, NEW t \in Services PROVE Follows(q, t)'
    BY DEF CallsFollow
  <2>1. Follows(q, t) /\ Call(q, t) \in Callers
    BY CallNames DEF AggInv, CallsFollow
  <2>2. CASE Call(q, t) = c
    <3>1. q = r
      BY <1>2, <2>2, CallNames
    <3> QED
      BY <1>1, <1>2, <2>2, <3>1 DEF Follows, reqVars
  <2>3. CASE Call(q, t) # c
    BY <1>1, <2>1, <2>3, FollowsKept DEF reqVars
  <2> QED
    BY <2>2, <2>3
<1> QED
  BY <1>3, <1>4, <1>5 DEF AggInv

LEMMA LeaveStep ==
    ASSUME AggInv, NEW r \in Requests, Leave(r)
    PROVE  AggInv'
<1>1. /\ phase[r] = "cancelling" /\ UNCHANGED <<vars, bundle>>
      /\ \A c \in CallsOf(r) : pc[c] = "idle"
      /\ phase' = [phase EXCEPT ![r] = "idle"] /\ user' = [user EXCEPT ![r] = None]
      /\ received' = [received EXCEPT ![r] = 0]
  BY DEF Leave
<1>2. now \in Nat /\ \A s \in Services : pc[Call(r, s)] = "idle"
  BY <1>1 DEF AggInv, IInv, TypeOK, CallsOf
<1>3. IInv'
  BY <1>1, FetchInv DEF AggInv
<1>4. RequestTypes'
  BY <1>1, <1>2 DEF AggInv, RequestTypes, vars
<1>5. BundleTypes'
  BY <1>1 DEF AggInv, BundleTypes, RequestTypes
<1>6. CallsFollow'
  <2> SUFFICES ASSUME NEW q \in Requests, NEW t \in Services PROVE Follows(q, t)'
    BY DEF CallsFollow
  <2>1. Follows(q, t)
    BY DEF AggInv, CallsFollow
  <2>2. pc' = pc /\ key' = key /\ started' = started /\ now' = now
    BY <1>1 DEF vars
  <2>3. CASE q = r
    BY <1>1, <1>2, <2>2, <2>3 DEF Follows, AggInv, RequestTypes
  <2>4. CASE q # r
    BY <1>1, <2>1, <2>2, <2>4, FollowsKept DEF AggInv, RequestTypes
  <2> QED
    BY <2>3, <2>4
<1> QED
  BY <1>3, <1>4, <1>5, <1>6 DEF AggInv

LEMMA AggInvStep ==
    ASSUME AggInv, [AggNext]_aggVars
    PROVE  AggInv'
<1>1. CASE UNCHANGED aggVars
  <2>1. UNCHANGED <<vars, reqVars>>
    BY <1>1 DEF aggVars
  <2>2. IInv'
    BY <2>1, FetchInv DEF AggInv
  <2> QED
    BY <2>1, <2>2
       DEF AggInv, RequestTypes, BundleTypes, CallsFollow, Follows, vars, reqVars, CacheKey
<1> QED
  BY <1>1, ReceiveStep, StartCallStep, FoldStep, RespondStep, FetchStepStep, FlushStep, TickStep,
     CancelRequestStep, UnwindStep, LeaveStep
     DEF AggNext

LEMMA AggInvariant == AggSpec => []AggInv
<1>1. AggInv /\ [AggNext]_aggVars => AggInv'
  BY AggInvStep
<1> QED
  BY AggInitInv, <1>1, PTL DEF AggSpec

\* Requests, fetches and bundles keep their types: no fetch outlives its request,
\* a bundle accounts for every service, and a context never lacks a required one
\* (gather_context).
THEOREM AggTypeCorrect == AggSpec => []AggTypeOK
<1>1. AggInv => AggTypeOK
  BY DEF AggInv, IInv, RequestTypes, BundleTypes, CallsFollow, Follows, AggTypeOK
<1> QED
  BY <1>1, AggInvariant, PTL

-----------------------------------------------------------------------------
(* What a bundle says.                                                      *)

\* Every step but the folding of a context leaves the contexts alone.
LEMMA ContextsKept ==
    ASSUME AggInv, [AggNext]_aggVars, NEW r \in Requests, phase'[r] = "context",
           ~FoldContext(r)
    PROVE  /\ phase[r] = "context" /\ bundle'[r] = bundle[r]
           /\ user'[r] = user[r] /\ received'[r] = received[r]
<1>0. /\ phase \in [Requests -> {"idle", "gathering", "cancelling"} \cup Answers]
      /\ bundle = [q \in Requests |-> bundle[q]]
  BY DEF AggInv, RequestTypes, BundleTypes
<1>1. ASSUME NEW q \in Requests,
             \/ FoldContext(q) \/ FoldCritical(q) \/ Respond(q)
             \/ CancelRequest(q) \/ Leave(q)
      PROVE  phase[r] = "context" /\ bundle'[r] = bundle[r]
             /\ user'[r] = user[r] /\ received'[r] = received[r]
  <2>1. CASE FoldContext(q)
    BY <1>0, <2>1 DEF FoldContext
  <2>2. CASE FoldCritical(q)
    BY <1>0, <2>2 DEF FoldCritical
  <2>3. CASE Respond(q)
    BY <1>0, <2>3 DEF Respond, AggInv, RequestTypes
  <2>4. CASE CancelRequest(q) \/ Leave(q)
    BY <1>0, <2>4 DEF CancelRequest, Leave, AggInv, RequestTypes
  <2> QED
    BY <1>1, <2>1, <2>2, <2>3, <2>4
<1>2. ASSUME NEW q \in Requests, NEW u \in Users, Receive(q, u)
      PROVE  phase[r] = "context" /\ bundle'[r] = bundle[r]
             /\ user'[r] = user[r] /\ received'[r] = received[r]
  BY <1>0, <1>2 DEF Receive, AggInv, RequestTypes
<1>3. CASE UNCHANGED reqVars
  BY <1>3 DEF reqVars
<1>4. ASSUME AggNext,
             ~ \E q \in Requests : \/ FoldContext(q) \/ FoldCritical(q) \/ Respond(q)
                                  \/ CancelRequest(q) \/ Leave(q),
             ~ \E q \in Requests, u \in Users : Receive(q, u)
      PROVE  UNCHANGED reqVars
  BY <1>4 DEF AggNext, StartCall, FetchStep, Unwind, Flush, AggTick
<1>5. CASE UNCHANGED aggVars
  BY <1>3, <1>5 DEF aggVars
<1> QED
  BY <1>1, <1>2, <1>3, <1>4, <1>5

LEMMA BundleStep ==
    ASSUME AggInv, BundleStaleTruthful, [AggNext]_aggVars
    PROVE  BundleStaleTruthful'
<1> SUFFICES ASSUME NEW r \in Requests, phase'[r] = "context",
                    NEW s \in DOMAIN bundle'[r].data
             PROVE  LET v == bundle'[r].data[s]
                        expiry == v + Ttl[CacheKey(s, user'[r], received'[r])]
                    IN  IF s \in bundle'[r].stale
                        THEN expiry <= received'[r]
                        ELSE expiry > received'[r] \/ v >= received'[r]
  BY DEF BundleStaleTruthful, CacheKey
<1>1. CASE FoldContext(r)
  <2>1. /\ bundle'[r] = Bundle(r) /\ user' = user /\ received' = received
        /\ phase[r] = "gathering"
    BY <1>1 DEF FoldContext, Gathered, AggInv, BundleTypes
  <2>2. /\ s \in Succeeded(r) /\ bundle'[r].data[s] = result[Call(r, s)].value
        /\ s \in bundle'[r].stale <=> result[Call(r, s)].stale
    BY <2>1 DEF Bundle
  <2>3. /\ Call(r, s) \in Callers /\ s \in Services
        /\ pc[Call(r, s)] = "returned" /\ result[Call(r, s)].ok
    BY <2>2, CallNames DEF Succeeded
  <2>4. /\ key[Call(r, s)] = CacheKey(s, user[r], received[r])
        /\ started[Call(r, s)] = received[r]
    BY <2>3 DEF AggInv, CallsFollow, Follows
  <2> QED
    BY <2>1, <2>2, <2>3, <2>4 DEF AggInv, IInv, StaleFlagTruthful
<1>2. CASE ~FoldContext(r)
  <2>1. /\ phase[r] = "context" /\ bundle'[r] = bundle[r]
        /\ user'[r] = user[r] /\ received'[r] = received[r]
    BY <1>2, ContextsKept
  <2> QED
    BY <2>1 DEF BundleStaleTruthful
<1> QED
  BY <1>1, <1>2

\* Whoever led the loads and however requests overlapped, a bundle flags exactly
\* the services whose payload had expired before the request (gather_context).
THEOREM BundleTheorem == AggSpec => []BundleStaleTruthful
<1>1. AggInit => BundleStaleTruthful
  BY DEF AggInit, BundleStaleTruthful
<1>2. AggInv /\ BundleStaleTruthful /\ [AggNext]_aggVars => BundleStaleTruthful'
  BY BundleStep
<1> QED
  BY <1>1, <1>2, AggInvariant, PTL DEF AggSpec

-----------------------------------------------------------------------------
(* Which day an almanac is of.                                              *)

\* An entry under a dated key was received on that day or later, and so was what
\* a finished fetch of the almanac holds; neither is inductive without the other.
Dated ==
    /\ \A s \in DateKeyed, d \in Days :
          entries[<<s, d>>] # None => DayOf(entries[<<s, d>>].value) >= d
    /\ \A r \in Requests, s \in DateKeyed :
          LET c == Call(r, s)
          IN  phase[r] = "gathering" /\ pc[c] = "returned" /\ result[c].ok =>
                  DayOf(result[c].value) >= DayOf(received[r])

\* What a fetch returns is the entry under its key, or arrived after it began.
LEMMA ResultSource ==
    ASSUME IInv, NEW c \in Callers, NEW d \in Callers, FetchStep(d),
           pc'[c] = "returned", result'[c].ok
    PROVE  \/ pc[c] = "returned" /\ result'[c] = result[c]
           \/ started[c] <= result'[c].value /\ result'[c].value \in Nat
           \/ entries[key[c]] # None /\ result'[c].value = entries[key[c]].value
<1>0. /\ pc \in [Callers -> {"idle", "loading", "backoff", "waiting", "woken",
                             "returned", "raised"}]
      /\ result \in [Callers -> FetchResult \cup {None}] /\ now \in Nat
      /\ started[c] <= now
      /\ \A e \in Callers : pc[e] = "woken" => outcome[e] \in Outcome
      /\ \A e \in Callers : pc[e] = "woken" /\ outcome[e].exc = "none" =>
            started[e] <= outcome[e].value
  BY DEF IInv, TypeOK, Expiry
<1>1. CASE Succeed(d)
  <2>1. CASE c = d
    BY <1>0, <1>1, <2>1 DEF Succeed, Live
  <2>2. CASE c # d
    BY <1>0, <1>1, <2>2 DEF Succeed, SettlePc
  <2> QED
    BY <2>1, <2>2
<1>2. ASSUME NEW exc \in Faults, BackOff(d, exc) PROVE pc[c] = "returned" /\ result'[c] = result[c]
  BY <1>0, <1>2 DEF BackOff
<1>3. CASE Retry(d)
  BY <1>0, <1>3 DEF Retry
<1>4. ASSUME NEW exc \in Faults, Fail(d, exc)
      PROVE  \/ pc[c] = "returned" /\ result'[c] = result[c]
             \/ entries[key[c]] # None /\ result'[c].value = entries[key[c]].value
  <2>1. CASE c = d
    <3>1. result'[c] = Fallback(key[c], exc)
      BY <1>0, <1>4, <2>1 DEF Fail, SettlePc
    <3> QED
      BY <3>1 DEF Fallback, Stale, Failed
  <2>2. CASE c # d
    BY <1>0, <1>4, <2>2 DEF Fail, SettlePc
  <2> QED
    BY <2>1, <2>2
<1>5. CASE Wake(d)
  <2>1. CASE c = d
    <3>1. CASE WakeWithValue(d)
      BY <1>0, <2>1, <3>1 DEF WakeWithValue, Resume, Live, Outcome
    <3>2. CASE WakeWithFailure(d)
      <4>1. result'[c] = Fallback(key[c], outcome[c].exc)
        BY <1>0, <2>1, <3>2 DEF WakeWithFailure
      <4> QED
        BY <4>1 DEF Fallback, Stale, Failed
    <3>3. CASE WakeWithCancel(d)
      BY <1>0, <2>1, <3>3 DEF WakeWithCancel
    <3> QED
      BY <1>5, <3>1, <3>2, <3>3 DEF Wake
  <2>2. CASE c # d
    BY <1>0, <1>5, <2>2 DEF Wake, WakeWithValue, WakeWithFailure, WakeWithCancel
  <2> QED
    BY <2>1, <2>2
<1> QED
  BY <1>1, <1>2, <1>3, <1>4, <1>5 DEF FetchStep, Answer

\* Every step but a flush and a successful load leaves the entries alone.
LEMMA EntrySource ==
    ASSUME AggInv, [AggNext]_aggVars, NEW k \in Keys, entries'[k] # None
    PROVE  \/ entries'[k] = entries[k]
           \/ /\ \E c \in Callers : Loading(c) /\ key[c] = k
              /\ entries'[k].value = now
<1>0. entries \in [Keys -> Entry \cup {None}]
  BY DEF AggInv, IInv, TypeOK
<1>1. ASSUME NEW c \in Callers, FetchStep(c)
      PROVE  \/ entries'[k] = entries[k]
             \/ /\ \E d \in Callers : Loading(d) /\ key[d] = k
                /\ entries'[k].value = now
  <2>1. CASE Succeed(c)
    BY <1>0, <2>1 DEF Succeed, Loading
  <2>2. CASE \E exc \in Faults : BackOff(c, exc) \/ Fail(c, exc)
    BY <2>2 DEF BackOff, Fail
  <2>3. CASE Retry(c) \/ Wake(c)
    BY <2>3 DEF Retry, Wake, WakeWithValue, WakeWithFailure, WakeWithCancel, Resume
  <2> QED
    BY <1>1, <2>1, <2>2, <2>3 DEF FetchStep, Answer
<1>2. ASSUME NEW r \in Requests, NEW s \in Services, StartCall(r, s)
      PROVE  entries' = entries
  BY <1>2 DEF StartCall, Hit, Join, JoinCancelled, Lead, Enter
<1>3. ASSUME NEW r \in Requests,
             \/ \E u \in Users : Receive(r, u)
             \/ FoldContext(r) \/ FoldCritical(r) \/ Respond(r)
             \/ CancelRequest(r) \/ Leave(r)
      PROVE  entries' = entries
  BY <1>3 DEF Receive, FoldContext, FoldCritical, Respond, ReleaseCalls, CancelRequest, Leave, vars
<1>4. CASE Flush
  BY <1>4 DEF Flush, Clear
<1>5. CASE AggTick \/ UNCHANGED aggVars
  BY <1>5 DEF AggTick, Tick, cacheVars, aggVars, vars
<1>6. ASSUME NEW c \in Callers, Unwind(c)
      PROVE  entries' = entries
  BY <1>6, UnwindRecord DEF AggInv, IInv
<1> QED
  BY <1>1, <1>2, <1>3, <1>4, <1>5, <1>6 DEF AggNext

LEMMA DatedEntriesStep ==
    ASSUME AggInv, Dated, [AggNext]_aggVars, NEW s \in DateKeyed, NEW d \in Days,
           entries'[<<s, d>>] # None
    PROVE  DayOf(entries'[<<s, d>>].value) >= d
<1> DEFINE k == <<s, d>>
<1>1. k \in Keys
  OBVIOUS
<1>2. CASE entries'[k] = entries[k]
  BY <1>2 DEF Dated
<1>3. ASSUME NEW c \in Callers, Loading(c), key[c] = k, entries'[k].value = now
      PROVE  DayOf(entries'[k].value) >= d
  <2>1. PICK r \in Requests, t \in Services : c = Call(r, t)
    BY CallNames
  <2>2. key[c] = CacheKey(t, user[r], received[r])
    BY <1>3, <2>1 DEF AggInv, CallsFollow, Follows, Loading
  <2>3. d = DayOf(received[r])
    BY <1>3, <2>2 DEF CacheKey
  <2>4. now \in Nat /\ received[r] \in Nat /\ received[r] <= now
    BY DEF AggInv, IInv, TypeOK, RequestTypes
  <2> QED
    BY <1>3, <2>3, <2>4, DaysInOrder
<1> QED
  BY <1>1, <1>2, <1>3, EntrySource

LEMMA DatedResultsStep ==
    ASSUME AggInv, Dated, [AggNext]_aggVars, NEW r \in Requests, NEW s \in DateKeyed,
           phase'[r] = "gathering", pc'[Call(r, s)] = "returned", result'[Call(r, s)].ok
    PROVE  DayOf(result'[Call(r, s)].value) >= DayOf(received'[r])
<1> DEFINE c == Call(r, s)
           k == <<s, DayOf(received[r])>>
<1>0. /\ c \in Callers /\ s \in Services
      /\ phase \in [Requests -> {"idle", "gathering", "cancelling"} \cup Answers]
      /\ received \in [Requests -> Nat] /\ received[r] <= now /\ now <= MaxTime /\ now \in Nat
      /\ pc \in [Callers -> {"idle", "loading", "backoff", "waiting", "woken",
                             "returned", "raised"}]
      /\ result \in [Callers -> FetchResult \cup {None}]
      /\ \A q \in Requests, t \in Services : Follows(q, t)
  BY CallNames DEF AggInv, IInv, TypeOK, RequestTypes, CallsFollow
<1>1. DayOf(received[r]) \in Days /\ k \in Keys
  <2>1. DayOf(received[r]) \in Nat /\ DayOf(received[r]) <= DayOf(MaxTime)
    BY <1>0, DaysInOrder
  <2> QED
    BY <2>1 DEF Days
<1>2. CASE \E d \in Callers : FetchStep(d)
  <2> PICK d \in Callers : FetchStep(d)
    BY <1>2
  <2>1. phase' = phase /\ received' = received
    BY DEF FetchStep, reqVars
  <2>2. pc'[c] = "idle" <=> pc[c] = "idle"
    BY <1>0, FetchStepRecord DEF AggInv, IInv
  <2>3. key[c] = k /\ started[c] = received[r]
    BY <1>0, <2>1, <2>2 DEF Follows, CacheKey
  <2>4. CASE pc[c] = "returned" /\ result'[c] = result[c]
    BY <2>1, <2>4 DEF Dated
  <2>5. CASE started[c] <= result'[c].value /\ result'[c].value \in Nat
    BY <1>0, <2>1, <2>3, <2>5, DaysInOrder
  <2>6. CASE entries[k] # None /\ result'[c].value = entries[k].value
    BY <1>1, <2>1, <2>6 DEF Dated
  <2> QED
    BY <1>0, <2>3, <2>4, <2>5, <2>6, ResultSource DEF AggInv
<1>3. CASE \E q \in Requests, t \in Services : StartCall(q, t)
  <2> PICK q \in Requests, t \in Services : StartCall(q, t)
    BY <1>3
  <2>1. phase' = phase /\ received' = received
    BY DEF StartCall, reqVars
  <2> DEFINE e == Call(q, t)
             j == CacheKey(t, user[q], received[q])
  <2>2. e \in Callers /\ received[q] = now /\ (Hit(e, j) \/ Join(e, j) \/ JoinCancelled(e, j) \/ Lead(e, j))
    BY StartRecord
  <2>3. CASE e = c
    <3>0. q = r /\ t = s
      BY <1>0, <2>3, CallNames
    <3>1. j = k
      BY <3>0 DEF CacheKey
    <3> HIDE DEF c, j, k, e
    <3>2. pc'[c] # "returned" \/ Hit(c, k)
      BY <1>0, <2>2, <2>3, <3>1 DEF Join, JoinCancelled, Lead
    <3>3. Hit(c, k)
      BY <3>2 DEF c
    <3>4. entries[k] # None /\ result'[c] = Live(entries[k].value)
      BY <1>0, <3>3 DEF Hit, Fresh
    <3>5. entries[k] # None /\ result'[c].value = entries[k].value
      BY <3>4 DEF Live
    <3> QED
      BY <1>1, <2>1, <3>5 DEF Dated, c, k
  <2>4. CASE e # c
    <3>1. pc'[c] = pc[c] /\ result'[c] = result[c]
      BY <1>0, <2>2, <2>4 DEF Hit, Join, JoinCancelled, Lead
    <3> QED
      BY <2>1, <3>1 DEF Dated
  <2> QED
    BY <2>3, <2>4
<1>4. CASE \E q \in Requests, u \in Users : Receive(q, u)
  <2> PICK q \in Requests, u \in Users : Receive(q, u)
    BY <1>4
  <2>1. pc' = pc /\ result' = result
    BY DEF Receive, vars
  <2>2. CASE q = r
    BY <1>0, <2>1, <2>2 DEF Receive, Follows
  <2>3. CASE q # r
    BY <1>0, <2>1, <2>3 DEF Receive, Dated
  <2> QED
    BY <2>2, <2>3
<1>5. CASE \E q \in Requests : FoldContext(q) \/ FoldCritical(q)
  <2> PICK q \in Requests : FoldContext(q) \/ FoldCritical(q)
    BY <1>5
  <2>1. /\ ReleaseCalls(q) /\ received' = received
        /\ \E a \in Answers : phase' = [phase EXCEPT ![q] = a]
    BY DEF FoldContext, FoldCritical, Answers
  <2>2. q # r
    BY <1>0, <2>1 DEF Answers
  <2>3. c \notin CallsOf(q)
    BY <1>0, <2>2, CallNames
  <2>4. pc'[c] = pc[c] /\ result'[c] = result[c] /\ phase'[r] = phase[r]
    BY <1>0, <2>1, <2>2, <2>3 DEF ReleaseCalls
  <2> QED
    BY <2>1, <2>4 DEF Dated
<1>6. CASE \E q \in Requests : Respond(q)
  <2> PICK q \in Requests : Respond(q)
    BY <1>6
  <2>1. q # r
    BY <1>0 DEF Respond
  <2> QED
    BY <1>0, <2>1 DEF Respond, vars, Dated
<1>7. CASE \E q \in Requests : CancelRequest(q) \/ Leave(q)
  <2> PICK q \in Requests : CancelRequest(q) \/ Leave(q)
    BY <1>7
  <2>1. q # r
    BY <1>0 DEF CancelRequest, Leave
  <2> QED
    BY <1>0, <2>1 DEF CancelRequest, Leave, vars, Dated
<1>8. CASE \E d \in Callers : Unwind(d)
  <2> PICK d \in Callers : Unwind(d)
    BY <1>8
  <2>1. c # d
    BY <1>0, UnwindRecord DEF AggInv, IInv
  <2>2. /\ pc[c] = "returned" /\ result'[c] = result[c]
        /\ phase' = phase /\ received' = received
    BY <1>0, <2>1, UnwindRecord DEF AggInv, IInv, reqVars
  <2> QED
    BY <2>2 DEF Dated
<1>9. CASE Flush \/ AggTick \/ UNCHANGED aggVars
  <2>1. pc' = pc /\ result' = result /\ phase' = phase /\ received' = received
    BY <1>9 DEF Flush, Clear, AggTick, Tick, callVars, reqVars, aggVars, vars
  <2> QED
    BY <2>1 DEF Dated
<1> QED
  BY <1>2, <1>3, <1>4, <1>5, <1>6, <1>7, <1>8, <1>9 DEF AggNext

LEMMA AlmanacStep ==
    ASSUME AggInv, Dated, AlmanacOfTheDay, [AggNext]_aggVars
    PROVE  AlmanacOfTheDay'
<1> SUFFICES ASSUME NEW r \in Requests, phase'[r] = "context",
                    NEW s \in DateKeyed \cap DOMAIN bundle'[r].data
             PROVE  DayOf(bundle'[r].data[s]) >= DayOf(received'[r])
  BY DEF AlmanacOfTheDay, DayOf
<1>1. CASE FoldContext(r)
  <2>1. bundle'[r] = Bundle(r) /\ received' = received /\ phase[r] = "gathering"
    BY <1>1 DEF FoldContext, Gathered, AggInv, BundleTypes
  <2>2. s \in Succeeded(r) /\ bundle'[r].data[s] = result[Call(r, s)].value
    BY <2>1 DEF Bundle
  <2> QED
    BY <2>1, <2>2 DEF Succeeded, Dated
<1>2. CASE ~FoldContext(r)
  <2>1. phase[r] = "context" /\ bundle'[r] = bundle[r] /\ received'[r] = received[r]
    BY <1>2, ContextsKept
  <2> QED
    BY <2>1 DEF AlmanacOfTheDay
<1> QED
  BY <1>1, <1>2

\* No interleaving, late load or stale fallback puts the almanac of a day before
\* the request into an answer: whatever the outage, yesterday's is never the one
\* served (panchang.py "rolls over at midnight", against cache.py).
THEOREM AlmanacTheorem == AggSpec => []AlmanacOfTheDay
<1>1. AggInit => Dated /\ AlmanacOfTheDay
  BY CallNames DEF AggInit, Init, Dated, AlmanacOfTheDay
<1>2. AggInv /\ Dated /\ AlmanacOfTheDay /\ [AggNext]_aggVars => Dated' /\ AlmanacOfTheDay'
  BY DatedEntriesStep, DatedResultsStep, AlmanacStep DEF Dated, DayOf, Days, Call
<1> QED
  BY <1>1, <1>2, AggInvariant, PTL DEF AggSpec
=============================================================================
