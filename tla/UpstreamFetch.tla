--------------------------- MODULE UpstreamFetch ---------------------------
(***************************************************************************)
(* The shared upstream cache and the fetches that go through it:           *)
(*   app/services/cache.py   TTLCache.get_or_fetch, get, set, clear        *)
(*   app/services/base.py    UpstreamClient.fetch and _load                *)
(*                                                                         *)
(* A "caller" is one running call of UpstreamClient.fetch (an asyncio      *)
(* task created by gather_context).  asyncio runs one task at a time, so   *)
(* the code between two awaits is one step here.  The awaits are: the HTTP *)
(* attempt ("loading"), the back-off sleep ("backoff"), the shared future  *)
(* of somebody else's load ("waiting"), and the moment between that future *)
(* being settled and the waiting task being resumed ("woken").             *)
(*                                                                         *)
(* A payload is represented by the instant it was received.  A future is   *)
(* named by the caller that created it, its leader: one call of            *)
(* get_or_fetch creates at most one future.                                *)
(***************************************************************************)
EXTENDS Naturals, FiniteSets

CONSTANTS
    Callers,      \* slots for concurrent calls of fetch
    Keys,         \* cache keys, "service:identifier"
    None,         \* absence: no entry, no future, no key
    Ttl,          \* Ttl[k]: policy.ttl_seconds of the service of k
    Retries,      \* Retries[k]: policy.retries
    ServeStale,   \* ServeStale[k]: policy.serve_stale_on_error
    Faults,       \* the ways an attempt may fail in this instance
    AdminEnabled, \* settings.enable_admin_endpoints: DELETE /_cache exists
    MaxTime,      \* bound: the clock stops here
    MaxCancels    \* bound: how many fetches the ASGI server may cancel

\* Timeouts and connection errors share one branch of _load ("transport").
\* "malformed" is a 2xx whose body is unusable, and stands too for any other
\* exception (httpx.DecodingError, a bug in parse): both leave _load at once
\* and carry no status code.  http4xx is any 4xx but 404.
Retryable == {"transport", "http5xx"}
Final     == {"http404", "http4xx", "malformed"}

ASSUME CallersAssumption == None \notin Callers /\ None \notin Keys
ASSUME PolicyAssumption ==
    /\ Ttl \in [Keys -> Nat]
    /\ Retries \in [Keys -> Nat]
    /\ ServeStale \in [Keys -> BOOLEAN]
ASSUME FaultsAssumption == Faults \subseteq Retryable \cup Final
ASSUME BoundsAssumption ==
    AdminEnabled \in BOOLEAN /\ MaxTime \in Nat /\ MaxCancels \in Nat

Entry    == [value : Nat, expires_at : Nat]
\* What a settled future holds: a value, or an exception.
Outcome  == [exc : Faults \cup {"none", "cancelled"}, value : Nat]
\* domain.FetchResult.  A stale success keeps the error that caused it.
FetchResult == [ok : BOOLEAN, stale : BOOLEAN, value : Nat,
                error : Faults \cup {"none"}]

ASSUME NoneAssumption == None \notin Nat \cup Entry \cup Outcome \cup FetchResult

VARIABLES
    now,        \* time.monotonic(), in coarse ticks
    entries,    \* TTLCache._entries: key -> _Entry or None
    in_flight,  \* TTLCache._in_flight: key -> the leader of the refresh, or None
    pc,         \* where each call of fetch stands
    key,        \* the cache key of the call
    started,    \* when the call looked the cache up
    attempt,    \* the loop variable of _load
    awaits,     \* the leader whose future a waiting call awaits
    outcome,    \* what that future delivered to a woken call
    result,     \* what fetch returned
    cancelled,  \* leaders whose still unsettled future was cancelled
    cancels     \* cancellations so far

cacheVars == <<entries, in_flight>>
callVars  == <<pc, key, started, attempt, awaits, outcome, result>>
vars == <<now, entries, in_flight, pc, key, started, attempt, awaits, outcome,
          result, cancelled, cancels>>

-----------------------------------------------------------------------------
Loading(c) == pc[c] \in {"loading", "backoff"}
Active(c)  == pc[c] \in {"loading", "backoff", "waiting", "woken"}
Done(c)    == pc[c] \in {"returned", "raised"}

\* Mutant of Fresh: the expiry is not looked at.
FreshForever(k) == entries[k] # None

\* TTLCache.get: an entry counts only while now < expires_at.
Fresh(k) == entries[k] # None /\ now < entries[k].expires_at

\* The tasks suspended on the future of leader l.
Waiters(l) == {d \in Callers : pc[d] = "waiting" /\ awaits[d] = l}

\* The ready queue of the event loop is first in, first out: a task woken by a
\* failed load runs before any response to a later request can arrive.
FailureWakeupDue(k) ==
    \E d \in Callers : /\ pc[d] = "woken"
                       /\ key[d] = k
                       /\ outcome[d].exc \in Faults

Live(v)       == [ok |-> TRUE,  stale |-> FALSE, value |-> v, error |-> "none"]
Stale(v, exc) == [ok |-> TRUE,  stale |-> TRUE,  value |-> v, error |-> exc]
Failed(exc)   == [ok |-> FALSE, stale |-> FALSE, value |-> 0, error |-> exc]

\* Mutant of Fallback: only a retryable fault is answered from the cache.
FallbackIfRetryable(k, exc) ==
    IF ServeStale[k] /\ entries[k] # None /\ exc \in Retryable
    THEN Stale(entries[k].value, exc)
    ELSE Failed(exc)

\* The except branch of fetch: any failed load may be answered by the last
\* good payload, whatever its age.
Fallback(k, exc) ==
    IF ServeStale[k] /\ entries[k] # None
    THEN Stale(entries[k].value, exc)
    ELSE Failed(exc)

\* The type invariant; it includes the attempt budget of _load: retries + 1
\* attempts, and no back-off after the last one.
TypeOK ==
    /\ now \in Nat
    /\ entries \in [Keys -> Entry \cup {None}]
    /\ in_flight \in [Keys -> Callers \cup {None}]
    /\ pc \in [Callers -> {"idle", "loading", "backoff", "waiting", "woken",
                           "returned", "raised"}]
    /\ key \in [Callers -> Keys \cup {None}]
    /\ \A c \in Callers : pc[c] # "idle" => key[c] \in Keys
    /\ started \in [Callers -> Nat]
    /\ attempt \in [Callers -> Nat]
    /\ \A c \in Callers : pc[c] = "loading" => attempt[c] <= Retries[key[c]]
    /\ \A c \in Callers : pc[c] = "backoff" => attempt[c] < Retries[key[c]]
    /\ awaits \in [Callers -> Callers \cup {None}]
    /\ \A c \in Callers : pc[c] = "waiting" => awaits[c] \in Callers
    /\ outcome \in [Callers -> Outcome \cup {None}]
    /\ \A c \in Callers : pc[c] = "woken" => outcome[c] \in Outcome
    /\ result \in [Callers -> FetchResult \cup {None}]
    /\ \A c \in Callers : pc[c] = "returned" => result[c] \in FetchResult
    /\ cancelled \subseteq Callers
    /\ cancels \in Nat

Init ==
    /\ now = 0
    /\ entries = [k \in Keys |-> None]
    /\ in_flight = [k \in Keys |-> None]
    /\ pc = [c \in Callers |-> "idle"]
    /\ key = [c \in Callers |-> None]
    /\ started = [c \in Callers |-> 0]
    /\ attempt = [c \in Callers |-> 0]
    /\ awaits = [c \in Callers |-> None]
    /\ outcome = [c \in Callers |-> None]
    /\ result = [c \in Callers |-> None]
    /\ cancelled = {}
    /\ cancels = 0

-----------------------------------------------------------------------------
(* Entering fetch: the cache lookup of get_or_fetch, up to the first await. *)

\* Mutant of Enter: looking up an expired entry evicts it.
EnterEvicting(c, k) ==
    /\ pc[c] = "idle"
    /\ key' = [key EXCEPT ![c] = k]
    /\ started' = [started EXCEPT ![c] = now]
    /\ entries' = [entries EXCEPT ![k] = IF Fresh(k) THEN @ ELSE None]
    /\ UNCHANGED <<now, outcome, cancelled, cancels>>

Enter(c, k) ==
    /\ pc[c] = "idle"
    /\ key' = [key EXCEPT ![c] = k]
    /\ started' = [started EXCEPT ![c] = now]
    /\ UNCHANGED <<now, entries, outcome, cancelled, cancels>>

\* A fresh entry is returned without any upstream being involved.
Hit(c, k) ==
    /\ Enter(c, k)
    /\ Fresh(k)
    /\ pc' = [pc EXCEPT ![c] = "returned"]
    /\ result' = [result EXCEPT ![c] = Live(entries[k].value)]
    /\ UNCHANGED <<in_flight, attempt, awaits>>

\* A refresh is in flight: await its future.
Join(c, k) ==
    /\ Enter(c, k)
    /\ ~Fresh(k)
    /\ in_flight[k] # None
    /\ in_flight[k] \notin cancelled
    /\ pc' = [pc EXCEPT ![c] = "waiting"]
    /\ awaits' = [awaits EXCEPT ![c] = in_flight[k]]
    /\ UNCHANGED <<in_flight, attempt, result>>

\* The future in flight was cancelled: awaiting it raises CancelledError at
\* once, which "except Exception" does not catch.
JoinCancelled(c, k) ==
    /\ Enter(c, k)
    /\ ~Fresh(k)
    /\ in_flight[k] \in cancelled
    /\ pc' = [pc EXCEPT ![c] = "raised"]
    /\ UNCHANGED <<in_flight, attempt, awaits, result>>

\* Nobody is refreshing k: this call becomes the leader and sends attempt 0.
Lead(c, k) ==
    /\ Enter(c, k)
    /\ ~Fresh(k)
    /\ in_flight[k] = None
    /\ in_flight' = [in_flight EXCEPT ![k] = c]
    /\ pc' = [pc EXCEPT ![c] = "loading"]
    /\ attempt' = [attempt EXCEPT ![c] = 0]
    /\ UNCHANGED <<awaits, result>>

-----------------------------------------------------------------------------
(* The load ends.  Removing the future from _in_flight, settling it and, on *)
(* success, writing the entry happen without an await in between.           *)

\* Mutant of SettlePc: the future is dropped without being settled.
SettlePcUnsettled(l, c, at) == [pc EXCEPT ![c] = at]

\* pc and outcome once the future of l is settled with o: call c moves to `at'
\* and the other calls that await that future are woken.
SettlePc(l, c, at) ==
    [d \in Callers |-> IF d = c THEN at
                       ELSE IF d \in Waiters(l) THEN "woken" ELSE pc[d]]
SettleOutcome(l, c, o) ==
    [d \in Callers |-> IF d \in Waiters(l) \ {c} THEN o ELSE outcome[d]]

\* Mutant of EndLoad: the future stays in _in_flight.
EndLoadWithoutPop(c) ==
    /\ cancelled' = cancelled \ {c}
    /\ attempt' = [attempt EXCEPT ![c] = 0]
    /\ UNCHANGED in_flight

\* What every end of a load does: pop the future and forget the leadership.
EndLoad(c) ==
    /\ in_flight' = [in_flight EXCEPT ![key[c]] = None]
    /\ cancelled' = cancelled \ {c}
    /\ attempt' = [attempt EXCEPT ![c] = 0]

\* A 2xx with a body of the right shape.
Succeed(c) ==
    /\ pc[c] = "loading"
    /\ ~FailureWakeupDue(key[c])
    /\ EndLoad(c)
    /\ entries' = [entries EXCEPT ![key[c]] =
                       [value |-> now, expires_at |-> now + Ttl[key[c]]]]
    /\ pc' = SettlePc(c, c, "returned")
    /\ outcome' = SettleOutcome(c, c, [exc |-> "none", value |-> now])
    /\ result' = [result EXCEPT ![c] = Live(now)]
    /\ UNCHANGED <<now, key, started, awaits, cancels>>

\* Mutant of BackOff: one attempt more than the policy allows.
BackOffOnceMore(c, exc) ==
    /\ pc[c] = "loading"
    /\ exc \in Retryable
    /\ attempt[c] <= Retries[key[c]]
    /\ pc' = [pc EXCEPT ![c] = "backoff"]
    /\ UNCHANGED <<now, entries, in_flight, key, started, attempt, awaits,
                   outcome, result, cancelled, cancels>>

\* A retryable fault with attempts left: sleep before the next one.
BackOff(c, exc) ==
    /\ pc[c] = "loading"
    /\ exc \in Retryable
    /\ attempt[c] < Retries[key[c]]
    /\ pc' = [pc EXCEPT ![c] = "backoff"]
    /\ UNCHANGED <<now, entries, in_flight, key, started, attempt, awaits,
                   outcome, result, cancelled, cancels>>

\* The sleep is over: the next attempt is sent.
Retry(c) ==
    /\ pc[c] = "backoff"
    /\ pc' = [pc EXCEPT ![c] = "loading"]
    /\ attempt' = [attempt EXCEPT ![c] = @ + 1]
    /\ UNCHANGED <<now, entries, in_flight, key, started, awaits, outcome,
                   result, cancelled, cancels>>

\* The load fails for good.  If its future was cancelled meanwhile,
\* future.exception() raises CancelledError in place of the upstream's error,
\* and fetch raises instead of falling back.
Fail(c, exc) ==
    /\ pc[c] = "loading"
    /\ exc \in Final \/ attempt[c] = Retries[key[c]]
    /\ ~FailureWakeupDue(key[c])
    /\ EndLoad(c)
    /\ outcome' = SettleOutcome(c, c, [exc |-> exc, value |-> 0])
    /\ \/ /\ c \notin cancelled
          /\ pc' = SettlePc(c, c, "returned")
          /\ result' = [result EXCEPT ![c] = Fallback(key[c], exc)]
       \/ /\ c \in cancelled
          /\ pc' = SettlePc(c, c, "raised")
          /\ UNCHANGED result
    /\ UNCHANGED <<now, entries, key, started, awaits, cancels>>

-----------------------------------------------------------------------------
(* A waiting call is resumed with what the shared future holds.             *)

Resume(c) ==
    /\ pc[c] = "woken"
    /\ awaits' = [awaits EXCEPT ![c] = None]
    /\ outcome' = [outcome EXCEPT ![c] = None]
    /\ UNCHANGED <<now, entries, in_flight, key, started, attempt, cancelled, cancels>>

WakeWithValue(c) ==
    /\ Resume(c)
    /\ outcome[c].exc = "none"
    /\ pc' = [pc EXCEPT ![c] = "returned"]
    /\ result' = [result EXCEPT ![c] = Live(outcome[c].value)]

\* The fallback is decided by the cache as it is now, not as it was when the
\* load failed: a flush may have come in between.
WakeWithFailure(c) ==
    /\ Resume(c)
    /\ outcome[c].exc \in Faults
    /\ pc' = [pc EXCEPT ![c] = "returned"]
    /\ result' = [result EXCEPT ![c] = Fallback(key[c], outcome[c].exc)]

WakeWithCancel(c) ==
    /\ Resume(c)
    /\ outcome[c].exc = "cancelled"
    /\ pc' = [pc EXCEPT ![c] = "raised"]
    /\ UNCHANGED result

-----------------------------------------------------------------------------
(* The environment.                                                         *)

\* gather_context collects what fetch returned or raised; the slot is free.
Collect(c) ==
    /\ Done(c)
    /\ pc' = [pc EXCEPT ![c] = "idle"]
    /\ key' = [key EXCEPT ![c] = None]
    /\ started' = [started EXCEPT ![c] = 0]
    /\ result' = [result EXCEPT ![c] = None]
    /\ UNCHANGED <<now, entries, in_flight, attempt, awaits, outcome, cancelled, cancels>>

\* Mutant of Clear: the refreshes in flight are forgotten too.
ClearInFlight ==
    /\ AdminEnabled
    /\ entries' = [k \in Keys |-> None]
    /\ in_flight' = [k \in Keys |-> None]
    /\ UNCHANGED <<now, callVars, cancelled, cancels>>

\* DELETE /_cache: entries go, the refreshes in flight stay.
Clear ==
    /\ AdminEnabled
    /\ entries' = [k \in Keys |-> None]
    /\ UNCHANGED <<now, in_flight, callVars, cancelled, cancels>>

Tick ==
    /\ now < MaxTime
    /\ now' = now + 1
    /\ UNCHANGED <<cacheVars, callVars, cancelled, cancels>>

\* The request that owns fetch c is cancelled: c unwinds with CancelledError.
Cancel(c) ==
    /\ cancels < MaxCancels
    /\ cancels' = cancels + 1
    /\ key' = [key EXCEPT ![c] = None]
    /\ started' = [started EXCEPT ![c] = 0]
    /\ awaits' = [awaits EXCEPT ![c] = None]
    /\ UNCHANGED <<now, entries, result>>

CancelledOutcome == [exc |-> "cancelled", value |-> 0]

\* A leader's load ends with CancelledError, which settles its future.
CancelLeader(c) ==
    /\ Loading(c)
    /\ Cancel(c)
    /\ EndLoad(c)
    /\ pc' = SettlePc(c, c, "idle")
    /\ outcome' = SettleOutcome(c, c, CancelledOutcome)

\* Mutant of CancelWaiter: the cancelled future is unregistered at once.
CancelWaiterAndPop(c) ==
    /\ pc[c] = "waiting"
    /\ Cancel(c)
    /\ in_flight' = [in_flight EXCEPT ![key[c]] = None]
    /\ pc' = SettlePc(awaits[c], c, "idle")
    /\ outcome' = SettleOutcome(awaits[c], c, CancelledOutcome)
    /\ UNCHANGED <<attempt, cancelled>>

\* Cancelling a task that awaits the shared future cancels that future, and so
\* wakes every other waiter.  The load itself goes on, still registered.
CancelWaiter(c) ==
    /\ pc[c] = "waiting"
    /\ Cancel(c)
    /\ cancelled' = cancelled \cup {awaits[c]}
    /\ pc' = SettlePc(awaits[c], c, "idle")
    /\ outcome' = SettleOutcome(awaits[c], c, CancelledOutcome)
    /\ UNCHANGED <<in_flight, attempt>>

CancelWoken(c) ==
    /\ pc[c] = "woken"
    /\ Cancel(c)
    /\ pc' = [pc EXCEPT ![c] = "idle"]
    /\ outcome' = [outcome EXCEPT ![c] = None]
    /\ UNCHANGED <<in_flight, attempt, cancelled>>

-----------------------------------------------------------------------------
Start(c) == \E k \in Keys : Hit(c, k) \/ Join(c, k) \/ JoinCancelled(c, k) \/ Lead(c, k)

\* The answer to an HTTP attempt, or its timeout.
Answer(c) == Succeed(c) \/ \E exc \in Faults : BackOff(c, exc) \/ Fail(c, exc)

Wake(c) == WakeWithValue(c) \/ WakeWithFailure(c) \/ WakeWithCancel(c)

Cancellation(c) == CancelLeader(c) \/ CancelWaiter(c) \/ CancelWoken(c)

Next ==
    \/ \E c \in Callers :
          \/ Start(c) \/ Answer(c) \/ Retry(c) \/ Wake(c)
          \/ Collect(c) \/ Cancellation(c)
    \/ Clear
    \/ Tick

Spec == Init /\ [][Next]_vars

\* timeout_seconds ends every attempt, asyncio.sleep ends every back-off, and
\* the event loop resumes every task whose future is settled.  Nothing obliges
\* a new fetch, a flush, a cancellation or the clock.
Fairness == \A c \in Callers : WF_vars(Answer(c)) /\ WF_vars(Retry(c)) /\ WF_vars(Wake(c))

FairSpec == Spec /\ Fairness

-----------------------------------------------------------------------------
(* Properties.                                                              *)

\* However calls, failures, flushes and cancellations interleave, two loads
\* of one key never run at the same time (cache.py: "running loader at most
\* once per key").
SingleFlight ==
    \A c, d \in Callers : Loading(c) /\ Loading(d) /\ key[c] = key[d] => c = d

\* A call that awaits a shared future awaits one that a running load of the
\* same key will settle, and every future in flight has such a load: no waiter
\* is orphaned and no key is blocked by a refresh that is over.
NoOrphan ==
    /\ \A c \in Callers : pc[c] = "waiting" =>
          /\ Loading(awaits[c])
          /\ key[awaits[c]] = key[c]
          /\ awaits[c] \notin cancelled
    /\ \A k \in Keys : in_flight[k] # None =>
          Loading(in_flight[k]) /\ key[in_flight[k]] = k

\* FetchResult.stale tells the truth to every caller, leader or follower: an
\* answer is flagged stale exactly when its payload had outlived its TTL before
\* the call began; any other payload was fresh then, or received since.
StaleFlagTruthful ==
    \A c \in Callers : pc[c] = "returned" /\ result[c].ok =>
        LET expiry == result[c].value + Ttl[key[c]]
        IN  IF result[c].stale
            THEN expiry <= started[c]
            ELSE expiry > started[c] \/ result[c].value >= started[c]

\* A payload, once cached, is lost by nothing but a flush, and is only ever
\* replaced by one received later: no lookup, failure, late answer or
\* cancellation takes away what stale-on-error needs.
RetentionStep ==
    \A k \in Keys : entries[k] # None =>
        IF entries'[k] = None
        THEN AdminEnabled /\ pc' = pc /\ \A j \in Keys : entries'[j] = None
        ELSE entries'[k].value >= entries[k].value
Retention == [][RetentionStep]_vars

\* Every fetch ends: the leader because attempts are bounded in number and in
\* time, a follower because its leader ends and settles the future.
FetchEnds == \A c \in Callers : Active(c) ~> ~Active(c)

\* "Degraded and not broken": a call that is running while its key has any
\* payload, however old, ends with a payload, whatever the upstream does, unless
\* the payload is flushed meanwhile or somebody is cancelled.
DegradedNotBroken ==
    \A c \in Callers, k \in Keys :
        (Active(c) /\ key[c] = k /\ entries[k] # None /\ ServeStale[k])
            ~> \/ pc[c] = "returned" /\ result[c].ok
               \/ entries[k] = None \/ cancels > 0

(* The abstract view of this state, in which FetchContract states what is   *)
(* promised to a caller.                                                    *)
Memory == [k \in Keys |-> IF entries[k] = None THEN None ELSE entries[k].value]
Status == [c \in Callers |-> IF Active(c) THEN "asking"
                             ELSE IF pc[c] = "returned" THEN "answered" ELSE pc[c]]

Contract == INSTANCE FetchContract WITH
    time <- now, memory <- Memory, refresher <- in_flight, status <- Status,
    wants <- key, since <- started, reply <- result

\* The cache and the client keep the contract of FetchContract: a lock per key
\* that only its holder gives up, a memory that only the holder writes, and
\* answers that were fresh, arrived since, or come from the memory as it is.
\* Nothing a retry, a late wake-up, a flush or a cancelled call does shows.
KeepsContract == Contract!ContractSpec

\* base.py: fetch "Never raises", so neither does one that waits for the load of
\* another.  It does: a cancelled leader settles the shared future with its own
\* CancelledError, which "except Exception" lets through in the follower.
FetchReturns ==
    [][\A c \in Callers : pc[c] \in {"waiting", "woken"} => pc'[c] # "raised"]_vars
=============================================================================
