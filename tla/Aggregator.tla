---------------------------- MODULE Aggregator ----------------------------
(***************************************************************************)
(* Concurrent requests fanning out over the services and folding the       *)
(* results into a context bundle:                                          *)
(*   app/services/aggregator.py  gather_context, CriticalServiceError      *)
(*   app/services/*.py           the cache key of each client              *)
(*   app/api/router.py           404 / 503 of _run_pipeline                *)
(* on top of the shared cache of UpstreamFetch.  A caller of UpstreamFetch *)
(* is <<r, s>>: the task in which request r fetches service s.             *)
(***************************************************************************)
EXTENDS UpstreamFetch, Sequences, FiniteSets

CONSTANTS
    Requests,     \* slots for concurrent POST /personalize requests
    Users,
    ServiceOrder, \* the clients, in the order of CLIENT_TYPES
    Required,     \* services whose policy.criticality is REQUIRED
    DateKeyed,    \* services whose cache_identifier is date.today()
    DayLength     \* ticks from one midnight to the next

Services == {ServiceOrder[i] : i \in DOMAIN ServiceOrder}

\* date.today(), and the day a payload was received on.
DayOf(t) == t \div DayLength
Days     == 0 .. DayOf(MaxTime)

\* cache_key(self.name, self.cache_identifier(identifier)) at time t.
CacheKey(s, u, t) == IF s \in DateKeyed THEN <<s, DayOf(t)>> ELSE <<s, u>>

ASSUME FanOutAssumption ==
    /\ Callers = Requests \X Services
    /\ Keys = {<<s, u>> : s \in Services \ DateKeyed, u \in Users}
              \cup (DateKeyed \X Days)
    /\ Required \subseteq Services /\ DateKeyed \subseteq Services
    /\ DayLength \in Nat \ {0}
    /\ None \notin Users

VARIABLES
    phase,    \* phase[r]: "idle", "gathering", "cancelling", or how it was answered
    user,     \* payload.user_id
    received, \* when the request arrived
    bundle    \* the ContextBundle gather_context returned

reqVars == <<phase, user, received, bundle>>
aggVars == <<vars, reqVars>>

Call(r, s) == <<r, s>>
CallsOf(r) == {Call(r, s) : s \in Services}

\* "context": a bundle was returned; "404" and "503": the HTTPException.
Answers == {"context", "404", "503"}
EmptyBundle == [data |-> <<>>, stale |-> {}, failures |-> {}]

AggTypeOK ==
    /\ TypeOK
    /\ phase \in [Requests -> {"idle", "gathering", "cancelling"} \cup Answers]
    /\ user \in [Requests -> Users \cup {None}]
    /\ received \in [Requests -> Nat]
    /\ \A r \in Requests :
          /\ phase[r] = "idle" => \A s \in Services : pc[Call(r, s)] = "idle"
          /\ bundle[r].stale \subseteq DOMAIN bundle[r].data
          /\ phase[r] = "context" =>
                /\ DOMAIN bundle[r].data = Services \ bundle[r].failures
                /\ bundle[r].failures \subseteq Services \ Required

AggInit ==
    /\ Init
    /\ phase = [r \in Requests |-> "idle"]
    /\ user = [r \in Requests |-> None]
    /\ received = [r \in Requests |-> 0]
    /\ bundle = [r \in Requests |-> EmptyBundle]

-----------------------------------------------------------------------------
\* _run_pipeline reaches gather_context, which creates one task per service.
Receive(r, u) ==
    /\ phase[r] = "idle"
    /\ phase' = [phase EXCEPT ![r] = "gathering"]
    /\ user' = [user EXCEPT ![r] = u]
    /\ received' = [received EXCEPT ![r] = now]
    /\ UNCHANGED <<vars, bundle>>

NotStarted(r) == {s \in Services : phase[r] = "gathering" /\ pc[Call(r, s)] = "idle"}

\* One of those tasks runs up to its first await.
StartCall(r, s) ==
    /\ s \in NotStarted(r)
    /\ LET c == Call(r, s)
           k == CacheKey(s, user[r], now)
       IN  Hit(c, k) \/ Join(c, k) \/ JoinCancelled(c, k) \/ Lead(c, k)
    /\ UNCHANGED reqVars

CallsInPhase(ph) == UNION {CallsOf(r) : r \in {q \in Requests : phase[q] = ph}}

\* A running fetch goes on.
FetchStep(c) ==
    /\ c \in CallsInPhase("gathering")
    /\ Answer(c) \/ Retry(c) \/ Wake(c)
    /\ UNCHANGED reqVars

Gathered(r) == phase[r] = "gathering" /\ \A c \in CallsOf(r) : Done(c)

\* The loop over zip(names, results).  What a client raises is a failure like
\* any other; the first REQUIRED failure, in client order, ends the request.
Succeeded(r)  == {s \in Services : pc[Call(r, s)] = "returned" /\ result[Call(r, s)].ok}
FailedOf(r)   == Services \ Succeeded(r)
\* Mutants of Critical: the policy is ignored; every service is taken as
\* required.
CriticalNever(r) == {}
CriticalAlways(r) == FailedOf(r)

Critical(r)   == FailedOf(r) \cap Required
FirstCritical(r) ==
    ServiceOrder[CHOOSE i \in DOMAIN ServiceOrder :
        /\ ServiceOrder[i] \in Critical(r)
        /\ \A j \in 1 .. i - 1 : ServiceOrder[j] \notin Critical(r)]
NotFound(c) == pc[c] = "returned" /\ ~result[c].ok /\ result[c].error = "http404"

\* Mutant of Bundle: the stale flags are not carried over.
BundleUnflagged(r) ==
    [data     |-> [s \in Succeeded(r) |-> result[Call(r, s)].value],
     stale    |-> {},
     failures |-> FailedOf(r)]

Bundle(r) ==
    [data     |-> [s \in Succeeded(r) |-> result[Call(r, s)].value],
     stale    |-> {s \in Succeeded(r) : result[Call(r, s)].stale},
     failures |-> FailedOf(r)]

\* The tasks of r are finished: their slots are free again.
ReleaseCalls(r) ==
    /\ pc' = [c \in Callers |-> IF c \in CallsOf(r) THEN "idle" ELSE pc[c]]
    /\ key' = [c \in Callers |-> IF c \in CallsOf(r) THEN None ELSE key[c]]
    /\ started' = [c \in Callers |-> IF c \in CallsOf(r) THEN 0 ELSE started[c]]
    /\ result' = [c \in Callers |-> IF c \in CallsOf(r) THEN None ELSE result[c]]
    /\ UNCHANGED <<now, entries, in_flight, attempt, awaits, outcome, cancelled, cancels>>

FoldContext(r) ==
    /\ Gathered(r)
    /\ Critical(r) = {}
    /\ phase' = [phase EXCEPT ![r] = "context"]
    /\ bundle' = [bundle EXCEPT ![r] = Bundle(r)]
    /\ ReleaseCalls(r)
    /\ UNCHANGED <<user, received>>

\* CriticalServiceError: a 404 of the upstream is a 404 to the caller, anything
\* else is a 503.
FoldCritical(r) ==
    /\ Gathered(r)
    /\ Critical(r) # {}
    /\ phase' = [phase EXCEPT ![r] =
                    IF NotFound(Call(r, FirstCritical(r))) THEN "404" ELSE "503"]
    /\ ReleaseCalls(r)
    /\ UNCHANGED <<user, received, bundle>>

\* The response is sent; the slot may serve another request.
Respond(r) ==
    /\ phase[r] \in Answers
    /\ phase' = [phase EXCEPT ![r] = "idle"]
    /\ user' = [user EXCEPT ![r] = None]
    /\ received' = [received EXCEPT ![r] = 0]
    /\ bundle' = [bundle EXCEPT ![r] = EmptyBundle]
    /\ UNCHANGED vars

\* The task of the request is cancelled while it awaits gather, which passes it
\* on to every fetch: those that have not started never will, and no running one
\* returns any more.  MaxCancels leaves room for all of them.
CancelRequest(r) ==
    /\ phase[r] = "gathering"
    /\ cancels + Cardinality(CallsInPhase("cancelling") \cup CallsOf(r)) <= MaxCancels
    /\ phase' = [phase EXCEPT ![r] = "cancelling"]
    /\ UNCHANGED <<vars, user, received, bundle>>

\* A fetch of a cancelled request unwinds; what a finished one holds is dropped.
Unwind(c) ==
    /\ c \in CallsInPhase("cancelling")
    /\ Cancellation(c) \/ Collect(c)
    /\ UNCHANGED reqVars

\* CancelledError leaves the handler: nobody is answered.
Leave(r) ==
    /\ phase[r] = "cancelling"
    /\ \A c \in CallsOf(r) : pc[c] = "idle"
    /\ phase' = [phase EXCEPT ![r] = "idle"]
    /\ user' = [user EXCEPT ![r] = None]
    /\ received' = [received EXCEPT ![r] = 0]
    /\ UNCHANGED <<vars, bundle>>

\* The tasks created by gather run in the next iteration of the event loop, and
\* so does the unwinding of cancelled ones: no tick comes in between.
AggTick ==
    /\ \A r \in Requests : NotStarted(r) = {} /\ phase[r] # "cancelling"
    /\ Tick
    /\ UNCHANGED reqVars

Flush == Clear /\ UNCHANGED reqVars

AggNext ==
    \/ \E r \in Requests :
          \/ \E u \in Users : Receive(r, u)
          \/ \E s \in Services : StartCall(r, s)
          \/ FoldContext(r) \/ FoldCritical(r) \/ Respond(r)
          \/ CancelRequest(r) \/ Leave(r)
    \/ \E c \in Callers : FetchStep(c) \/ Unwind(c)
    \/ Flush
    \/ AggTick

AggSpec == AggInit /\ [][AggNext]_aggVars

\* The event loop runs every task that is ready; see Fairness.
AggFairness ==
    /\ \A c \in Callers : WF_aggVars(FetchStep(c)) /\ WF_aggVars(Unwind(c))
    /\ \A r \in Requests :
          /\ \A s \in Services : WF_aggVars(StartCall(r, s))
          /\ WF_aggVars(FoldContext(r) \/ FoldCritical(r)) /\ WF_aggVars(Leave(r))

FairAggSpec == AggSpec /\ AggFairness

-----------------------------------------------------------------------------
(* Properties.                                                              *)

\* Whoever led the load and however requests overlapped, bundle.stale names
\* exactly the services whose payload had outlived its TTL before the request
\* arrived (aggregator.py, base.py).
BundleStaleTruthful ==
    \A r \in Requests : phase[r] = "context" =>
        \A s \in DOMAIN bundle[r].data :
            LET v == bundle[r].data[s]
                expiry == v + Ttl[CacheKey(s, user[r], received[r])]
            IN  IF s \in bundle[r].stale
                THEN expiry <= received[r]
                ELSE expiry > received[r] \/ v >= received[r]

\* The almanac in an answer is never that of a day before the request, not even
\* when it is served stale: panchang.py "rolls over at midnight".
AlmanacOfTheDay ==
    \A r \in Requests : phase[r] = "context" =>
        \A s \in DateKeyed \cap DOMAIN bundle[r].data :
            DayOf(bundle[r].data[s]) >= DayOf(received[r])

\* cache.py: "when an upstream is down we can answer with yesterday's panchang
\* instead of nothing".  An answer without an almanac then means that none had
\* been received before the request.  But yesterday's is kept under yesterday's
\* key, where the fallback of today's fetch does not look.
YesterdayInsteadOfNothing ==
    \A r \in Requests : phase[r] = "context" =>
        \A s \in DateKeyed \cap bundle[r].failures, d \in Days :
            entries[<<s, d>>] # None => entries[<<s, d>>].value >= received[r]

\* The payloads without which r cannot be answered are in the cache.
Covered(r) ==
    \A s \in Required : entries[CacheKey(s, user[r], received[r])] # None

\* "One failure does not become no answer": a request whose required payloads are
\* in the cache, however old, before their fetches end gets its context, whatever
\* the upstreams do, unless one is flushed meanwhile or somebody is cancelled.
FailuresContained ==
    \A r \in Requests :
        (/\ phase[r] = "gathering" /\ Covered(r)
         /\ \A s \in Required : ~Done(Call(r, s)))
            ~> \/ phase[r] \in {"context", "cancelling"} \/ cancels > 0
               \/ phase[r] = "gathering" /\ ~Covered(r)

\* Every request is answered or was itself cancelled: one that is cancelled, as a
\* leader or as a follower of the loads it shares, leaves no other one hanging,
\* and all that is left of it is its slot.
RequestsAnswered ==
    \A r \in Requests :
        phase[r] \in {"gathering", "cancelling"} ~> phase[r] \in Answers \cup {"idle"}

\* The user service answered 404 to the fetch of this request.
SaidUnknown(r) ==
    \E s \in Required : pc[Call(r, s)] = "returned" /\ result[Call(r, s)].error = "http404"

\* README and ARCHITECTURE: an unknown user is a 404.
UnknownUserIs404 ==
    [][\A r \in Requests :
          Gathered(r) /\ SaidUnknown(r) /\ phase'[r] # phase[r] => phase'[r] = "404"]_aggVars
=============================================================================
