------------------------------ MODULE Pipeline ------------------------------
(***************************************************************************)
(* One request from the fan-out on: _run_pipeline, personalize and         *)
(* debug_personalization of app/api/router.py, with the planner, the       *)
(* selector's walk, the prompt, the model and app/confidence.py.  The      *)
(* verdict (see Classifier) and the outcome of the fan-out (see            *)
(* Aggregator) are inputs.                                                 *)
(***************************************************************************)
EXTENDS Planner, Selector, Completion

CONSTANTS
    Classifications, \* the verdicts of the classifier this instance enumerates
    Profiles,        \* the user profiles, reduced to subscription, tone
                     \* and the words of the name
    Gaps             \* the sets of items missing from healthy payloads

\* What the enumerations of domain.py allow a verdict to say; its first intent has
\* the larger share.  The registry takes an item from the user service.
ASSUME PipelineAssumption ==
    /\ \A c \in Classifications :
          /\ c.top \in Intents /\ c.second \in Intents \cup {None}
          /\ c.scope \in Scopes /\ c.share \in 50 .. 100
    /\ \A p \in Profiles : p.name \in Nat
    /\ DOMAIN HorizonWords = Scopes
    /\ "user" \in Services
    /\ None \notin Intents /\ None # "mock"

VARIABLES
    phase,     \* "gathered", "resolving", "generating", "answered"
    cls,       \* the ClassificationResult
    account,   \* the fetch of "user": "delivered", "unknown" (404), "unreachable"
    profile,   \* bundle.payload("user")
    tone, max_words,
    answer     \* the response

pipeVars == <<phase, cls, account, profile, tone, max_words, answer>>
allVars  == <<selVars, pipeVars>>

Levels == <<"LOW", "MEDIUM", "HIGH">>
Rk(c)  == CHOOSE n \in DOMAIN Levels : Levels[n] = c
Lower(c, d) == IF Rk(c) <= Rk(d) THEN c ELSE d

NoAnswer ==
    [status |-> 0, debug |-> FALSE, llm |-> FALSE, outcome |-> None, confidence |-> "LOW",
     sources |-> <<>>, told |-> <<>>, words |-> 0, cut |-> FALSE]

InDomain == cls.reason # "OUT_OF_DOMAIN"

PipelineTypeOK ==
    /\ SelTypeOK
    /\ phase \in {"gathered", "resolving", "generating", "answered"}
    /\ cls \in Classifications
    /\ profile \in Profiles
    /\ account \in {"delivered", "unknown", "unreachable"}
    /\ account # "delivered" <=> "user" \in failures
    /\ answer.status \in {0, 200, 404, 502, 503}
    /\ phase = "answered" <=> answer.status # 0

\* gather_context is over: any of the services may have failed, and healthy
\* payloads may lack some slices.
PipelineInit ==
    /\ phase = "gathered"
    /\ cls \in Classifications
    /\ profile \in Profiles
    /\ account \in {"delivered", "unknown", "unreachable"}
    /\ \E down \in SUBSET (Services \ {"user"}) :
          failures = IF account = "delivered" THEN down ELSE down \cup {"user"}
    /\ \E gap \in Gaps : present = Items \ gap
    /\ ranked = ItemOrder /\ positive = {} /\ excluded = {}
    /\ StartWalk
    /\ tone = DefaultTone /\ max_words = 0
    /\ answer = NoAnswer

-----------------------------------------------------------------------------
Finish(a) ==
    /\ phase' = "answered"
    /\ answer' = a
    /\ UNCHANGED <<selVars, cls, account, profile, tone, max_words>>

\* CriticalServiceError, whatever the question is about.
RejectUnknownUser ==
    /\ phase = "gathered"
    /\ account = "unknown"
    /\ Finish([NoAnswer EXCEPT !.status = 404])

RejectUnavailable ==
    /\ phase = "gathered"
    /\ account = "unreachable"
    /\ Finish([NoAnswer EXCEPT !.status = 503])

\* Mutant of Plan: the ranking is kept in the order of the registry.
PlanUnsorted ==
    /\ phase = "gathered"
    /\ account = "delivered"
    /\ positive' = Positive(cls)
    /\ excluded' = Excluded(cls)
    /\ tone' = Tone(cls, profile)
    /\ max_words' = MaxWords(cls, profile)
    /\ phase' = "resolving"
    /\ UNCHANGED <<ranked, bundleVars, walkVars, cls, account, profile, answer>>

\* build_plan; the plan is built for questions out of domain too.
Plan ==
    /\ phase = "gathered"
    /\ account = "delivered"
    /\ ranked' = Ranking(cls)
    /\ positive' = Positive(cls)
    /\ excluded' = Excluded(cls)
    /\ tone' = Tone(cls, profile)
    /\ max_words' = MaxWords(cls, profile)
    /\ phase' = "resolving"
    /\ UNCHANGED <<bundleVars, walkVars, cls, account, profile, answer>>

\* resolve(), a round of its loop at a time.
Resolve ==
    /\ phase = "resolving"
    /\ InDomain
    /\ Walk
    /\ UNCHANGED pipeVars

\* /debug/personalization: the selection is reported and no model is called.
Explain ==
    /\ phase = "resolving"
    /\ InDomain => Resolved
    /\ Finish([NoAnswer EXCEPT !.status = 200, !.debug = TRUE, !.sources = Listed("selected")])

\* OUT_OF_DOMAIN_ANSWER, without resolving anything.
DeclineOutOfDomain ==
    /\ phase = "resolving"
    /\ ~InDomain
    /\ Finish([NoAnswer EXCEPT !.status = 200])

\* NO_CONTEXT_ANSWER: nothing was selected.
DeclineWithoutContext ==
    /\ phase = "resolving"
    /\ InDomain /\ Resolved
    /\ Listed("selected") = <<>>
    /\ Finish([NoAnswer EXCEPT !.status = 200])

\* build_prompt, and the call of the model is under way.
Generate ==
    /\ phase = "resolving"
    /\ InDomain /\ Resolved
    /\ Listed("selected") # <<>>
    /\ phase' = "generating"
    /\ UNCHANGED <<selVars, cls, account, profile, tone, max_words, answer>>

\* Mutant of GenerationFails: a failed call is made again.
GenerationRetried ==
    /\ phase = "generating"
    /\ phase' = "resolving"
    /\ UNCHANGED <<selVars, cls, account, profile, tone, max_words, answer>>

\* LLMError: 502 rather than a fabricated answer.
GenerationFails ==
    /\ phase = "generating"
    /\ \E outcome \in ProviderOutcomes :
          /\ Raises(outcome)
          /\ Finish([NoAnswer EXCEPT !.status = 502, !.llm = TRUE, !.outcome = outcome])

\* confidence.py.  PRIMARY_SOURCE_SAMPLE is 3.
Sampled == {ranked[n] : n \in 1 .. 3} \cap positive
SampledSelected == Sampled \cap InBucket("selected")

\* Mutant of Grounding: two of three primary sources are enough.
GroundingLenient ==
    LET have == 10 * Cardinality(SampledSelected)
        of   == Cardinality(Sampled)
    IN  CASE Sampled = {}   -> "LOW"
          [] have >= 6 * of -> "HIGH"
          [] have >= 4 * of -> "MEDIUM"
          [] OTHER          -> "LOW"

\* coverage >= 0.8 and coverage >= 0.4, in integers.
Grounding ==
    LET have == 10 * Cardinality(SampledSelected)
        of   == Cardinality(Sampled)
    IN  CASE Sampled = {}   -> "LOW"
          [] have >= 8 * of -> "HIGH"
          [] have >= 4 * of -> "MEDIUM"
          [] OTHER          -> "LOW"

CapByReason ==
    CASE cls.reason = "CONFIDENT_MATCH" -> "HIGH"
      [] cls.reason = "OUT_OF_DOMAIN"   -> "LOW"
      [] OTHER                          -> "MEDIUM"

\* What personalize returns around a completion.
Completed(outcome) ==
    [NoAnswer EXCEPT !.status = 200, !.llm = TRUE, !.outcome = outcome,
                     !.confidence = Lower(Grounding, CapByReason),
                     !.sources = Listed("selected")]

ProviderAnswers ==
    /\ phase = "generating"
    /\ \E outcome \in ProviderOutcomes : ~Raises(outcome) /\ Finish(Completed(outcome))

\* The mock composes its answer from the prompt it is given.
MockAnswers ==
    /\ phase = "generating"
    /\ \E offset \in Offsets :
          LET prompt == Prompt(Listed("selected"), tone, cls.scope, profile.name)
              reply  == Reply(prompt, max_words, offset)
          IN  Finish([Completed("mock") EXCEPT !.told = reply.told, !.words = reply.words,
                                               !.cut = reply.cut])

PipelineNext ==
    \/ RejectUnknownUser \/ RejectUnavailable
    \/ Plan \/ Resolve
    \/ Explain \/ DeclineOutOfDomain \/ DeclineWithoutContext
    \/ Generate \/ GenerationFails \/ ProviderAnswers \/ MockAnswers

PipelineSpec == PipelineInit /\ [][PipelineNext]_allVars

\* The handler is run to its end by the event loop, and every client of a model
\* returns or raises in the end: the SDKs time their calls out.
FairPipelineSpec == PipelineSpec /\ WF_allVars(PipelineNext)

-----------------------------------------------------------------------------
(* Properties.                                                              *)

\* The plan of the request has been built.
Planned == phase # "gathered" /\ account = "delivered"

Answered == phase = "answered" /\ answer.llm /\ answer.status = 200

\* The sources of an answer are real and wanted: there is at least one, each
\* was delivered by a healthy service, and none is ruled out by an intent of
\* the question, not even when the other intent of a merge makes it primary.
SourcesLegitimate ==
    Answered =>
        /\ answer.sources # <<>>
        /\ \A n \in DOMAIN answer.sources :
              LET k == answer.sources[n]
              IN  /\ ServiceOf[k] \notin failures /\ k \in present
                  /\ \A x \in Active(cls) : k \notin Exclude[x]

\* No item reaches the prompt in the place of a better scored one that was there
\* to be told, unless the better one is dearer than what it had to yield to: the
\* order is that of the scores, not of the registry, and survives the walk.
BestContextFirst ==
    phase = "generating" =>
        \A k \in InBucket("selected"), j \in Items :
            bucket[j] # "selected" /\ HasValue(j) /\ Score(j, cls) > Score(k, cls)
                => TokenCost[j] > TokenCost[k]

\* HIGH is only reported for a confident classification whose best ranked
\* candidates all reached the prompt; two thirds of them are not enough.
HighConfidenceEarned ==
    phase = "answered" /\ answer.confidence = "HIGH" =>
        /\ cls.reason = "CONFIDENT_MATCH"
        /\ \A n \in 1 .. 3 : ranked[n] \in positive => bucket[ranked[n]] = "selected"

\* Every active intent gets its veto (planner.py: "Every ACTIVE intent gets a
\* veto"; "the strongest intent's fallback is the one left standing").  The tone
\* sent to the model passes its guardrail, unless an active intent at least as
\* strong had to put a fallback of its own in its place.
EveryIntentVetoesTone ==
    Planned =>
        \A x \in Active(cls) : AllowedTones[x] # {} =>
            \/ tone \in AllowedTones[x]
            \/ \E y \in Active(cls) :
                  /\ Share(cls, y) >= Share(cls, x)
                  /\ AllowedTones[y] # {} /\ tone = FallbackTone[y]

\* The length is never above what the subscription pays for, and an unknown
\* subscription is never allowed more than the most restrictive one.
LengthWithinSubscription ==
    Planned =>
        /\ max_words >= Floor
        /\ \/ profile.subscription \in DOMAIN SubscriptionCap
              /\ max_words <= SubscriptionCap[profile.subscription]
           \/ \A t \in DOMAIN SubscriptionCap : max_words <= SubscriptionCap[t]

\* The status tells the caller what failed, for questions out of domain too: 404
\* an unknown user, 503 a user service that is down, 502 a model that gave no
\* text.  Failures of the other services are never an error (router.py).
StatusTellsWhatFailed ==
    phase = "answered" =>
        /\ answer.status = 404 <=> account = "unknown"
        /\ answer.status = 503 <=> account = "unreachable"
        /\ answer.status = 502 <=> answer.llm /\ answer.outcome \notin {"text", "mock"}

\* The mock keeps to the plan's length by leaving out whole facts from the end
\* of the ranking; it never cuts a fact in the middle (mock.py, _fit).
MockToldWhole ==
    phase = "answered" /\ answer.outcome = "mock" =>
        /\ answer.words <= max_words
        /\ answer.told = SubSeq(answer.sources, 1, Len(answer.told))
        /\ answer.cut => answer.told = <<>>

\* The request runs resolve(): seen from the selector, the ranking, its positive
\* head and the exclusions are those of the planner from the start, and every
\* step of the request is a round of the walk or changes nothing it works on.
Awaited(planned, now) == IF phase = "gathered" /\ account = "delivered" THEN planned ELSE now
Resolver == INSTANCE Selector WITH
    ranked   <- Awaited(Ranking(cls), ranked),
    positive <- Awaited(Positive(cls), positive),
    excluded <- Awaited(Excluded(cls), excluded)
RunsResolve == Resolver!Spec

\* Every request is answered, whatever fails.
RequestEnds == <>(phase = "answered")

\* README: with all degradable services down the LLM is never called.
NoModelWithoutServices ==
    failures = Services \ {"user"} => ~(phase = "generating")
=============================================================================
