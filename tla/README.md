# Verification of the MyNaksh context engine

TLA+ models of the context engine under `src/app`, their TLC runs and their TLAPS
proofs. Line numbers refer to the files under `src/`; paths without a directory are under
`src/app`.

## 1. The system

A process **boots**: it reads three configuration documents, validates and lints them,
compiles the lexicon and the rules, builds a client per upstream service and chooses one
language model. After that, `POST /personalize` is one coroutine in a single-process
asyncio server:

1. the **classifier** turns the question into intents, a time scope and a reason;
2. the **aggregator** fetches the user, kundli, horoscope and panchang services
   concurrently, each through its **upstream client** and the **cache** that all requests
   share, and folds the results into a bundle; a failure of the required service ends the
   request with 404 or 503;
3. the **planner** scores the registry's items with the **compiled rules**, ranks them and
   fixes tone and length, without looking at the bundle;
4. the **selector** walks the ranking against the bundle and spends a token budget;
5. the **router** declines, or builds a **prompt**, calls the **language model** and reports
   the sources and a **confidence**.

| Component | State it keeps | Operations | Interacts by |
|---|---|---|---|
| cache (`services/cache.py`) | entries with expiry, refreshes in flight | get, get_stale, set, clear, get_or_fetch | shared dictionaries and shared futures |
| upstream client (`services/base.py`) | attempt counter of a load | fetch, retry loop, stale fallback | awaits HTTP, sleeps, the cache's future |
| service clients (`services/{user,kundli,horoscope,panchang}.py`) | none | cache key, parse | called by the aggregator |
| aggregator (`services/aggregator.py`) | the bundle under construction | gather_context | one task per service, exceptions |
| registry, compiler, planner (`engine/`) | immutable tables | compile_rules, plan | pure calls |
| selector (`engine/selector.py`) | the lists of one walk, tokens used | resolve | reads plan and bundle |
| confidence (`confidence.py`) | none | score_confidence, sources_used | pure calls |
| router (`api/router.py`) | none | personalize, debug, DELETE /_cache | calls all of the above |
| classifier (`classifier/`) | compiled lexicons; the tokens consumed by one question | classify | pure call, extractors in sequence |
| prompt, llm (`prompt/`, `llm/`) | none | build_prompt, generate | text, one outgoing call |
| configuration, application (`config/`, `config_*.py`, `main.py`) | loaded once; the connection pool | load, validate, lint, wire, shut down | read at boot |
| middleware, mock services, simulation script | log context, a fault table | | outside the core logic |

**What is hard.** Requests interleave at every await: the HTTP attempt, the back-off, the
shared future, and the gap between settling a future and resuming its waiters. Loads fail,
retry, outlive the entry they refresh, straddle midnight, race a flush, or die by
cancellation. In the classifier three extractors share one scan over a set of consumed
tokens, and phrases, stems and horizons overlap. In the engine the difficulty is in
combinations: exclusion against the weight of another intent and a modifier, guardrails of
two intents that veto each other's fallback, a budget that lets cheaper items pass, a confidence computed from a sample of
varying size. At boot, checks made by different steps see different forms of the same
entry. `hazards` in `PROJECT.json` lists them at their lines with the properties that
watch them.

**What makes each component correct.**
Cache and client: one load per key, no abandoned waiter, no lost payload, honest stale
flags, and termination. Aggregator: a bundle that says truthfully what is stale, no loss
through a degradable failure, an answer to every request. Classifier: a token is evidence
once, evidence says what the configuration says, the decision is earned, and every question
is decided. Planner: exclusion wins, every active intent gets its veto on the tone, the length
stays within what the subscription allows. Selector: the budget is neither overspent nor
wasted, and who may overtake whom. Pipeline: a status that tells what failed, sources that
were really available and wanted, and a confidence that is earned. Boot: a process that
serves has what was configured, and one that must not serve does not.

## 2. The modules

| Module | Models | Role |
|---|---|---|
| `UpstreamFetch` | `cache.py`, `base.py` | concurrent fetches over the shared cache |
| `FetchContract` | what `fetch` promises a caller | abstract specification that `UpstreamFetch` implements |
| `Aggregator` | `aggregator.py`, the clients' cache keys, 404/503 and the flush of the router | extends `UpstreamFetch`: a caller is a pair of request and service |
| `Scan` | `scan_longest` of `signals.py` | the scan three extractors share |
| `Lexicon` | keys, stems and weights of `signals.py` | operators, used by `Classifier` and `Boot` |
| `Classifier` | `rules.py`, `signals.py`, `domain_gate.py` | extends `Scan` and `Lexicon` |
| `Registry` | `registry.py` | items, services, fixed costs |
| `Selector` | `selector.py` | extends `Registry` |
| `Planner` | `compiler.py` as used, `planner.py` | extends `Registry`, operators only |
| `Completion` | `builder.py`, `mock.py`, how a provider's call ends | extends `Registry`, operators only |
| `Pipeline` | `router.py`, `confidence.py` | extends `Planner`, `Selector` and `Completion` |
| `Boot` | `main.py`, `config_loader.py`, `config_schema.py`, compilation, `factory.py` | extends `Lexicon` |
| `DataTheorems` | | induction, minima, finite sets and sums, used by the proofs |
| `..._proofs` | | theorems about the module they extend, see 4 |
| `MC...` | | finite instances; `MCPipeline` holds the shipped `personalization.yaml`, and is that of `Selector` too |

**UpstreamFetch.** One action per stretch of code between two awaits. `Hit`, `Join`,
`JoinCancelled` and `Lead` are the four ways through the lookup of `get_or_fetch`; `Succeed`,
`BackOff` and `Fail` are the answers an attempt can get; the `Wake...` actions are followers
resumed by the shared future; `CancelLeader`, `CancelWaiter` and `CancelWoken` are the
places a cancellation can strike. A payload is represented by the instant it was received,
so freshness, age and "which payload was served" are comparisons of instants. A future is
named by its leader. `FailureWakeupDue` keeps the order the event loop guarantees: a task
woken by a failed load runs before the response to a request sent later can arrive; a
wake-up with a value may be arbitrarily late, since nothing depends on it. Timeouts and
connection errors take the same branch and are one fault.

**FetchContract.** The cache is a memory and a lock per key; there are no loads, futures,
retries or wake-ups. Only the holder of a lock writes, at the moment it lets go, and a call
is answered by a payload that was fresh, by one that arrived since it asked, or by the
memory as it is. The refinement mapping (`Contract` in `UpstreamFetch`) forgets the expiry
times, the attempts and the futures: `memory` is the value of each entry, `refresher` is
`in_flight`, and a call is `asking` while it loads, backs off, waits or has been woken.

**Aggregator.** `Receive` starts one fetch per service, `StartCall` runs each up to its
first await, `FoldContext` and `FoldCritical` are the loop over the results. `CancelRequest`
is the cancellation of a request while it awaits `gather`, which hands it on: each of its
fetches unwinds (`Unwind`) as a leader, as a follower or just woken, and the handler leaves
without an answer. A fetch of another request may then raise, which the loop takes as a
failure of its service.

**Classifier.** A question is a sequence of tokens. `Scan` has one action per way a round of
the while loop of `scan_longest` can go, over a table of the windows that resolve to a key;
`ReadHorizon`, `Refuse`, `Accept`, `MatchPhrases`, `MatchTerms`, `Negate` and `Decide` are
the steps between scans. A stem is known by the words it is a prefix of and by its length.
Weights are in tenths and scores in hundredths, so sums that are floats in the code are
exact here.

**Selector.** The five result lists are one function from items to buckets, and `Listed`
recovers a list in ranking order. One action per branch of the loop. A request runs the walk
over the planner's ranking and the fan-out's bundle, so its properties are checked there.

The planner's sort is written as what it yields: the n-th of the ranking is the item that
n - 1 others sort before. Sums and filtered lists are folds of the community modules or
recursive functions, which the proofs can unfold.

**Planner, Completion, Pipeline.** Shares are in percent, tier weights in tenths, modifiers
and scores in thousandths. `Plan` uses the planner's operators, `Resolve` is a step of the
selector's walk. `Resolver` is the selector as the request sees it: the plan of a request
is known from its verdict, so before `Plan` the mapping reads the ranking off the planner and
after it off the state, and every other step of the request is a stutter. The rejections, both declines, the debug response, the call of the model
and its outcomes are actions. The classifier's verdict is an input that ranges over every
kind of verdict `Decide` and `Refuse` can reach, and the fan-out's outcome over every set
of failed services. A sentence of the mock is its number of words; a provider's call ends
with text, blank, with a refusal or with an error.

**Boot.** One action per step of `lifespan`, in its order; each goes on or fails with a
reason. `CompileRule` is one round of the loop of `compile_rules`, in any order of the
intents. A word of an entry is a text with or without a trailing `*`, and the tokenizer is
the constant function `Tokens`: it drops a possessive ending, and some texts have no token.
A time-scope pattern, a marker of the gate or a sign without tokens (`Wordless`) ends the
constructor, as does a sign in the lexicon.

Each module also holds the mutants of its definitions: plausible bugs, one of which breaks
each property.

## 3. What the runs show

| Run | Instance | Shows |
|---|---|---|
| `fetch_shared` | 3 callers, 1 key, 1 retry, a retryable and a final fault, flushes, 2 cancellations | `SingleFlight`, `NoOrphan`, `StaleFlagTruthful`, `Retention`, `FetchEnds`, `DegradedNotBroken`, `KeepsContract` |
| `fanout_shared` | 2 requests of 1 user, a per-user and a per-day service, outages, flushes, a midnight, any request cancelled | `AggTypeOK`, `BundleStaleTruthful`, `FailuresContained`, `RequestsAnswered` |
| `pipeline_answers` | shipped rules with a second guardrail, tight budget and lengths, every kind of verdict and profile, every set of failed services, every outcome of the model | `SourcesLegitimate`, `BestContextFirst`, `BudgetSpentWell`, `OnlyCheaperOvertakes`, `GreedyByRank`, `HighConfidenceEarned`, `EveryIntentVetoesTone`, `LengthWithinSubscription`, `StatusTellsWhatFailed`, `MockToldWhole`, `RunsResolve`, `RequestEnds` |
| `classify_questions` | every question of up to 4 tokens over 10 words | `EvidenceCountedOnce`, `LeftmostLongest`, `EvidenceIsConfigured`, `HorizonIsMostSpecific`, `OnlyTopicIsAnswered`, `VerdictEarned`, `ClassifyDecides` |
| `boot_checks` | sound and broken documents, lexicons of up to two entries, every combination of provider, keys and SDKs | `SignsLeakByStemOnly`, `RulesAsWritten`, `ProviderHonest`, `RefusedBeforeOpening` |

Each module's type invariant is checked with its run; that of `Selector` is a conjunct of
the pipeline's.

Seven runs expect a violation: each states what the documentation says and shows that the
code does otherwise.

| Run | Documented | What happens |
|---|---|---|
| `fetch_total` | `base.py:104` "Never raises" | a cancelled leader settles the shared future with its own `CancelledError` (`cache.py:124`), and the fetch of a follower that nobody cancelled raises it |
| `fanout_unknown` | `README.md:190` unknown user is a 404 | an expired profile answers the 404 of a user the service no longer knows |
| `fanout_yesterday` | `cache.py:7` "yesterday's panchang instead of nothing" | the key is today's date (`panchang.py:28`): when today's almanac cannot be fetched, yesterday's stays in the cache and the answer has none |
| `pipeline_alldown` | `README.md:188` model never called | `birth_details` of the user service is enough to call it |
| `classify_zeroed` | `main.py:5` a malformed config kills the boot and no request | `negation_discount: 0` boots, and a question whose only topic is negated raises `IndexError` |
| `boot_stem` | `config_loader.py:181` the check covers stems and phrase tokens; `rules.py:78` a sign is only ever domain evidence | the phrase `cancer's*` boots, since its spelling begins no sign and its key is not literal; compiled, it is found for `cancer` |
| `boot_model` | `ARCHITECTURE.md:257` nothing kills the boot at the choice of the model | a provider asked for by name, with its key and without its SDK, does |

A follower that is cancelled takes the shared future with it too (`cache.py:115`), which
fails the other followers in the same way; the run shows the shorter case.

Further disagreements between code and text, which no run states:

* `planner.py:159` speaks of words per *surviving* item; the planned items are counted
  (`planner.py:102`), lost ones included.
* `personalization.yaml:52` says modifiers never let a secondary item outrank a primary
  one; for a yearly career question the shipped modifiers do (`planner.py:85`): 0.5 + 0.4
  against 1.0 - 0.3.
* A literal phrase of several words that contains a possessive sign passes both checks as
  well. It is found for the sign only next to its other words, so it is no case of
  `SignsLeakByStemOnly`.
* `config_loader.py:172` says a prefix pair double-counts; the longest match takes the
  token and it counts once (`EvidenceCountedOnce`).
* An answer built from stale payloads may be `HIGH`; a refresh in flight during a flush
  refills the cache; a boot that fails after `main.py:46` leaves the connection pool to
  the exit of the process.

**Bounds.** `MaxTime` stops the clock and `MaxCancels` bounds cancellations; caller and
request slots are reused, so histories have unbounded length. Three callers are a leader and
two followers, the least with which one follower can disturb another; a TTL
and a clock of one tick let an entry expire, a load begin before and end after it, and a
payload be replaced by a later one. Two cancellations can hit a follower and then the
leader. In `fanout_shared` they are those of one request with two fetches, or of one fetch
of each; two requests of one user share both keys, so each leads, follows or arrives late
for either service, and one tick is an expiry and a midnight. Its only fault is a final one:
retries are explored in `fetch_shared`, since what followers see of a load is its outcome and
not its attempts, and the theorems of `Aggregator_proofs` hold for every policy.

In `pipeline_answers` the share of a merge is 50 % (the tie that decides the order of the
guardrails) and 64 % (just below dominance); the gap in healthy payloads hits two primary
items. Four values are not as shipped, because with the shipped ones the interesting case
never happens. The menu costs 115 tokens and the budget is 600, so nothing would ever be
dropped: the run lowers it to 40, which several prefixes of a ranking fill exactly. Only
health has a guardrail: the run gives career a second one, and each of the two fallbacks is
a tone the other intent vetoes. 15 words per item and a floor of 50 let the floor, the
volume of context and the subscription each decide the length, and make the mock leave facts
out; a name of 90 words makes it cut its opening.

Four tokens hold two phrases of two words, a phrase of three next to a term, a cue with its
window, and two overlapping horizons. The vocabulary has a word of two intents, a stem
inside a longer stem, a literal phrase inside a stem phrase, a phrase that shares a token
with another and with a horizon, a marker inside a longer marker, a time word that is also
a term, and repeated entries. Scores lie on both sides of `min_evidence` and of the
dominance threshold.

Two entries are the least with which one spelling can begin the other and with which a
term and a phrase can collide; the texts include a sign, its possessive, a stem of it, and
a text without tokens. The other documents are varied one at a time: the steps that read
them share nothing but the order.

**Deadlock** is checked wherever slots are reused. The pipeline, the classifier and the
boot end, so their runs switch the check off; that the pipeline and the
classifier end in an answer is `RequestEnds` and `ClassifyDecides`.

**Fairness.** `FairSpec` and `FairAggSpec` are weakly fair in what the runtime obliges:
every HTTP attempt ends (`timeout_seconds`), every back-off ends (`asyncio.sleep`), the event
loop resumes every task whose future is settled and starts every task it was given, and
`gather` continues once all results are there. New requests, flushes, cancellations and the
clock are not obliged; that a cancelled request unwinds is. `DegradedNotBroken` and
`FailuresContained` are checked among flushes and cancellations but promise nothing once the
payload in question was flushed, which takes it away, or a fetch was cancelled, since its
followers fail with it, as `fetch_total` shows.
`RequestsAnswered` holds under cancellations too. `FairClsSpec` says no more than that
synchronous code runs once called; `FairPipelineSpec` that the event loop runs the handler
and that a call of a model returns or raises, which the SDKs' timeouts see to.

## 4. What is proved

Every safety property that a passing run checks is a theorem, type invariants included, and
so are both refinements (liveness stays with TLC). Each is checked by TLAPS for all values of the constants that
satisfy the named assumptions of the modules (types, finiteness, that `None` is none of the
values, and what the validators of the configuration enforce). Two theorems carry a
condition of their own, which the schema does not enforce and the shipped configuration
meets: `LengthTheorem` and `ReturnsTheorem`.

**`DataTheorems`** holds what the other proofs need about data and the library does not
offer in a form the provers can use: induction over the natural numbers as a statement about
a set of numbers, least and greatest elements, the first element of a finite set under a
preorder, and sums over finite sets. `SumFunctionOnSet` is a recursive function over
subsets; `TableExists` shows that its equations have a solution, and `SumAdd`, `SumRemove`,
`SumEqual` and `SumOfPart` follow from it whatever order `CHOOSE` picks the elements in.

**`UpstreamFetch_proofs`**: `TypeCorrect`, `AtMostOneLoad`, `NoOrphanedWaiter`,
`StaleFlagCorrect` and `PayloadsRetained`. The inductive invariant is

    IInv == TypeOK /\ Flight /\ Expiry /\ StaleFlagTruthful

* `Flight` ties `in_flight` to the program counters in both directions: a call is loading
  exactly if it is registered under its own key, and a waiter's future belongs to the load
  registered under the waiter's key and is not cancelled. Single flight and the absence of
  orphans follow from it; neither is inductive alone, since a second leader is only
  excluded by the registry, and a waiter is only woken because the registry and the waiter
  name the same leader.
* `Expiry` says that an entry expires its TTL after its receipt and was not received in the
  future, that calls began in the past, and what a settled outcome says about when its
  payload arrived. It is what makes the stale flag inductive: a follower decides its
  fallback long after the leader did.

**`FetchContract_proofs`**: `ContractKept`, the refinement. Under `IInv` the initial state
maps to an initial state of the contract and every step to a step of it or to a stutter: a
retry, a pause and the settling of a follower's future do not show, a cancelled follower is
an abandoned call, a cancelled leader gives up its lock.

**`Aggregator_proofs`**: `AggTypeCorrect`, `BundleTheorem` and `AlmanacTheorem`, for any
number of requests, users, services and cancellations. `AggInv` is `IInv` together with the
types of requests and bundles and with `CallsFollow`: the fetch of request `r` for service
`s` was asked for the key of its user and of its arrival, at its arrival. Without it the
stale flag that `IInv` proves of a call would say nothing of the request. `AlmanacTheorem`
adds `Dated`: an entry under a dated key was received on that day or later, and so was what
a finished fetch holds. The two halves need each other, as a fallback is served from the
entries and the entries are written by fetches. The theorem is the other side of
`fanout_yesterday`: an answer without an almanac is the price of never giving one of a day
before the request.

**`Classifier_proofs`**: for every question, lexicon, discount and threshold.

* `LeftmostLongestTheorem` and `CountedOnceTheorem`. `ScanInv` says that hits are matching
  windows, do not overlap, avoid the consumed tokens and lie behind the scan. `ClsInv` adds
  what one extractor hands to the next: the tokens of the horizon are blocked in the scan
  for phrases, phrases lie in what the scan has taken, and a term starts at a token nobody
  has claimed. That a token is resolved by one key needs that no word has two stems of one
  length, which is true of prefixes and is stated in `LexiconAssumption`.
* `ClsTypeTheorem`, `EvidenceTheorem` and `HorizonTheorem`. `EvidenceInv` adds that every
  match covers a window one of whose entries gave it each of its weights, and that the scope
  read so far is the most specific of the question. The latter is established at one step,
  from `LeftmostLongest` at the end of the time scan: what the scan passed over was cut by
  something that began before it.
* `OnlyTopicTheorem` and `VerdictTheorem` are about the sums and the ranking of one
  decision. A lone topic has all the evidence, so it passes the gate, and its share of the
  total is 1; the rival of a merge is the best of the others, so dominating it is dominating
  each.
* `ReturnsTheorem` under `ThresholdsSane` (`min_evidence` and `negation_discount` positive,
  `dominance` at most 1): `classify` never indexes a list that is too short. Each part is
  needed and none is a bound of `config_schema.py`; `classify_zeroed` shows one of the three
  go wrong.

**`Boot_proofs`**: for every set of documents, registry, tokenizer and installation.
`RefusalTheorem`, `ProviderTheorem` and `RulesTheorem`: `LoaderInv` accumulates what each
step of the loader has established and that the pool is closed until then; `RulesInv` is a
loop invariant, the tables say what the intents merged so far say, and nothing else.
`BootTypeTheorem`: `BuiltInv` says at which stage each part of the process exists, and that
the weights of merged rules are for known items. `SignsTheorem` delimits what `boot_stem`
shows: `GateInv` says that from the compiled gate on no sign offends, `LexiconInv` that the
tables hold finitely many keys, each a sequence of words and stems, and `UnseenTerms` and
`UnseenPhrases` that what the constructor looks for is all the lookups can find, but for
phrases with a stem. It rests on `DocumentAssumption`: the documents are finite, the
tokenizer knows the texts of the gate, and the key of a phrase is such a sequence. The last
is flattening, an induction over data that is out of the prover's reach; TLC evaluates it.

**`Selector_proofs`**: `SelectorTypeCorrect`, `BudgetTheorem`, `OvertakingTheorem` and
`GreedyTheorem`, for any finite menu, costs and budget. The invariant adds that
`tokens_used` only grows, so that an item dropped early is still too dear at the end, and
that an item selected later fitted where the dropped one did not. `GreedyInv` adds that
whatever has a bucket has been visited: a round then changes no sum of the rounds before it.

**`Pipeline_proofs`**: `StatusTheorem` and `ConfidenceTheorem` for every configuration;
`ToneTheorem` for every table of guardrails, mutually vetoing ones included: the order in
which `_tone` applies them leaves an active intent's own guardrail satisfied or the fallback
of one at least as strong in place. That the fallback of the stronger may violate the
guardrail of the weaker is what the code says it wants, and the run has the case.
`LengthTheorem` under `CapsInOrder` (the floor is not above any
subscription's cap; without it the floor wins). Further:

* `RankingIsRanking`: counting who sorts before whom gives every item one place and every
  place one item, because the order is total, and earlier places score at least as much.
  `PipelineTypeCorrect` rests on it.
* `PipeInv` carries the selector's `GreedyInv` through the request and says that the plan is
  the planner's. `PipelineSelects` and `BestFirstTheorem` follow: an item that scored more
  stands before, was therefore seen first, and was passed over only because it did not fit
  where the other one did.
* `RunsResolveTheorem`, the refinement: the request starts `resolve()` in a state that the
  selector's `Init` describes (`PositiveHead`: the positive items head the ranking) and
  every step is a round of the walk or none.
* `SourcesTheorem` and `MockTheorem`: `AnswerInv` follows an answer from the lists of the
  walk to the response; the mock's facts are counted by induction over the bullets.

**Only model-checked.** The liveness properties `FetchEnds`, `DegradedNotBroken`,
`FailuresContained`, `RequestsAnswered`, `RequestEnds` and `ClassifyDecides`: TLAPS has no
reasoning about fairness here. That a ranking of a request is what Python's `sort` returns,
that a scan is what the `while` loop does, and all other steps from code to definition are
modelling and not proof.

## 5. What is left

`Pipeline` composed with `Aggregator` and `Classifier`; at present each takes the other's
outcomes as inputs that range over all of them.

**Not modelled.** The tokenizer (normalisation of text; questions are sequences of tokens,
and at boot it is a constant). The field types of the schema, and the bounds of the request
schema. Renderers, prompt wording, reason strings, the JSON shape of responses, log
formatting. The middleware: a correlation id in a context variable, which no other code
reads back. The mock services and the simulation script run in processes of their own; the
models let every upstream answer or fail at any time, which covers the fault table. An
OpenAI response without choices raises `IndexError`, which is not an `LLMError`; how the SDK
could return one is not in this repository.
