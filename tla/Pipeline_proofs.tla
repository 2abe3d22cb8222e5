--------------------------- MODULE Pipeline_proofs ---------------------------
(***************************************************************************)
(* Proofs about Pipeline, for every registry, rule set, verdict, profile   *)
(* and outcome of the fan-out.                                             *)
(***************************************************************************)
EXTENDS Pipeline, Selector_proofs, SequenceTheorems

-----------------------------------------------------------------------------
(* The status.                                                              *)

StatusInv ==
    /\ StatusTellsWhatFailed
    /\ phase \in {"resolving", "generating"} => account = "delivered"
    /\ account \in {"delivered", "unknown", "unreachable"}
    /\ cls \in Classifications

\* Every response but the ones of the rejections is about a delivered profile.
LEMMA StatusStep ==
    ASSUME StatusInv, [PipelineNext]_allVars
    PROVE  StatusInv'
<1> USE DEF StatusInv, StatusTellsWhatFailed
<1>1. CASE RejectUnknownUser \/ RejectUnavailable
  BY <1>1 DEF RejectUnknownUser, RejectUnavailable, Finish, NoAnswer
<1>2. CASE Plan \/ Resolve \/ Generate
  <2>1. CASE Plan
    BY <2>1 DEF Plan
  <2>2. CASE Resolve
    BY <2>2 DEF Resolve, pipeVars
  <2>3. CASE Generate
    BY <2>3 DEF Generate
  <2> QED
    BY <1>2, <2>1, <2>2, <2>3
<1>3. CASE Explain \/ DeclineOutOfDomain \/ DeclineWithoutContext
  <2>1. CASE Explain
    <3>1. phase = "resolving" /\ phase' = "answered" /\ account' = account /\ cls' = cls
      BY <2>1 DEF Explain, Finish
    <3>2. answer'.status = 200 /\ ~answer'.llm
      BY <2>1 DEF Explain, Finish, NoAnswer
    <3> QED
      BY <3>1, <3>2
  <2>2. CASE DeclineOutOfDomain \/ DeclineWithoutContext
    BY <2>2 DEF DeclineOutOfDomain, DeclineWithoutContext, Finish, NoAnswer
  <2> QED
    BY <1>3, <2>1, <2>2
<1>4. CASE GenerationFails
  BY <1>4 DEF GenerationFails, Finish, NoAnswer, Raises
<1>5. CASE ProviderAnswers
  <2>1. PICK outcome \in ProviderOutcomes :
            phase = "generating" /\ ~Raises(outcome) /\ Finish(Completed(outcome))
    BY <1>5 DEF ProviderAnswers
  <2>2. outcome = "text"
    BY <2>1 DEF ProviderOutcomes, Raises
  <2> QED
    BY <2>1, <2>2 DEF Finish, Completed, NoAnswer
<1>6. CASE MockAnswers
  BY <1>6 DEF MockAnswers, Finish, Completed, NoAnswer
<1>7. CASE UNCHANGED allVars
  BY <1>7 DEF allVars, pipeVars
<1> QED
  BY <1>1, <1>2, <1>3, <1>4, <1>5, <1>6, <1>7 DEF PipelineNext

\* The status tells what failed, for every combination of failed services and
\* every end of the model's call: no failure is reported as another one, none is
\* hidden behind a 200, and only those three are errors (personalize).
THEOREM StatusTheorem == PipelineSpec => []StatusTellsWhatFailed
<1>1. PipelineInit => StatusInv
  BY DEF PipelineInit, StatusInv, StatusTellsWhatFailed
<1>2. StatusInv /\ [PipelineNext]_allVars => StatusInv'
  BY StatusStep
<1>3. StatusInv => StatusTellsWhatFailed
  BY DEF StatusInv
<1> QED
  BY <1>1, <1>2, <1>3, PTL DEF PipelineSpec

-----------------------------------------------------------------------------
(* Confidence.                                                              *)

\* The sample has at most three items, so that eight tenths of it are all of it.
LEMMA SampleSmall ==
    /\ IsFiniteSet(Sampled)
    /\ Cardinality(Sampled) \in 0 .. 3
<1> DEFINE best == {ranked[1]} \cup {ranked[2]} \cup {ranked[3]}
<1>1. IsFiniteSet(best) /\ Cardinality(best) \in Nat /\ Cardinality(best) <= 3
  <2>1. IsFiniteSet({ranked[1]}) /\ Cardinality({ranked[1]}) = 1
    BY FS_Singleton
  <2>2. /\ IsFiniteSet({ranked[1]} \cup {ranked[2]})
        /\ Cardinality({ranked[1]} \cup {ranked[2]}) \in {1, 2}
    BY <2>1, FS_AddElement
  <2> QED
    BY <2>2, FS_AddElement
<1>2. Sampled \subseteq best
  BY DEF Sampled
<1>3. IsFiniteSet(Sampled) /\ Cardinality(Sampled) <= Cardinality(best)
  BY <1>1, <1>2, FS_Subset
<1>4. Cardinality(Sampled) \in Nat
  BY <1>3, FS_CardinalityType
<1> QED
  BY <1>1, <1>3, <1>4

LEMMA FullyGrounded ==
    ASSUME Grounding = "HIGH"
    PROVE  Sampled \subseteq InBucket("selected")
<1>1. 10 * Cardinality(SampledSelected) >= 8 * Cardinality(Sampled)
  BY DEF Grounding
<1>2. /\ SampledSelected \subseteq Sampled
      /\ IsFiniteSet(SampledSelected)
      /\ Cardinality(SampledSelected) <= Cardinality(Sampled)
  BY SampleSmall, FS_Subset DEF SampledSelected
<1>3. Cardinality(SampledSelected) \in Nat
  BY <1>2, FS_CardinalityType
<1>4. Cardinality(SampledSelected) = Cardinality(Sampled)
  BY <1>1, <1>2, <1>3, SampleSmall
<1>5. SampledSelected = Sampled
  BY <1>2, <1>4, SampleSmall, FS_Subset
<1> QED
  BY <1>5 DEF SampledSelected

LEMMA LowerHigh ==
    ASSUME NEW c \in {"LOW", "MEDIUM", "HIGH"}, NEW d \in {"LOW", "MEDIUM", "HIGH"},
           Lower(c, d) = "HIGH"
    PROVE  c = "HIGH" /\ d = "HIGH"
<1>1. DOMAIN Levels = 1 .. 3 /\ Levels[1] = "LOW" /\ Levels[2] = "MEDIUM" /\ Levels[3] = "HIGH"
  BY DEF Levels
<1>2. Rk("LOW") = 1 /\ Rk("MEDIUM") = 2 /\ Rk("HIGH") = 3
  BY <1>1 DEF Rk
<1> QED
  BY <1>2 DEF Lower

\* A response of HIGH confidence is one that a model has completed.
LEMMA CompletedHigh ==
    ASSUME NEW outcome, Completed(outcome).confidence = "HIGH"
    PROVE  /\ cls.reason = "CONFIDENT_MATCH"
           /\ \A n \in 1 .. 3 : ranked[n] \in positive => bucket[ranked[n]] = "selected"
<1>1. Lower(Grounding, CapByReason) = "HIGH"
  BY DEF Completed, NoAnswer
<1>2. Grounding = "HIGH" /\ CapByReason = "HIGH"
  BY <1>1, LowerHigh DEF Grounding, CapByReason
<1>3. cls.reason = "CONFIDENT_MATCH"
  BY <1>2 DEF CapByReason
<1>4. \A n \in 1 .. 3 : ranked[n] \in positive => ranked[n] \in Sampled
  BY DEF Sampled
<1> QED
  BY <1>2, <1>3, <1>4, FullyGrounded DEF InBucket

ConfidenceInv ==
    /\ phase = "answered" \/ answer.confidence = "LOW"
    /\ HighConfidenceEarned

LEMMA ConfidenceStep ==
    ASSUME ConfidenceInv, [PipelineNext]_allVars
    PROVE  ConfidenceInv'
<1> USE DEF ConfidenceInv, HighConfidenceEarned
<1>1. CASE \/ RejectUnknownUser \/ RejectUnavailable \/ Explain \/ DeclineOutOfDomain
           \/ DeclineWithoutContext \/ GenerationFails
  BY <1>1 DEF RejectUnknownUser, RejectUnavailable, Explain, DeclineOutOfDomain,
              DeclineWithoutContext, GenerationFails, Finish, NoAnswer
<1>2. CASE Plan \/ Resolve \/ Generate
  BY <1>2 DEF Plan, Resolve, Generate, pipeVars
<1>3. ASSUME NEW a, NEW outcome, Finish(a), a.confidence = Completed(outcome).confidence
      PROVE  ConfidenceInv'
  <2>1. /\ answer' = a /\ phase' = "answered" /\ cls' = cls
        /\ ranked' = ranked /\ positive' = positive /\ bucket' = bucket
    BY <1>3 DEF Finish, selVars, planVars, walkVars
  <2> QED
    BY <1>3, <2>1, CompletedHigh
<1>4. CASE ProviderAnswers
  BY <1>3, <1>4 DEF ProviderAnswers
<1>5. CASE MockAnswers
  <2>1. PICK offset \in Offsets : \E r :
            Finish([Completed("mock") EXCEPT !.told = r.told, !.words = r.words, !.cut = r.cut])
    BY <1>5 DEF MockAnswers
  <2>2. PICK r : Finish([Completed("mock") EXCEPT !.told = r.told, !.words = r.words,
                                                  !.cut = r.cut])
    BY <2>1
  <2>3. [Completed("mock") EXCEPT !.told = r.told, !.words = r.words,
                                  !.cut = r.cut].confidence = Completed("mock").confidence
    BY DEF Completed, NoAnswer
  <2> QED
    BY <1>3, <2>2, <2>3
<1>6. CASE UNCHANGED allVars
  BY <1>6 DEF allVars, pipeVars, selVars, planVars, walkVars
<1> QED
  BY <1>1, <1>2, <1>4, <1>5, <1>6 DEF PipelineNext

\* HIGH is reported only for a confident verdict all of whose best ranked
\* candidates were selected, for every ranking and outage (score_confidence).
THEOREM ConfidenceTheorem == PipelineSpec => []HighConfidenceEarned
<1>1. PipelineInit => ConfidenceInv
  BY DEF PipelineInit, ConfidenceInv, HighConfidenceEarned, NoAnswer
<1>2. ConfidenceInv /\ [PipelineNext]_allVars => ConfidenceInv'
  BY ConfidenceStep
<1>3. ConfidenceInv => HighConfidenceEarned
  BY DEF ConfidenceInv
<1> QED
  BY <1>1, <1>2, <1>3, PTL DEF PipelineSpec

-----------------------------------------------------------------------------
(* Tone.                                                                    *)

LEMMA GuardedVetoes ==
    ASSUME NEW t, NEW x
    PROVE  /\ AllowedTones[x] # {} => \/ Guarded(t, x) \in AllowedTones[x]
                                      \/ Guarded(t, x) = FallbackTone[x]
           /\ \/ Guarded(t, x) = t
              \/ AllowedTones[x] # {} /\ Guarded(t, x) = FallbackTone[x]
BY DEF Guarded

\* The tone is one that x allows, or the fallback of an intent as strong as x.
Vetoed(t, c, x) ==
    \/ t \in AllowedTones[x]
    \/ \E y \in Active(c) :
          /\ Share(c, y) >= Share(c, x)
          /\ AllowedTones[y] # {} /\ t = FallbackTone[y]

LEMMA ToneVetoes ==
    ASSUME NEW c \in Classifications, NEW p,
           NEW x \in Active(c), AllowedTones[x] # {}
    PROVE  Vetoed(Tone(c, p), c, x)
<1> DEFINE wanted == IF p.tone = None THEN DefaultTone ELSE p.tone
           lower  == Guarded(wanted, c.second)
           upper  == Guarded(wanted, c.top)
<1>1. /\ x \in {c.top, c.second}
      /\ c.top \in Active(c) /\ (c.second # None => c.second \in Active(c))
      /\ c.share \in 50 .. 100
  BY PipelineAssumption DEF Active
<1>2. /\ Share(c, c.top) = c.share
      /\ c.second # c.top => Share(c, c.second) = 100 - c.share
      /\ Share(c, x) \in Int
  BY <1>1 DEF Share
<1>3. CASE c.second = None
  <2>1. x = c.top /\ Tone(c, p) = upper
    BY <1>3 DEF Active, Tone
  <2> QED
    BY <1>1, <1>2, <2>1, GuardedVetoes DEF Vetoed
<1>4. CASE c.second # None /\ c.share = 50
  <2>1. Tone(c, p) = Guarded(upper, c.second)
    BY <1>4 DEF Tone
  <2>2. Share(c, c.top) = 50 /\ Share(c, c.second) = 50 /\ Share(c, x) = 50
    BY <1>1, <1>2, <1>4
  <2>3. CASE x = c.second
    BY <1>1, <1>4, <2>1, <2>2, <2>3, GuardedVetoes DEF Vetoed
  <2>4. CASE x = c.top
    <3>1. \/ upper \in AllowedTones[x]
          \/ upper = FallbackTone[x]
      BY <2>4, GuardedVetoes
    <3>2. \/ Tone(c, p) = upper
          \/ AllowedTones[c.second] # {} /\ Tone(c, p) = FallbackTone[c.second]
      BY <2>1, GuardedVetoes
    <3> QED
      BY <1>1, <1>4, <2>2, <2>4, <3>1, <3>2 DEF Vetoed
  <2> QED
    BY <1>1, <2>3, <2>4
<1>5. CASE c.second # None /\ c.share # 50
  <2>1. Tone(c, p) = Guarded(lower, c.top)
    BY <1>5 DEF Tone
  <2>2. Share(c, c.top) >= Share(c, x) /\ Share(c, x) >= Share(c, x)
    BY <1>1, <1>2
  <2>3. CASE x = c.top
    BY <1>1, <2>1, <2>2, <2>3, GuardedVetoes DEF Vetoed
  <2>4. CASE x = c.second
    <3>1. lower \in AllowedTones[x] \/ lower = FallbackTone[x]
      BY <2>4, GuardedVetoes
    <3>2. \/ Tone(c, p) = lower
          \/ AllowedTones[c.top] # {} /\ Tone(c, p) = FallbackTone[c.top]
      BY <2>1, GuardedVetoes
    <3> QED
      BY <1>1, <2>2, <2>4, <3>1, <3>2 DEF Vetoed
  <2> QED
    BY <1>1, <2>3, <2>4
<1> QED
  BY <1>3, <1>4, <1>5

LEMMA ToneStep ==
    ASSUME EveryIntentVetoesTone, StatusInv, [PipelineNext]_allVars
    PROVE  EveryIntentVetoesTone'
<1>1. CASE Plan
  <2>1. tone' = Tone(cls, profile) /\ cls' = cls
    BY <1>1 DEF Plan
  <2> QED
    BY <2>1, ToneVetoes DEF EveryIntentVetoesTone, Vetoed, Active, Share, StatusInv
<1>2. CASE \/ RejectUnknownUser \/ RejectUnavailable
  <2>1. account' # "delivered"
    BY <1>2 DEF RejectUnknownUser, RejectUnavailable, Finish
  <2> QED
    BY <2>1 DEF EveryIntentVetoesTone, Planned
<1>3. ASSUME phase # "gathered", UNCHANGED <<tone, cls, account>>
      PROVE  EveryIntentVetoesTone'
  BY <1>3 DEF EveryIntentVetoesTone, Planned, Active, Share
<1>4. CASE \/ Resolve \/ Explain \/ DeclineOutOfDomain \/ DeclineWithoutContext
           \/ Generate \/ GenerationFails \/ ProviderAnswers \/ MockAnswers
  BY <1>3, <1>4
     DEF Resolve, Explain, DeclineOutOfDomain, DeclineWithoutContext, Generate,
         GenerationFails, ProviderAnswers, MockAnswers, Finish, pipeVars
<1>5. CASE UNCHANGED allVars
  BY <1>5 DEF allVars, pipeVars, EveryIntentVetoesTone, Planned, Active, Share
<1> QED
  BY <1>1, <1>2, <1>4, <1>5 DEF PipelineNext

\* For every table of guardrails, two that no tone passes together included, each
\* active intent of every verdict has its veto, and where fallbacks meet that of the
\* stronger intent is left standing (_tone).
THEOREM ToneTheorem == PipelineSpec => []EveryIntentVetoesTone
<1>1. PipelineInit => EveryIntentVetoesTone /\ StatusInv
  BY DEF PipelineInit, EveryIntentVetoesTone, Planned, StatusInv, StatusTellsWhatFailed
<1>2. EveryIntentVetoesTone /\ StatusInv /\ [PipelineNext]_allVars
          => EveryIntentVetoesTone' /\ StatusInv'
  BY ToneStep, StatusStep
<1> QED
  BY <1>1, <1>2, PTL DEF PipelineSpec

-----------------------------------------------------------------------------
(* Length.                                                                  *)

\* Caps in words, none of a subscription below the floor.  The schema does not
\* hold the floor against the caps; the shipped configuration has it.
CapsInOrder ==
    /\ \A t \in DOMAIN SubscriptionCap : SubscriptionCap[t] \in Nat
    /\ \A x \in DOMAIN IntentCap : IntentCap[x] \in Nat
    /\ WordsPerItem \in Nat
    /\ \A t \in DOMAIN SubscriptionCap : Floor <= SubscriptionCap[t]

LEMMA LengthPasses ==
    ASSUME CapsInOrder, NEW c \in Classifications, NEW p
    PROVE  LET w == MaxWords(c, p)
           IN  /\ w >= Floor
               /\ \/ p.subscription \in DOMAIN SubscriptionCap
                     /\ w <= SubscriptionCap[p.subscription]
                  \/ \A t \in DOMAIN SubscriptionCap : w <= SubscriptionCap[t]
<1> DEFINE caps  == {SubscriptionCap[t] : t \in DOMAIN SubscriptionCap}
           limit == SubscriptionLimit(p)
           terms == {limit, IntentLimit(c.top), WordsPerItem * Cardinality(Positive(c))}
<1>1. caps \in SUBSET Nat /\ (DOMAIN SubscriptionCap # {} => caps # {})
  BY DEF CapsInOrder
<1>2. DOMAIN SubscriptionCap # {} =>
          Min(caps) \in caps /\ \A n \in caps : Min(caps) <= n
  BY <1>1, LeastNumber
<1>3. /\ limit \in Nat /\ (DOMAIN SubscriptionCap # {} => Floor <= limit)
      /\ \/ p.subscription \in DOMAIN SubscriptionCap
            /\ limit = SubscriptionCap[p.subscription]
         \/ \A t \in DOMAIN SubscriptionCap : limit <= SubscriptionCap[t]
  <2>1. CASE p.subscription \in DOMAIN SubscriptionCap
    <3>1. limit = SubscriptionCap[p.subscription]
      BY <2>1 DEF SubscriptionLimit
    <3> QED
      BY <2>1, <3>1 DEF CapsInOrder
  <2>2. CASE p.subscription \notin DOMAIN SubscriptionCap
    <3>1. limit = IF DOMAIN SubscriptionCap = {} THEN 10000 ELSE Min(caps)
      BY <2>2 DEF SubscriptionLimit, NoCap
    <3> HIDE DEF limit
    <3>2. CASE DOMAIN SubscriptionCap = {}
      BY <3>1, <3>2
    <3>3. CASE DOMAIN SubscriptionCap # {}
      <4>1. limit \in caps /\ \A n \in caps : limit <= n
        <5> HIDE DEF caps
        <5> QED
          BY <1>2, <3>1, <3>3
      <4> QED
        BY <4>1 DEF CapsInOrder
    <3> QED
      BY <3>2, <3>3
  <2> QED
    BY <2>1, <2>2
<1>4. terms \in SUBSET Nat /\ limit \in terms
  <2>1. IntentLimit(c.top) \in Nat
    BY DEF CapsInOrder, IntentLimit, NoCap
  <2>2. Cardinality(Positive(c)) \in Nat
    <3>1. Positive(c) \subseteq Items /\ IsFiniteSet(Items)
      BY RegistryAssumption DEF Positive
    <3> QED
      BY <3>1, FS_Subset, FS_CardinalityType
  <2>3. WordsPerItem * Cardinality(Positive(c)) \in Nat
    BY <2>2 DEF CapsInOrder
  <2> QED
    BY <1>3, <2>1, <2>3
<1>5. Min(terms) \in Nat /\ Min(terms) <= limit
  BY <1>4, LeastNumber
<1>6. MaxWords(c, p) = Max({Floor, Min(terms)})
  BY DEF MaxWords
<1>7. /\ MaxWords(c, p) \in {Floor, Min(terms)}
      /\ MaxWords(c, p) >= Floor
  <2>1. Floor \in Int /\ Min(terms) \in Int
    BY <1>5, ConfigAssumption
  <2> HIDE DEF terms
  <2> QED
    BY <1>5, <1>6, <2>1, Larger
<1>8. /\ MaxWords(c, p) \in Nat
      /\ DOMAIN SubscriptionCap # {} => MaxWords(c, p) <= limit
  <2>1. Floor \in Nat
    BY ConfigAssumption
  <2> HIDE DEF terms, limit
  <2> QED
    BY <1>3, <1>5, <1>7, <2>1
<1>9. \A t \in DOMAIN SubscriptionCap : SubscriptionCap[t] \in Nat
  BY DEF CapsInOrder
<1> HIDE DEF limit
<1> QED
  BY <1>3, <1>7, <1>8, <1>9

LEMMA LengthStep ==
    ASSUME CapsInOrder, LengthWithinSubscription, StatusInv, [PipelineNext]_allVars
    PROVE  LengthWithinSubscription'
<1>1. CASE Plan
  <2>1. max_words' = MaxWords(cls, profile) /\ profile' = profile
    BY <1>1 DEF Plan
  <2> QED
    BY <2>1, LengthPasses DEF LengthWithinSubscription, StatusInv
<1>2. CASE \/ RejectUnknownUser \/ RejectUnavailable
  <2>1. account' # "delivered"
    BY <1>2 DEF RejectUnknownUser, RejectUnavailable, Finish
  <2> QED
    BY <2>1 DEF LengthWithinSubscription, Planned
<1>3. ASSUME phase # "gathered", UNCHANGED <<max_words, profile, account>>
      PROVE  LengthWithinSubscription'
  BY <1>3 DEF LengthWithinSubscription, Planned
<1>4. CASE \/ Resolve \/ Explain \/ DeclineOutOfDomain \/ DeclineWithoutContext
           \/ Generate \/ GenerationFails \/ ProviderAnswers \/ MockAnswers
  BY <1>3, <1>4
     DEF Resolve, Explain, DeclineOutOfDomain, DeclineWithoutContext, Generate,
         GenerationFails, ProviderAnswers, MockAnswers, Finish, pipeVars
<1>5. CASE UNCHANGED allVars
  BY <1>5 DEF allVars, pipeVars, LengthWithinSubscription, Planned
<1> QED
  BY <1>1, <1>2, <1>4, <1>5 DEF PipelineNext

\* With a floor below every cap, no plan is longer than its subscription pays for,
\* nor longer than any tier's when the tier is unknown (_max_words).
THEOREM LengthTheorem ==
    ASSUME CapsInOrder
    PROVE  PipelineSpec => []LengthWithinSubscription
<1>1. PipelineInit => LengthWithinSubscription /\ StatusInv
  BY DEF PipelineInit, LengthWithinSubscription, Planned, StatusInv, StatusTellsWhatFailed
<1>2. LengthWithinSubscription /\ StatusInv /\ [PipelineNext]_allVars
          => LengthWithinSubscription' /\ StatusInv'
  BY LengthStep, StatusStep
<1> QED
  BY <1>1, <1>2, PTL DEF PipelineSpec

-----------------------------------------------------------------------------
(* The ranking.                                                             *)

LEMMA ScoreNumber ==
    ASSUME NEW c \in Classifications, NEW k \in Items
    PROVE  Score(k, c) \in Int
<1>1. IsFiniteSet(Active(c))
  <2>1. IsFiniteSet({c.top} \cup {c.second})
    BY FS_Singleton, FS_AddElement
  <2>2. Active(c) \subseteq {c.top} \cup {c.second}
    BY DEF Active
  <2> QED
    BY <2>1, <2>2, FS_Subset
<1> DEFINE f == [x \in Active(c) |-> Share(c, x) * WeightFor(k, x)]
<1>2. \A x \in Active(c) : f[x] \in Int
  <2> SUFFICES ASSUME NEW x \in Active(c) PROVE Share(c, x) * WeightFor(k, x) \in Int
    OBVIOUS
  <2>1. c.share \in Int
    BY PipelineAssumption
  <2>2. Share(c, x) \in Int
    BY <2>1 DEF Share
  <2>3. WeightFor(k, x) \in Int
    BY ConfigAssumption DEF WeightFor
  <2> QED
    BY <2>2, <2>3
<1>3. SumFunctionOnSet(f, Active(c)) \in Int
  <2> HIDE DEF f
  <2> QED
    BY <1>1, <1>2, SumNumber
<1>4. DOMAIN f = Active(c)
  OBVIOUS
<1>5. TierSum(k, c) \in Int
  <2>1. TierSum(k, c) = SumFunctionOnSet(f, DOMAIN f)
    BY DEF TierSum, SumFunction
  <2> QED
    BY <1>3, <1>4, <2>1
<1>6. Modifier[k][c.scope] \in Int
  <2>1. c.scope \in Scopes
    BY PipelineAssumption
  <2>2. ModifierCap \in Int /\ ModifiersWithinCap
    BY ConfigAssumption
  <2> QED
    BY <2>1, <2>2 DEF ModifiersWithinCap
<1> QED
  BY <1>5, <1>6 DEF Score

\* Items at different places of the alphabet are different.
LEMMA PositionNumber ==
    /\ \A k \in Items : Position(k) \in Nat
    /\ \A j, k \in Items : Position(j) = Position(k) => j = k
<1>1. DOMAIN ItemOrder = 1 .. Cardinality(Items)
  BY ConfigAssumption
<1>2. ASSUME NEW k \in Items
      PROVE  Position(k) \in DOMAIN ItemOrder /\ ItemOrder[Position(k)] = k
  <2>1. \E n \in DOMAIN ItemOrder : ItemOrder[n] = k
    BY ConfigAssumption
  <2> QED
    BY <2>1 DEF Position
<1> QED
  BY <1>1, <1>2

\* The scored items are as many as the items, in a total order.
LEMMA ScoredItems ==
    ASSUME NEW c \in Classifications
    PROVE  /\ IsFiniteSet(Scored(c)) /\ Cardinality(Scored(c)) = Cardinality(Items)
           /\ \A a \in Scored(c) : a.key \in Items /\ a.score \in Int
           /\ \A a, b \in Scored(c) : a.key = b.key => a = b
           /\ \A a, b \in Scored(c) : a # b => SortsBefore(a, b) \/ SortsBefore(b, a)
           /\ \A a \in Scored(c) : ~SortsBefore(a, a)
           /\ \A a, b, d \in Scored(c) :
                 SortsBefore(a, b) /\ SortsBefore(b, d) => SortsBefore(a, d)
<1> DEFINE item == [k \in Items |-> [key |-> k, score |-> Score(k, c)]]
<1>1. item \in Bijection(Items, Scored(c))
  <2>1. item \in [Items -> Scored(c)]
    BY DEF Scored
  <2>2. \A j, k \in Items : item[j] = item[k] => j = k
    OBVIOUS
  <2>3. \A a \in Scored(c) : \E k \in Items : item[k] = a
    BY DEF Scored
  <2> HIDE DEF item
  <2> QED
    BY <2>1, <2>2, <2>3 DEF Bijection, Injection, Surjection, IsInjective
<1>2. IsFiniteSet(Scored(c)) /\ Cardinality(Scored(c)) = Cardinality(Items)
  <2>1. ExistsBijection(Items, Scored(c))
    BY <1>1 DEF ExistsBijection
  <2> QED
    BY <2>1, RegistryAssumption, FS_Bijection
<1>3. \A a \in Scored(c) : a.key \in Items /\ a.score \in Int
  BY ScoreNumber DEF Scored
<1>4. \A a, b \in Scored(c) : a.key = b.key => a = b
  BY DEF Scored
<1>5. \A a \in Scored(c) : Position(a.key) \in Nat
  BY <1>3, PositionNumber
<1>6. \A a, b \in Scored(c) : a # b => Position(a.key) # Position(b.key)
  BY <1>3, <1>4, PositionNumber
<1>7. ASSUME NEW a \in Scored(c), NEW b \in Scored(c), a # b
      PROVE  SortsBefore(a, b) \/ SortsBefore(b, a)
  <2>1. /\ a.score \in Int /\ b.score \in Int /\ Position(a.key) \in Nat
        /\ Position(b.key) \in Nat /\ Position(a.key) # Position(b.key)
    BY <1>3, <1>5, <1>6, <1>7
  <2> QED
    BY <2>1 DEF SortsBefore
<1>8. ASSUME NEW a \in Scored(c) PROVE ~SortsBefore(a, a)
  <2>1. a.score \in Int /\ Position(a.key) \in Nat
    BY <1>3, <1>5
  <2> QED
    BY <2>1 DEF SortsBefore
<1>9. ASSUME NEW a \in Scored(c), NEW b \in Scored(c), NEW d \in Scored(c),
             SortsBefore(a, b), SortsBefore(b, d)
      PROVE  SortsBefore(a, d)
  <2>1. /\ a.score \in Int /\ b.score \in Int /\ d.score \in Int
        /\ Position(a.key) \in Nat /\ Position(b.key) \in Nat /\ Position(d.key) \in Nat
    BY <1>3, <1>5
  <2> QED
    BY <1>9, <2>1 DEF SortsBefore
<1> QED
  BY <1>2, <1>3, <1>4, <1>7, <1>8, <1>9

AheadOf(c, a) == {b \in Scored(c) : SortsBefore(b, a)}

\* Fewer items sort before the one that sorts before the other.
LEMMA FewerAhead ==
    ASSUME NEW c \in Classifications, NEW a \in Scored(c), NEW b \in Scored(c),
           SortsBefore(a, b)
    PROVE  /\ Cardinality(AheadOf(c, a)) \in Nat /\ Cardinality(AheadOf(c, b)) \in Nat
           /\ Cardinality(AheadOf(c, a)) < Cardinality(AheadOf(c, b))
<1>1. AheadOf(c, a) \subseteq AheadOf(c, b)
  BY ScoredItems DEF AheadOf
<1>2. a \in AheadOf(c, b) /\ a \notin AheadOf(c, a)
  BY ScoredItems DEF AheadOf
<1>3. IsFiniteSet(AheadOf(c, b))
  BY ScoredItems, FS_Subset DEF AheadOf
<1>4. /\ IsFiniteSet(AheadOf(c, a))
      /\ Cardinality(AheadOf(c, a)) <= Cardinality(AheadOf(c, b))
      /\ Cardinality(AheadOf(c, a)) # Cardinality(AheadOf(c, b))
  BY <1>1, <1>2, <1>3, FS_Subset
<1> QED
  BY <1>3, <1>4, FS_CardinalityType

\* As many items sort before one as its place says: no two share a place, and
\* every place is taken.
LEMMA PlacesTaken ==
    ASSUME NEW c \in Classifications, NEW n \in 1 .. Cardinality(Items)
    PROVE  \E a \in Scored(c) : Cardinality(AheadOf(c, a)) = n - 1
<1> DEFINE N     == Cardinality(Items)
           place == [a \in Scored(c) |-> Cardinality(AheadOf(c, a))]
<1>1. N \in Nat /\ N >= 1 /\ N = Cardinality(Scored(c)) /\ IsFiniteSet(Scored(c))
  BY ScoredItems, RegistryAssumption, FS_CardinalityType
<1>2. ASSUME NEW a \in Scored(c)
      PROVE  IsFiniteSet(AheadOf(c, a)) /\ place[a] \in 0 .. N - 1
  <2>1. AheadOf(c, a) \subseteq Scored(c) \ {a}
    BY ScoredItems DEF AheadOf
  <2>2. IsFiniteSet(Scored(c) \ {a}) /\ Cardinality(Scored(c) \ {a}) = N - 1
    BY <1>1, SmallerSet
  <2>3. /\ IsFiniteSet(AheadOf(c, a))
        /\ Cardinality(AheadOf(c, a)) <= Cardinality(Scored(c) \ {a})
    BY <2>1, <2>2, FS_Subset
  <2>4. Cardinality(AheadOf(c, a)) \in Nat
    BY <2>3, FS_CardinalityType
  <2> QED
    BY <1>1, <2>2, <2>3, <2>4
<1>3. ASSUME NEW a \in Scored(c), NEW b \in Scored(c), SortsBefore(a, b)
      PROVE  place[a] # place[b]
  <2>1. /\ Cardinality(AheadOf(c, a)) \in Nat /\ Cardinality(AheadOf(c, b)) \in Nat
        /\ Cardinality(AheadOf(c, a)) < Cardinality(AheadOf(c, b))
    BY <1>3, FewerAhead
  <2> QED
    BY <2>1
<1>4. place \in Injection(Scored(c), 0 .. N - 1)
  <2>1. place \in [Scored(c) -> 0 .. N - 1]
    BY <1>2
  <2>2. \A a, b \in Scored(c) : place[a] = place[b] => a = b
    <3> HIDE DEF place
    <3> QED
      BY <1>3, ScoredItems
  <2> HIDE DEF place
  <2> QED
    BY <2>1, <2>2 DEF Injection, IsInjective
<1>5. IsFiniteSet(0 .. N - 1) /\ Cardinality(0 .. N - 1) = N
  <2>1. 0 \in Int /\ N - 1 \in Int /\ ~(0 > N - 1) /\ (N - 1) - 0 + 1 = N
    BY <1>1
  <2> HIDE DEF N
  <2> QED
    BY <2>1, FS_Interval
<1>6. place \in Surjection(Scored(c), 0 .. N - 1)
  <2> HIDE DEF place, N
  <2> QED
    BY <1>1, <1>4, <1>5, FS_Injection
<1>7. \E a \in Scored(c) : place[a] = n - 1
  <2>1. n - 1 \in 0 .. N - 1
    BY <1>1
  <2> HIDE DEF place, N
  <2> QED
    BY <1>6, <2>1 DEF Surjection
<1> QED
  BY <1>7

\* The planner hands the selector a ranking: every item once, the best scored first.
LEMMA RankingIsRanking ==
    ASSUME NEW c \in Classifications
    PROVE  /\ Ranking(c) \in Rankings
           /\ \A m, n \in 1 .. Cardinality(Items) :
                 m < n => Score(Ranking(c)[m], c) >= Score(Ranking(c)[n], c)
<1> DEFINE Nth(n) == CHOOSE a \in Scored(c) : Cardinality(AheadOf(c, a)) = n - 1
           N == Cardinality(Items)
<1>1. \A n \in 1 .. N : Nth(n) \in Scored(c) /\ Cardinality(AheadOf(c, Nth(n))) = n - 1
  BY PlacesTaken
<1>2. Ranking(c) = [n \in 1 .. N |-> Nth(n).key]
  BY DEF Ranking, AheadOf
<1> HIDE DEF Nth, N
<1>3. \A n \in 1 .. N : Nth(n).key \in Items
  BY <1>1, ScoredItems
<1>4. ASSUME NEW m \in 1 .. N, NEW n \in 1 .. N, Nth(m).key = Nth(n).key
      PROVE  m = n
  <2>1. Nth(m) = Nth(n)
    BY <1>1, <1>4, ScoredItems
  <2>2. m - 1 = n - 1
    BY <1>1, <2>1
  <2>3. m \in Int /\ n \in Int
    OBVIOUS
  <2> QED
    BY <2>2, <2>3
<1>5. Ranking(c) \in Rankings
  BY <1>2, <1>3, <1>4 DEF Rankings, N
<1>6. ASSUME NEW m \in 1 .. N, NEW n \in 1 .. N, m < n
      PROVE  Score(Ranking(c)[m], c) >= Score(Ranking(c)[n], c)
  <2>1. PICK a \in Scored(c) : a = Nth(m) /\ Cardinality(AheadOf(c, a)) = m - 1
    BY <1>1
  <2>2. PICK b \in Scored(c) : b = Nth(n) /\ Cardinality(AheadOf(c, b)) = n - 1
    BY <1>1
  <2>3. m \in Int /\ n \in Int
    OBVIOUS
  <2>4. ~SortsBefore(b, a)
    BY <1>6, <2>1, <2>2, <2>3, FewerAhead
  <2>5. a # b
    BY <1>6, <2>1, <2>2, <2>3
  <2>6. SortsBefore(a, b)
    BY <2>4, <2>5, ScoredItems
  <2>7. a.score >= b.score
    BY <2>6, ScoredItems DEF SortsBefore
  <2>8. a.score = Score(a.key, c) /\ b.score = Score(b.key, c)
    BY DEF Scored
  <2>9. Ranking(c)[m] = a.key /\ Ranking(c)[n] = b.key
    BY <1>2, <2>1, <2>2
  <2> QED
    BY <2>7, <2>8, <2>9
<1> QED
  BY <1>5, <1>6 DEF N

\* Every item has a place in a ranking.
LEMMA Placed ==
    ASSUME NEW r \in Rankings, NEW k \in Items
    PROVE  \E n \in 1 .. Cardinality(Items) : r[n] = k
<1> DEFINE N == Cardinality(Items)
<1>1. N \in Nat /\ IsFiniteSet(1 .. N) /\ Cardinality(1 .. N) = N
  <2>1. N \in Nat
    BY RegistryAssumption, FS_CardinalityType
  <2>2. N - 1 + 1 = N /\ (1 > N => N = 0)
    BY <2>1
  <2> HIDE DEF N
  <2> QED
    BY <2>1, <2>2, FS_Interval
<1>2. r \in Injection(1 .. N, Items)
  BY DEF Rankings, Injection, IsInjective
<1>3. r \in Surjection(1 .. N, Items)
  <2>1. Cardinality(Items) = N /\ IsFiniteSet(Items)
    BY RegistryAssumption
  <2> HIDE DEF N
  <2> QED
    BY <1>1, <1>2, <2>1, FS_Injection
<1> QED
  BY <1>3 DEF Surjection

\* The positive items are the head of the planner's ranking.
LEMMA PositiveHead ==
    ASSUME NEW c \in Classifications
    PROVE  \E n \in 0 .. Cardinality(Items) : Positive(c) = {Ranking(c)[m] : m \in 1 .. n}
<1> DEFINE N    == Cardinality(Items)
           good == {n \in 1 .. N : Ranking(c)[n] \in Positive(c)}
<1>1. N \in Nat
  BY RegistryAssumption, FS_CardinalityType
<1>2. Ranking(c) \in Rankings /\ \A n \in 1 .. N : Ranking(c)[n] \in Items
  BY RankingIsRanking DEF Rankings
<1>3. \A m, n \in 1 .. N : m < n /\ n \in good => m \in good
  <2> SUFFICES ASSUME NEW m \in 1 .. N, NEW n \in 1 .. N, m < n, n \in good
               PROVE  m \in good
    OBVIOUS
  <2>1. /\ Score(Ranking(c)[m], c) \in Int /\ Score(Ranking(c)[n], c) \in Int
    BY <1>2, ScoreNumber
  <2>2. Score(Ranking(c)[m], c) >= Score(Ranking(c)[n], c)
    BY RankingIsRanking
  <2>3. Score(Ranking(c)[n], c) > 0
    BY DEF Positive
  <2> QED
    BY <1>2, <2>1, <2>2, <2>3 DEF Positive
<1>4. \A k \in Positive(c) : \E n \in good : Ranking(c)[n] = k
  BY <1>2, Placed DEF Positive
<1>5. IsFiniteSet(good)
  <2>1. IsFiniteSet(1 .. N)
    <3> HIDE DEF N
    <3> QED
      BY <1>1, FS_Interval
  <2> QED
    BY <2>1, FS_Subset
<1>6. PICK last \in 0 .. N : good = 1 .. last
  <2>1. CASE good = {}
    <3>1. good = 1 .. 0
      BY <2>1
    <3> QED
      BY <1>1, <3>1
  <2>2. CASE good # {}
    <3>1. good \in SUBSET Int /\ good \subseteq 1 .. N
      OBVIOUS
    <3> HIDE DEF good
    <3>2. PICK top \in good : \A n \in good : n <= top
      BY <1>5, <2>2, <3>1, GreatestNumber
    <3>3. \A n \in 1 .. N : n \in good <=> n <= top
      BY <1>1, <1>3, <3>1, <3>2
    <3>4. N \in Nat /\ top \in 1 .. N /\ top \in 0 .. N
      BY <1>1, <3>1, <3>2
    <3>5. good = 1 .. top
      <4> HIDE DEF N
      <4>1. \A n \in 1 .. N : n \in Int
        OBVIOUS
      <4>2. \A n \in Int : n \in 1 .. top <=> n \in 1 .. N /\ n <= top
        BY <3>4
      <4>3. \A n \in good : n \in 1 .. top
        BY <3>1, <3>3, <4>1, <4>2
      <4>4. \A n \in 1 .. top : n \in good
        BY <3>3, <4>1, <4>2
      <4> QED
        BY <4>3, <4>4
    <3> QED
      BY <3>4, <3>5
  <2> QED
    BY <2>1, <2>2
<1>7. Positive(c) = {Ranking(c)[m] : m \in 1 .. last}
  BY <1>4, <1>6
<1> QED
  BY <1>6, <1>7

\* The alphabet is one, too.
LEMMA AlphabetIsRanking == ItemOrder \in Rankings
<1> DEFINE N == Cardinality(Items)
<1>1. N \in Nat /\ IsFiniteSet(1 .. N) /\ Cardinality(1 .. N) = N
  <2>1. N \in Nat
    BY RegistryAssumption, FS_CardinalityType
  <2>2. N - 1 + 1 = N /\ (1 > N => N = 0)
    BY <2>1
  <2> HIDE DEF N
  <2> QED
    BY <2>1, <2>2, FS_Interval
<1>2. ItemOrder \in Surjection(1 .. N, Items)
  BY ConfigAssumption DEF Surjection
<1>3. ItemOrder \in Injection(1 .. N, Items)
  <2> HIDE DEF N
  <2>1. N = Cardinality(Items)
    BY DEF N
  <2> QED
    BY <1>1, <1>2, <2>1, FS_SurjSameCardinalityImpliesInj
<1> QED
  BY <1>3 DEF Injection, IsInjective, Rankings

-----------------------------------------------------------------------------
(* The walk inside the request.                                             *)

PipeInv ==
    /\ PipelineTypeOK
    /\ GreedyInv
    /\ phase = "gathered" => StartWalk
    /\ phase \in {"resolving", "generating"} => account = "delivered"
    /\ phase # "gathered" /\ account = "delivered" =>
          /\ ranked = Ranking(cls)
          /\ positive = Positive(cls) /\ excluded = Excluded(cls)
    /\ phase = "generating" => Listed("selected") # <<>>
    /\ max_words \in Int

\* A walk that has not begun is sound whatever it is about to walk.
LEMMA FreshWalk == SelTypeOK /\ StartWalk => GreedyInv
<1> SUFFICES ASSUME SelTypeOK, StartWalk PROVE GreedyInv
  OBVIOUS
<1>1. \A n \in DOMAIN ranked : ranked[n] \in Items
  BY DEF SelTypeOK, Rankings
<1>2. InBucket("dropped") = {}
  BY DEF StartWalk, InBucket
<1>3. IInv
  BY <1>1, <1>2, BudgetAssumption
     DEF IInv, StartWalk, Ahead, BudgetSpentWell, OnlyCheaperOvertakes
<1> QED
  BY <1>3, GreedyStart

LEMMA FreshTypes ==
    ASSUME NEW r \in Rankings, ranked = r, positive \subseteq Items,
           excluded \subseteq Items \ positive, failures \subseteq Services,
           present \subseteq Items, StartWalk
    PROVE  SelTypeOK
<1>1. Len(ranked) \in Nat
  BY RankingLength, RegistryAssumption
<1> QED
  BY <1>1 DEF SelTypeOK, StartWalk, Buckets

LEMMA GreedyFrame ==
    ASSUME GreedyInv, UNCHANGED selVars
    PROVE  GreedyInv' /\ SelTypeOK'
<1>1. IInv'
  BY WalkKeeps DEF GreedyInv
<1> QED
  BY <1>1, GreedyStep DEF GreedyInv, IInv

LEMMA PipeInit == PipelineInit => PipeInv
<1> SUFFICES ASSUME PipelineInit PROVE PipeInv
  OBVIOUS
<1>1. failures \subseteq Services
  <2>1. "user" \in Services
    BY PipelineAssumption
  <2> QED
    BY <2>1 DEF PipelineInit
<1>2. SelTypeOK
  <2>1. ranked = ItemOrder /\ positive = {} /\ excluded = {} /\ present \subseteq Items /\ StartWalk
    BY DEF PipelineInit
  <2> QED
    BY <1>1, <2>1, AlphabetIsRanking, FreshTypes
<1>3. GreedyInv
  BY <1>2, FreshWalk DEF PipelineInit
<1>4. PipelineTypeOK
  BY <1>2 DEF PipelineInit, PipelineTypeOK, NoAnswer
<1> QED
  BY <1>3, <1>4 DEF PipelineInit, PipeInv

LEMMA LengthNumber ==
    ASSUME NEW c \in Classifications, NEW p
    PROVE  MaxWords(c, p) \in Int
<1> DEFINE caps  == {SubscriptionCap[t] : t \in DOMAIN SubscriptionCap}
           terms == {SubscriptionLimit(p), IntentLimit(c.top),
                     WordsPerItem * Cardinality(Positive(c))}
<1>1. SubscriptionLimit(p) \in Int
  <2>1. \A t \in DOMAIN SubscriptionCap : SubscriptionCap[t] \in Int
    BY ConfigAssumption
  <2>2. caps \in SUBSET Int
    BY <2>1
  <2>3. IsFiniteSet(caps)
    BY ConfigAssumption, FiniteImage
  <2>4. DOMAIN SubscriptionCap # {} => Min(caps) \in Int
    <3>1. DOMAIN SubscriptionCap # {} => caps # {}
      OBVIOUS
    <3> HIDE DEF caps
    <3> QED
      BY <2>2, <2>3, <3>1, SmallestNumber
  <2>5. \/ p.subscription \in DOMAIN SubscriptionCap
           /\ SubscriptionLimit(p) = SubscriptionCap[p.subscription]
        \/ DOMAIN SubscriptionCap # {} /\ SubscriptionLimit(p) = Min(caps)
        \/ SubscriptionLimit(p) = 10000
    BY DEF SubscriptionLimit, NoCap
  <2> HIDE DEF caps
  <2> QED
    BY <2>1, <2>4, <2>5
<1>2. IntentLimit(c.top) \in Int
  BY ConfigAssumption DEF IntentLimit, NoCap
<1>3. WordsPerItem * Cardinality(Positive(c)) \in Int
  <2>1. Positive(c) \subseteq Items
    BY DEF Positive
  <2>2. Cardinality(Positive(c)) \in Int
    BY <2>1, RegistryAssumption, FS_Subset, FS_CardinalityType
  <2>3. WordsPerItem \in Int
    BY ConfigAssumption
  <2> QED
    BY <2>2, <2>3
<1>4. Min(terms) \in Int
  <2>1. terms \in SUBSET Int /\ terms # {}
    BY <1>1, <1>2, <1>3
  <2>2. IsFiniteSet(({SubscriptionLimit(p)} \cup {IntentLimit(c.top)})
                        \cup {WordsPerItem * Cardinality(Positive(c))})
    BY FS_Singleton, FS_AddElement
  <2>3. IsFiniteSet(terms)
    <3>1. terms = ({SubscriptionLimit(p)} \cup {IntentLimit(c.top)})
                        \cup {WordsPerItem * Cardinality(Positive(c))}
      OBVIOUS
    <3> QED
      BY <2>2, <3>1
  <2> HIDE DEF terms
  <2> QED
    BY <2>1, <2>3, SmallestNumber
<1>5. Floor \in Int
  BY ConfigAssumption
<1>6. MaxWords(c, p) = Max({Floor, Min(terms)})
  BY DEF MaxWords
<1> HIDE DEF terms
<1> QED
  BY <1>4, <1>5, <1>6, Larger

LEMMA PlanKeeps ==
    ASSUME PipeInv, Plan
    PROVE  PipeInv'
<1> USE DEF PipeInv
<1>1. /\ phase = "gathered" /\ phase' = "resolving" /\ account = "delivered"
      /\ ranked' = Ranking(cls) /\ positive' = Positive(cls) /\ excluded' = Excluded(cls)
      /\ max_words' = MaxWords(cls, profile)
      /\ UNCHANGED <<failures, present, i, bucket, tokens_used, cls, account, profile, answer>>
  BY DEF Plan, bundleVars, walkVars
<1>2. cls \in Classifications /\ StartWalk
  BY <1>1 DEF PipelineTypeOK
<1>3. StartWalk'
  BY <1>1, <1>2 DEF StartWalk
<1>4. ranked' \in Rankings
  BY <1>1, <1>2, RankingIsRanking
<1>5. Positive(cls) \subseteq Items /\ Excluded(cls) \subseteq Items \ Positive(cls)
  BY DEF Positive, Excluded, Score
<1>6. SelTypeOK'
  <2>1. Len(ranked') \in Nat
    BY <1>4, RankingLength, RegistryAssumption
  <2>2. failures' \subseteq Services /\ present' \subseteq Items
    BY <1>1 DEF PipelineTypeOK, SelTypeOK
  <2> QED
    BY <1>1, <1>3, <1>4, <1>5, <2>1, <2>2 DEF SelTypeOK, StartWalk, Buckets
<1>7. GreedyInv'
  BY <1>3, <1>6, FreshWalk, PTL
<1>8. PipelineTypeOK'
  BY <1>1, <1>6 DEF PipelineTypeOK
<1>9. MaxWords(cls, profile) \in Int
  BY <1>2, LengthNumber
<1> QED
  BY <1>1, <1>7, <1>8, <1>9

\* Nothing but the answer and the phase changes when a request is answered.
LEMMA FinishKeeps ==
    ASSUME PipeInv, NEW a, Finish(a), phase # "answered", a.status \in {200, 404, 502, 503},
           phase = "gathered" => account # "delivered"
    PROVE  PipeInv'
<1> USE DEF PipeInv
<1>1. /\ phase' = "answered" /\ answer' = a
      /\ UNCHANGED <<selVars, cls, account, profile, tone, max_words>>
  BY DEF Finish
<1>2. /\ SelTypeOK' /\ GreedyInv'
  BY <1>1, GreedyFrame DEF PipelineTypeOK
<1>3. PipelineTypeOK'
  BY <1>1, <1>2 DEF PipelineTypeOK, selVars, bundleVars
<1>4. ranked' = ranked /\ positive' = positive /\ excluded' = excluded
  BY <1>1 DEF selVars, planVars
<1> QED
  BY <1>1, <1>2, <1>3, <1>4

\* A step that keeps what the walk and the plan have settled keeps the rest.
LEMMA WalkOn ==
    ASSUME PipeInv, Resolve
    PROVE  PipeInv'
<1> USE DEF PipeInv
<1>1. Walk /\ phase = "resolving" /\ UNCHANGED pipeVars
  BY DEF Resolve
<1>2. GreedyInv' /\ SelTypeOK'
  <2>1. IInv'
    BY <1>1, WalkKeeps DEF GreedyInv
  <2> QED
    BY <1>1, <2>1, GreedyStep DEF IInv
<1>3. UNCHANGED <<ranked, positive, excluded, failures>>
  BY <1>1 DEF Walk, SetAside, Skip, MarkUnavailable, DropForBudget, Select, Visit,
              planVars, bundleVars
<1>4. PipelineTypeOK'
  BY <1>1, <1>2, <1>3 DEF PipelineTypeOK, pipeVars
<1> QED
  BY <1>1, <1>2, <1>3, <1>4 DEF pipeVars

LEMMA PipeStep ==
    ASSUME PipeInv, [PipelineNext]_allVars
    PROVE  PipeInv'
<1>1. CASE RejectUnknownUser \/ RejectUnavailable
  <2>1. \E a : Finish(a) /\ a.status \in {404, 503} /\ phase = "gathered" /\ account # "delivered"
    BY <1>1 DEF RejectUnknownUser, RejectUnavailable, NoAnswer
  <2> QED
    BY <2>1, FinishKeeps
<1>2. CASE Plan
  BY <1>2, PlanKeeps
<1>3. CASE Resolve
  BY <1>3, WalkOn
<1>4. CASE Explain \/ DeclineOutOfDomain \/ DeclineWithoutContext
  <2>1. \E a : Finish(a) /\ a.status = 200 /\ phase = "resolving"
    <3>1. CASE Explain
      <4> DEFINE a == [NoAnswer EXCEPT !.status = 200, !.debug = TRUE,
                                       !.sources = Listed("selected")]
      <4>1. a.status = 200
        BY DEF NoAnswer
      <4>2. Finish(a) /\ phase = "resolving"
        BY <3>1 DEF Explain
      <4> HIDE DEF a
      <4> QED
        BY <4>1, <4>2
    <3>2. CASE DeclineOutOfDomain \/ DeclineWithoutContext
      BY <3>2 DEF DeclineOutOfDomain, DeclineWithoutContext, NoAnswer
    <3> QED
      BY <1>4, <3>1, <3>2
  <2> QED
    BY <2>1, FinishKeeps
<1>5. CASE Generate
  <2>1. /\ phase = "resolving" /\ phase' = "generating" /\ Listed("selected") # <<>>
        /\ UNCHANGED <<selVars, cls, account, profile, tone, max_words, answer>>
    BY <1>5 DEF Generate
  <2>2. GreedyInv' /\ SelTypeOK'
    BY <2>1, GreedyFrame DEF PipeInv
  <2>3. UNCHANGED <<ranked, bucket, positive, excluded, failures>>
    BY <2>1 DEF selVars, planVars, bundleVars, walkVars
  <2>4. Listed("selected")' = Listed("selected")
    BY <2>3 DEF Listed, InBucket
  <2>5. PipelineTypeOK'
    BY <2>1, <2>2, <2>3 DEF PipeInv, PipelineTypeOK
  <2> QED
    BY <2>1, <2>2, <2>3, <2>4, <2>5 DEF PipeInv
<1>6. CASE GenerationFails
  <2>1. \E a : Finish(a) /\ a.status = 502 /\ phase = "generating"
    BY <1>6 DEF GenerationFails, NoAnswer
  <2> QED
    BY <2>1, FinishKeeps
<1>7. CASE ProviderAnswers
  <2>1. \E a : Finish(a) /\ a.status = 200 /\ phase = "generating"
    <3>1. PICK outcome \in ProviderOutcomes : phase = "generating" /\ Finish(Completed(outcome))
      BY <1>7 DEF ProviderAnswers
    <3>2. Completed(outcome).status = 200
      BY DEF Completed, NoAnswer
    <3> QED
      BY <3>1, <3>2
  <2> QED
    BY <2>1, FinishKeeps
<1>8. CASE MockAnswers
  <2>1. PICK offset \in Offsets : \E r :
            Finish([Completed("mock") EXCEPT !.told = r.told, !.words = r.words, !.cut = r.cut])
    BY <1>8 DEF MockAnswers
  <2>2. PICK r : Finish([Completed("mock") EXCEPT !.told = r.told, !.words = r.words,
                                                  !.cut = r.cut])
    BY <2>1
  <2>3. [Completed("mock") EXCEPT !.told = r.told, !.words = r.words,
                                  !.cut = r.cut].status = 200
    BY DEF Completed, NoAnswer
  <2>4. phase = "generating"
    BY <1>8 DEF MockAnswers
  <2> QED
    BY <2>2, <2>3, <2>4, FinishKeeps
<1>9. CASE UNCHANGED allVars
  <2>1. UNCHANGED <<selVars, phase, cls, account, profile, tone, max_words, answer>>
    BY <1>9 DEF allVars, pipeVars
  <2>2. GreedyInv' /\ SelTypeOK'
    BY <2>1, GreedyFrame DEF PipeInv
  <2>3. UNCHANGED <<ranked, bucket, positive, excluded, failures, present, i, tokens_used>>
    BY <2>1 DEF selVars, planVars, bundleVars, walkVars
  <2>4. Listed("selected")' = Listed("selected")
    BY <2>3 DEF Listed, InBucket
  <2>5. PipelineTypeOK'
    BY <2>1, <2>2, <2>3 DEF PipeInv, PipelineTypeOK
  <2> QED
    BY <2>1, <2>2, <2>3, <2>4, <2>5 DEF PipeInv, StartWalk
<1> QED
  BY <1>1, <1>2, <1>3, <1>4, <1>5, <1>6, <1>7, <1>8, <1>9 DEF PipelineNext

LEMMA PipeInvariant == PipelineSpec => []PipeInv
<1>1. PipeInv /\ [PipelineNext]_allVars => PipeInv'
  BY PipeStep
<1> QED
  BY <1>1, PipeInit, PTL DEF PipelineSpec

\* The request keeps its types: every ranking the planner makes is one the
\* selector can walk, and an answer has one of the five statuses (router.py).
THEOREM PipelineTypeCorrect == PipelineSpec => []PipelineTypeOK
<1>1. PipeInv => PipelineTypeOK
  BY DEF PipeInv
<1> QED
  BY <1>1, PipeInvariant, PTL

\* What resolve() promises of any plan, it keeps inside the request, where the
\* plan comes from the planner and the bundle from the fan-out.
THEOREM PipelineSelects ==
    PipelineSpec => [](BudgetSpentWell /\ OnlyCheaperOvertakes /\ GreedyByRank)
<1>1. PipeInv => BudgetSpentWell /\ OnlyCheaperOvertakes /\ GreedyByRank
  BY DEF PipeInv, GreedyInv, IInv
<1> QED
  BY <1>1, PipeInvariant, PTL

-----------------------------------------------------------------------------
(* The answers.                                                             *)

LEMMA VoiceWords ==
    ASSUME NEW tn
    PROVE  /\ Voice(tn).opening \in Nat /\ Voice(tn).closing \in Nat
           /\ \A m \in 1 .. 4 : Voice(tn).leads[m] \in Nat
<1> DEFINE Good(v) == /\ v.opening \in Nat /\ v.closing \in Nat
                      /\ \A m \in 1 .. 4 : v.leads[m] \in Nat
<1>1. Good(Voices.neutral)
  BY DEF Voices
<1>2. Good(Voices.warm)
  BY DEF Voices
<1>3. Good(Voices.calm)
  BY DEF Voices
<1>4. Good(Voices.supportive)
  BY DEF Voices
<1>5. Good(Voices.motivational)
  BY DEF Voices
<1>6. Voice(tn) \in {Voices.neutral, Voices.warm, Voices.calm, Voices.supportive,
                     Voices.motivational}
  BY DEF Voice, Voices
<1> HIDE DEF Good
<1>7. Good(Voice(tn))
  BY <1>1, <1>2, <1>3, <1>4, <1>5, <1>6
<1> QED
  BY <1>7 DEF Good

\* The mock says its opening, one sentence per fact, and its closing.
LEMMA SentenceWords ==
    ASSUME NEW L \in Seq(Items), L # <<>>, NEW tn, NEW s \in Scopes, NEW name \in Nat,
           NEW offset \in Offsets
    PROVE  LET prompt    == Prompt(L, tn, s, name)
               sentences == Sentences(prompt, offset)
           IN  Facts(prompt) = L /\ sentences \in Seq(Nat) /\ Len(sentences) = Len(L) + 2
<1> DEFINE prompt == Prompt(L, tn, s, name)
           voice  == Voice(tn)
           middle == [n \in DOMAIN L |-> Lead(voice, offset, n) + ClauseWords[L[n]]]
           first  == <<name + voice.opening + HorizonWords[s]>>
           last   == <<voice.closing>>
<1>1. /\ prompt.tone = tn /\ prompt.name = name /\ prompt.horizon = HorizonWords[s]
      /\ prompt.bullets = L
  BY DEF Prompt
<1>2. Facts(prompt) = L
  BY <1>1, AmongAll DEF Facts
<1>3. Sentences(prompt, offset) = (first \o middle) \o last
  <2> HIDE DEF prompt
  <2> QED
    BY <1>1, <1>2 DEF Sentences
<1>4. /\ voice.opening \in Nat /\ voice.closing \in Nat
      /\ \A m \in 1 .. 4 : voice.leads[m] \in Nat
  BY VoiceWords
<1> HIDE DEF voice
<1>5. HorizonWords[s] \in Nat
  BY PipelineAssumption, PhraseAssumption
<1>6. first \in Seq(Nat) /\ Len(first) = 1 /\ last \in Seq(Nat) /\ Len(last) = 1
  BY <1>4, <1>5
<1>7. middle \in Seq(Nat) /\ Len(middle) = Len(L)
  <2>1. ASSUME NEW n \in DOMAIN L
        PROVE  Lead(voice, offset, n) + ClauseWords[L[n]] \in Nat
    <3>1. n \in Nat /\ n >= 1 /\ L[n] \in Items
      OBVIOUS
    <3>2. (IF n = 1 THEN 1 ELSE 2 + ((offset + n - 1) % 3)) \in 1 .. 4
      BY <3>1 DEF Offsets
    <3>3. Lead(voice, offset, n) \in Nat
      BY <1>4, <3>2 DEF Lead
    <3>4. ClauseWords[L[n]] \in Nat
      BY <3>1, PhraseAssumption
    <3> QED
      BY <3>3, <3>4
  <2>2. middle \in [1 .. Len(L) -> Nat] /\ Len(L) \in Nat
    BY <2>1
  <2> HIDE DEF middle
  <2> QED
    BY <2>2
<1> HIDE DEF first, middle, last
<1>8. first \o middle \in Seq(Nat) /\ Len(first \o middle) = Len(first) + Len(middle)
  BY <1>6, <1>7, ConcatProperties, Zenon
<1>9. /\ (first \o middle) \o last \in Seq(Nat)
      /\ Len((first \o middle) \o last) = Len(first \o middle) + Len(last)
  BY <1>6, <1>8, ConcatProperties, Zenon
<1>10. Sentences(prompt, offset) \in Seq(Nat) /\ Len(Sentences(prompt, offset)) = Len(L) + 2
  <2>1. Len(L) \in Nat
    OBVIOUS
  <2> QED
    BY <1>3, <1>6, <1>7, <1>8, <1>9, <2>1
<1> QED
  BY <1>2, <1>10

\* What _fit keeps is within the cap, but for the first sentence.
LEMMA KeptFits ==
    ASSUME NEW sentences \in Seq(Nat), Len(sentences) >= 1, NEW cap \in Int
    PROVE  LET kept == Kept(sentences, cap)
           IN  /\ kept \in 1 .. Len(sentences)
               /\ WordsOf(sentences, kept) \in Nat
               /\ WordsOf(sentences, kept) > cap => kept = 1
<1> DEFINE S == {n \in DOMAIN sentences : \A m \in 2 .. n : WordsOf(sentences, m) <= cap}
           kept == Kept(sentences, cap)
<1>1. Len(sentences) \in Nat /\ DOMAIN sentences = 1 .. Len(sentences)
  OBVIOUS
<1>2. S \in SUBSET Int /\ 1 \in S
  BY <1>1
<1>3. IsFiniteSet(S)
  <2>1. IsFiniteSet(1 .. Len(sentences))
    BY <1>1, FS_Interval
  <2>2. S \subseteq 1 .. Len(sentences)
    BY <1>1
  <2> HIDE DEF S
  <2> QED
    BY <2>1, <2>2, FS_Subset
<1>4. kept \in S
  <2>1. kept = Max(S)
    BY DEF Kept
  <2> HIDE DEF S, kept
  <2> QED
    BY <1>2, <1>3, <2>1, GreatestNumber
<1> HIDE DEF kept
<1>5. kept \in 1 .. Len(sentences) /\ \A m \in 2 .. kept : WordsOf(sentences, m) <= cap
  BY <1>1, <1>4
<1>6. WordsOf(sentences, kept) \in Nat
  <2>1. IsFiniteSet(1 .. kept)
    BY <1>5, FS_Interval
  <2>2. \A x \in 1 .. kept : sentences[x] \in Nat
    BY <1>1, <1>5
  <2> QED
    BY <2>1, <2>2, SumNumber DEF WordsOf
<1>7. WordsOf(sentences, kept) > cap => kept = 1
  <2> SUFFICES ASSUME kept # 1 PROVE ~(WordsOf(sentences, kept) > cap)
    OBVIOUS
  <2>1. kept \in 2 .. kept
    BY <1>5
  <2>2. WordsOf(sentences, kept) <= cap
    BY <1>5, <2>1
  <2> QED
    BY <1>6, <2>2
<1> QED
  BY <1>5, <1>6, <1>7 DEF kept

\* Whatever is kept, it is told whole, from the head of the ranking.
LEMMA ReplyWhole ==
    ASSUME NEW L \in Seq(Items), L # <<>>, NEW tn, NEW s \in Scopes, NEW name \in Nat,
           NEW cap \in Int, NEW offset \in Offsets
    PROVE  LET reply == Reply(Prompt(L, tn, s, name), cap, offset)
           IN  /\ reply.words <= cap
               /\ reply.told = SubSeq(L, 1, Len(reply.told))
               /\ reply.cut => reply.told = <<>>
<1> DEFINE prompt    == Prompt(L, tn, s, name)
           sentences == Sentences(prompt, offset)
           kept      == Kept(sentences, cap)
           words     == WordsOf(sentences, kept)
           told      == Min({kept - 1, Len(L)})
           reply     == Reply(prompt, cap, offset)
<1>1. Facts(prompt) = L /\ sentences \in Seq(Nat) /\ Len(sentences) = Len(L) + 2
  BY SentenceWords
<1>2. Len(L) \in Nat
  OBVIOUS
<1>3. reply = [told |-> SubSeq(L, 1, told), words |-> Min({words, cap}), cut |-> words > cap]
  <2> HIDE DEF prompt
  <2> QED
    BY <1>1 DEF Reply
<1> HIDE DEF sentences
<1>4. kept \in 1 .. Len(sentences) /\ words \in Nat /\ (words > cap => kept = 1)
  <2>1. Len(sentences) >= 1
    BY <1>1, <1>2
  <2>2. sentences \in Seq(Nat)
    BY <1>1
  <2> HIDE DEF prompt
  <2> QED
    BY <2>1, <2>2, KeptFits
<1> HIDE DEF kept, words
<1>5. Min({words, cap}) <= cap
  <2>1. words \in Int
    BY <1>4
  <2> QED
    BY <2>1, Smaller
<1>6. told \in {kept - 1, Len(L)} /\ told <= kept - 1 /\ told <= Len(L)
  <2>1. kept - 1 \in Int /\ Len(L) \in Int
    BY <1>2, <1>4
  <2> QED
    BY <2>1, Smaller
<1> HIDE DEF told
<1>7. told \in 0 .. Len(L)
  BY <1>2, <1>4, <1>6
<1>8. Len(SubSeq(L, 1, told)) = told
  BY <1>2, <1>7
<1>9. words > cap => SubSeq(L, 1, told) = <<>>
  <2> SUFFICES ASSUME words > cap PROVE SubSeq(L, 1, told) = <<>>
    OBVIOUS
  <2>1. told = 0
    BY <1>2, <1>4, <1>6, <1>7
  <2> QED
    BY <2>1
<1>10. /\ reply.words <= cap
       /\ reply.told = SubSeq(L, 1, Len(reply.told))
       /\ reply.cut => reply.told = <<>>
  <2> HIDE DEF reply
  <2> QED
    BY <1>3, <1>5, <1>8, <1>9
<1> QED
  BY <1>10

\* What the selector hands over while the model is asked.
LEMMA SelectionLegitimate ==
    ASSUME PipeInv, phase = "generating"
    PROVE  /\ Listed("selected") # <<>> /\ Listed("selected") \in Seq(Items)
           /\ \A n \in DOMAIN Listed("selected") :
                 LET k == Listed("selected")[n]
                 IN  /\ ServiceOf[k] \notin failures /\ k \in present
                     /\ \A x \in Active(cls) : k \notin Exclude[x]
<1>1. /\ Listed("selected") \in Seq(InBucket("selected"))
      /\ \A k \in InBucket("selected") : k \in positive \ excluded /\ HasValue(k)
  BY SelectedIsReal DEF PipeInv
<1>2. InBucket("selected") \subseteq Items
  BY DEF InBucket
<1>3. positive = Positive(cls)
  BY DEF PipeInv
<1>4. ASSUME NEW k \in InBucket("selected"), NEW x \in Active(cls)
      PROVE  k \notin Exclude[x]
  <2>1. Score(k, cls) > 0
    BY <1>1, <1>3 DEF Positive
  <2>2. ExcludedBy(k, Active(cls)) = {}
    BY <2>1 DEF Score
  <2> QED
    BY <2>2 DEF ExcludedBy
<1>5. \A n \in DOMAIN Listed("selected") : Listed("selected")[n] \in InBucket("selected")
  BY <1>1
<1>6. Listed("selected") \in Seq(Items)
  BY <1>1, <1>2
<1>7. Listed("selected") # <<>>
  BY DEF PipeInv
<1> QED
  BY <1>1, <1>4, <1>5, <1>6, <1>7 DEF HasValue

AnswerInv == PipeInv /\ SourcesLegitimate /\ MockToldWhole

\* An answer that is not a completion of the model tells nothing.
LEMMA PlainAnswer ==
    ASSUME NEW a, Finish(a), a.llm = FALSE \/ a.status # 200, a.outcome # "mock"
    PROVE  SourcesLegitimate' /\ MockToldWhole'
<1>1. answer' = a
  BY DEF Finish
<1> QED
  BY <1>1 DEF SourcesLegitimate, MockToldWhole, Answered

LEMMA CompletionAnswer ==
    ASSUME PipeInv, phase = "generating", NEW a, Finish(a), a.sources = Listed("selected")
    PROVE  SourcesLegitimate'
<1>1. answer' = a /\ UNCHANGED <<failures, present, cls>>
  BY DEF Finish, selVars, bundleVars
<1> QED
  BY <1>1, SelectionLegitimate DEF SourcesLegitimate, Active

LEMMA AnswerStep ==
    ASSUME AnswerInv, [PipelineNext]_allVars
    PROVE  SourcesLegitimate' /\ MockToldWhole'
<1> DEFINE Goal == SourcesLegitimate' /\ MockToldWhole'
<1> SUFFICES Goal
  OBVIOUS
<1>0. None # "mock"
  BY PipelineAssumption
<1>1. CASE RejectUnknownUser \/ RejectUnavailable
  <2>1. \E a : Finish(a) /\ a.llm = FALSE /\ a.outcome = None
    BY <1>1 DEF RejectUnknownUser, RejectUnavailable, NoAnswer
  <2> QED
    BY <1>0, <2>1, PlainAnswer
<1>2. CASE Plan \/ Resolve \/ Generate
  <2>1. phase' # "answered"
    BY <1>2 DEF Plan, Resolve, Generate, pipeVars
  <2> QED
    BY <2>1 DEF SourcesLegitimate, MockToldWhole, Answered
<1>3. CASE Explain \/ DeclineOutOfDomain \/ DeclineWithoutContext
  <2>1. \E a : Finish(a) /\ a.llm = FALSE /\ a.outcome = None
    <3>1. CASE Explain
      <4> DEFINE a == [NoAnswer EXCEPT !.status = 200, !.debug = TRUE,
                                       !.sources = Listed("selected")]
      <4>1. a.llm = FALSE /\ a.outcome = None
        BY DEF NoAnswer
      <4>2. Finish(a)
        BY <3>1 DEF Explain
      <4> HIDE DEF a
      <4> QED
        BY <4>1, <4>2
    <3>2. CASE DeclineOutOfDomain \/ DeclineWithoutContext
      BY <3>2 DEF DeclineOutOfDomain, DeclineWithoutContext, NoAnswer
    <3> QED
      BY <1>3, <3>1, <3>2
  <2> QED
    BY <1>0, <2>1, PlainAnswer
<1>4. CASE GenerationFails
  <2>1. PICK outcome \in ProviderOutcomes :
            Finish([NoAnswer EXCEPT !.status = 502, !.llm = TRUE, !.outcome = outcome])
    BY <1>4 DEF GenerationFails
  <2>2. outcome # "mock"
    BY DEF ProviderOutcomes
  <2> DEFINE a == [NoAnswer EXCEPT !.status = 502, !.llm = TRUE, !.outcome = outcome]
  <2>3. a.status # 200 /\ a.outcome # "mock"
    BY <2>2 DEF NoAnswer
  <2> HIDE DEF a
  <2> QED
    BY <2>1, <2>3, PlainAnswer DEF a
<1>5. CASE ProviderAnswers
  <2>1. PICK outcome \in ProviderOutcomes : phase = "generating" /\ Finish(Completed(outcome))
    BY <1>5 DEF ProviderAnswers
  <2>2. Completed(outcome).sources = Listed("selected") /\ Completed(outcome).outcome = outcome
    BY DEF Completed, NoAnswer
  <2>3. SourcesLegitimate'
    BY <2>1, <2>2, CompletionAnswer DEF AnswerInv
  <2>4. answer'.outcome # "mock"
    BY <2>1, <2>2 DEF Finish, ProviderOutcomes
  <2> QED
    BY <2>3, <2>4 DEF MockToldWhole
<1>6. CASE MockAnswers
  <2> DEFINE L == Listed("selected")
             R(offset) == Reply(Prompt(L, tone, cls.scope, profile.name), max_words, offset)
             A(r) == [Completed("mock") EXCEPT !.told = r.told, !.words = r.words,
                                               !.cut = r.cut]
  <2>1. PICK offset \in Offsets : phase = "generating" /\ Finish(A(R(offset)))
    BY <1>6 DEF MockAnswers
  <2>2. \A r : /\ A(r).sources = L
               /\ A(r).told = r.told /\ A(r).words = r.words /\ A(r).cut = r.cut
    BY DEF Completed, NoAnswer
  <2>3. L # <<>> /\ L \in Seq(Items)
    BY <2>1, SelectionLegitimate DEF AnswerInv
  <2>4. cls.scope \in Scopes /\ profile.name \in Nat /\ max_words \in Int
    BY PipelineAssumption DEF AnswerInv, PipeInv, PipelineTypeOK
  <2>5. PICK r : r = R(offset)
    OBVIOUS
  <2>6. r.words <= max_words /\ r.told = SubSeq(L, 1, Len(r.told)) /\ (r.cut => r.told = <<>>)
    <3> HIDE DEF L
    <3> QED
      BY <2>3, <2>4, <2>5, ReplyWhole
  <2>7. Finish(A(r))
    BY <2>1, <2>5
  <2>8. answer' = A(r) /\ max_words' = max_words
    BY <2>7 DEF Finish
  <2> HIDE DEF L, R, A
  <2>9. SourcesLegitimate'
    BY <2>1, <2>2, <2>7, CompletionAnswer DEF AnswerInv, L
  <2>10. MockToldWhole'
    BY <2>2, <2>6, <2>8 DEF MockToldWhole
  <2> QED
    BY <2>9, <2>10
<1>7. CASE UNCHANGED allVars
  BY <1>7 DEF AnswerInv, SourcesLegitimate, MockToldWhole, Answered, Active,
              allVars, pipeVars, selVars, bundleVars
<1> QED
  BY <1>1, <1>2, <1>3, <1>4, <1>5, <1>6, <1>7 DEF PipelineNext

LEMMA AnswerInvariant == PipelineSpec => []AnswerInv
<1>1. PipelineInit => SourcesLegitimate /\ MockToldWhole
  BY DEF PipelineInit, SourcesLegitimate, MockToldWhole, Answered
<1>2. AnswerInv /\ [PipelineNext]_allVars => AnswerInv'
  <2>1. PipeInv /\ [PipelineNext]_allVars => PipeInv'
    BY PipeStep
  <2> QED
    BY <2>1, AnswerStep DEF AnswerInv
<1> QED
  BY <1>1, <1>2, PipeInit, PTL DEF PipelineSpec, AnswerInv

\* The sources of every completed answer were delivered by healthy services and
\* are ruled out by no intent of the question (plan, resolve, personalize).
THEOREM SourcesTheorem == PipelineSpec => []SourcesLegitimate
<1>1. AnswerInv => SourcesLegitimate
  BY DEF AnswerInv
<1> QED
  BY <1>1, AnswerInvariant, PTL

\* The mock never goes over the planned length and never cuts a fact in the
\* middle, whatever the facts, the voice and the length (mock.py).
THEOREM MockTheorem == PipelineSpec => []MockToldWhole
<1>1. AnswerInv => MockToldWhole
  BY DEF AnswerInv
<1> QED
  BY <1>1, AnswerInvariant, PTL

-----------------------------------------------------------------------------
(* What reaches the prompt, and the walk seen from the selector.            *)

\* What reaches the prompt is the best there is, up to what the budget lets a
\* cheaper item save: the order of the scores survives the sort and the walk,
\* for every rules, modifiers, bundle and budget (planner.py, selector.py).
THEOREM BestFirstTheorem == PipelineSpec => []BestContextFirst
<1>1. ASSUME PipeInv PROVE BestContextFirst
  <2> USE <1>1 DEF PipeInv
  <2> SUFFICES ASSUME phase = "generating",
                      NEW k \in InBucket("selected"), NEW j \in Items,
                      bucket[j] # "selected", HasValue(j), Score(j, cls) > Score(k, cls)
               PROVE  TokenCost[j] > TokenCost[k]
    BY DEF BestContextFirst
  <2>1. /\ cls \in Classifications /\ ranked = Ranking(cls)
        /\ positive = Positive(cls) /\ excluded = Excluded(cls)
    BY DEF PipelineTypeOK
  <2>2. k \in Items /\ k \in positive \ excluded /\ bucket[k] = "selected"
    BY SelectedIsReal DEF InBucket
  <2>3. Score(j, cls) \in Int /\ Score(k, cls) \in Int /\ Score(k, cls) > 0
    BY <2>1, <2>2, ScoreNumber DEF Positive
  <2>4. j \in positive \ excluded
    <3>1. Score(j, cls) > 0
      BY <2>3
    <3>2. ExcludedBy(j, Active(cls)) = {}
      BY <3>1 DEF Score
    <3> QED
      BY <2>1, <3>1, <3>2 DEF Positive, Excluded
  <2>5. ranked \in Rankings
    BY <2>1, RankingIsRanking
  <2>6. PICK m \in 1 .. Cardinality(Items) : ranked[m] = j
    BY <2>5, Placed
  <2>7. PICK n \in 1 .. i : ranked[n] = k
    BY <2>2 DEF GreedyInv, Behind
  <2>8. i \in Nat /\ i <= Cardinality(Items)
    <3>1. Len(ranked) = Cardinality(Items) /\ Cardinality(Items) \in Nat
      BY <2>5, RankingLength
    <3>2. i \in 0 .. Len(ranked)
      BY DEF GreedyInv, IInv, SelTypeOK
    <3> QED
      BY <3>1, <3>2
  <2>9. n \in 1 .. Cardinality(Items) /\ Cardinality(Items) \in Nat
    BY <2>8, RegistryAssumption, FS_CardinalityType
  <2>10. m < n
    <3>1. m # n
      BY <2>3, <2>6, <2>7
    <3>2. ~(n < m)
      <4>1. n < m => Score(Ranking(cls)[n], cls) >= Score(Ranking(cls)[m], cls)
        BY <2>1, <2>9, RankingIsRanking
      <4> QED
        BY <2>1, <2>3, <2>6, <2>7, <4>1
    <3> QED
      BY <2>9, <3>1, <3>2
  <2>11. m \in 1 .. i
    BY <2>8, <2>10
  <2>12. TokenCost[ranked[m]] > TokenCost[ranked[n]]
    BY <2>2, <2>4, <2>6, <2>7, <2>10, <2>11, PassedOver
  <2> QED
    BY <2>6, <2>7, <2>12
<1> QED
  BY <1>1, PipeInvariant, PTL

\* A set has one size, whichever copy of FiniteSets counts it.
LEMMA SameSize == \A S : Resolver!Cardinality(S) = Cardinality(S)
BY DEF Cardinality, Resolver!Cardinality

\* The state the selector sees at the start is one it can be called in.
LEMMA ResolverStarts == PipelineInit => Resolver!Init
<1> SUFFICES ASSUME PipelineInit PROVE Resolver!Init
  OBVIOUS
<1>1. /\ phase = "gathered" /\ cls \in Classifications
      /\ ranked = ItemOrder /\ positive = {} /\ excluded = {}
      /\ present \in SUBSET Items
      /\ i = 0 /\ bucket = [k \in Items |-> "unseen"] /\ tokens_used = 0
  BY DEF PipelineInit, StartWalk
<1>2. failures \in SUBSET Services
  <2>1. "user" \in Services
    BY PipelineAssumption
  <2> QED
    BY <2>1 DEF PipelineInit
<1>3. Resolver!StartWalk
  BY <1>1 DEF Resolver!StartWalk
<1>4. PICK r, p, e : /\ r = Awaited(Ranking(cls), ranked) /\ p = Awaited(Positive(cls), positive)
                     /\ e = Awaited(Excluded(cls), excluded)
  OBVIOUS
<1>5. /\ r \in Rankings /\ e \subseteq Items \ p
      /\ \E n \in 0 .. Cardinality(Items) : p = {r[m] : m \in 1 .. n}
  <2>1. CASE account = "delivered"
    <3>1. r = Ranking(cls) /\ p = Positive(cls) /\ e = Excluded(cls)
      BY <1>1, <1>4, <2>1 DEF Awaited
    <3>2. Excluded(cls) \subseteq Items \ Positive(cls)
      BY DEF Positive, Excluded, Score
    <3> QED
      BY <1>1, <3>1, <3>2, RankingIsRanking, PositiveHead
  <2>2. CASE account # "delivered"
    <3>1. r = ItemOrder /\ p = {} /\ e = {}
      BY <1>1, <1>4, <2>2 DEF Awaited
    <3>2. p = {r[m] : m \in 1 .. 0}
      BY <3>1
    <3>3. 0 \in 0 .. Cardinality(Items)
      BY RegistryAssumption, FS_CardinalityType
    <3> QED
      BY <3>1, <3>2, <3>3, AlphabetIsRanking
  <2> QED
    BY <2>1, <2>2
<1>6. Len(r) = Cardinality(Items)
  BY <1>5, RankingLength
<1>7. r \in Resolver!Rankings
  BY <1>5, SameSize DEF Rankings, Resolver!Rankings
<1>8. failures \in SUBSET Resolver!Services
  BY <1>2 DEF Services, Resolver!Services
<1> QED
  BY <1>1, <1>3, <1>4, <1>5, <1>6, <1>7, <1>8 DEF Resolver!Init

\* Every step of the request is a round of the walk or leaves it alone.
LEMMA ResolverGoesOn ==
    ASSUME PipeInv, [PipelineNext]_allVars
    PROVE  [Resolver!Walk]_(Resolver!selVars)
<1>1. ASSUME UNCHANGED <<ranked, positive, excluded, failures, present, i, bucket,
                         tokens_used, cls, account>>,
             phase = "gathered" /\ account = "delivered" <=>
                 phase' = "gathered" /\ account = "delivered"
      PROVE  UNCHANGED Resolver!selVars
  BY <1>1 DEF Resolver!selVars, Resolver!planVars, Resolver!bundleVars, Resolver!walkVars,
              Awaited
<1>2. CASE Plan
  BY <1>2 DEF Plan, bundleVars, walkVars, Resolver!selVars, Resolver!planVars,
              Resolver!bundleVars, Resolver!walkVars, Awaited
<1>3. CASE Resolve
  <2>1. /\ Walk /\ phase = "resolving" /\ phase' = "resolving"
        /\ cls' = cls /\ account' = account
    BY <1>3 DEF Resolve, pipeVars
  <2>2. /\ Awaited(Ranking(cls), ranked) = ranked
        /\ Awaited(Positive(cls), positive) = positive
        /\ Awaited(Excluded(cls), excluded) = excluded
        /\ Awaited(Ranking(cls), ranked)' = ranked'
        /\ Awaited(Positive(cls), positive)' = positive'
        /\ Awaited(Excluded(cls), excluded)' = excluded'
    BY <2>1 DEF Awaited
  <2>3. Resolver!Walk
    BY <2>1, <2>2
       DEF Walk, SetAside, Skip, MarkUnavailable, DropForBudget, Select, Visit, Current,
           Candidate, HasValue, planVars, bundleVars,
           Resolver!Walk, Resolver!SetAside, Resolver!Skip, Resolver!MarkUnavailable,
           Resolver!DropForBudget, Resolver!Select, Resolver!Visit, Resolver!Current,
           Resolver!Candidate, Resolver!HasValue, Resolver!planVars, Resolver!bundleVars
  <2> QED
    BY <2>3
<1>4. CASE RejectUnknownUser \/ RejectUnavailable \/ Explain \/ DeclineOutOfDomain
           \/ DeclineWithoutContext \/ GenerationFails \/ ProviderAnswers \/ MockAnswers
  <2>1. /\ \E a : Finish(a)
        /\ phase = "gathered" => account # "delivered"
    BY <1>4 DEF RejectUnknownUser, RejectUnavailable, Explain, DeclineOutOfDomain,
                DeclineWithoutContext, GenerationFails, ProviderAnswers, MockAnswers
  <2>2. UNCHANGED <<selVars, cls, account>> /\ phase' = "answered"
    BY <2>1 DEF Finish
  <2> QED
    BY <1>1, <2>1, <2>2 DEF selVars, planVars, bundleVars, walkVars
<1>5. CASE Generate
  <2>1. /\ UNCHANGED <<selVars, cls, account>>
        /\ phase = "resolving" /\ phase' = "generating"
    BY <1>5 DEF Generate
  <2> QED
    BY <1>1, <2>1 DEF selVars, planVars, bundleVars, walkVars
<1>6. CASE UNCHANGED allVars
  BY <1>1, <1>6 DEF allVars, pipeVars, selVars, planVars, bundleVars, walkVars
<1> QED
  BY <1>2, <1>3, <1>4, <1>5, <1>6 DEF PipelineNext

\* The request runs resolve(), and calls it as it may be called: with a ranking
\* of the whole registry whose head are the positive items, and with exclusions
\* that never scored, for every configuration the planner accepts.
THEOREM RunsResolveTheorem == PipelineSpec => RunsResolve
<1>1. PipeInv /\ [PipelineNext]_allVars => [Resolver!Walk]_(Resolver!selVars)
  BY ResolverGoesOn
<1> QED
  BY <1>1, ResolverStarts, PipeInvariant, PTL DEF PipelineSpec, RunsResolve, Resolver!Spec
=============================================================================
