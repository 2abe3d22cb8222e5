------------------------------ MODULE Planner ------------------------------
(***************************************************************************)
(* Phase 1 of personalization: app/engine/compiler.py (tier rules turned   *)
(* into weights per item) and app/engine/planner.py (score, rank, tone and *)
(* length).  plan() is a pure function of the classification, the user     *)
(* profile and the configuration; so are the operators below.              *)
(*                                                                         *)
(* Numbers are scaled to integers: an intent's share is in percent, a tier *)
(* weight in tenths, so scores and modifiers are in thousandths.           *)
(***************************************************************************)
EXTENDS Registry, FiniteSetsExt

CONSTANTS
    ItemOrder,       \* the keys of REGISTRY in alphabetical order
    Intents, Scopes,
    Primary, Secondary, Exclude, \* personalization.yaml rules: intent -> keys
    PrimaryWeight, SecondaryWeight,
    Modifier,        \* time_scope_modifiers: key -> scope -> thousandths
    ModifierCap,
    SubscriptionCap, \* length.subscription
    IntentCap,       \* length.intent
    WordsPerItem, Floor,
    DefaultTone,
    AllowedTones,    \* allowed_by_intent; {} where the intent has no guardrail
    FallbackTone,    \* fallback_by_intent
    None

\* The validators of config_schema.py and compile_rules: what they reject at
\* boot does not reach the planner.
KnownKeys == \A x \in Intents : Primary[x] \cup Secondary[x] \cup Exclude[x] \subseteq Items
NoItemInTwoPlaces ==
    \A x \in Intents :
        /\ Primary[x] \cap Secondary[x] = {}
        /\ (Primary[x] \cup Secondary[x]) \cap Exclude[x] = {}
ModifiersWithinCap ==
    \A k \in Items, s \in Scopes : Modifier[k][s] \in -ModifierCap .. ModifierCap

\* No bound of the schema keeps the floor from being negative; nobody runs that.
ASSUME ConfigAssumption ==
    /\ ItemOrder \in [1 .. Cardinality(Items) -> Items]
    /\ {ItemOrder[n] : n \in DOMAIN ItemOrder} = Items
    /\ PrimaryWeight \in Int /\ SecondaryWeight \in Int /\ ModifierCap \in Int
    /\ IsFiniteSet(DOMAIN SubscriptionCap)
    /\ \A t \in DOMAIN SubscriptionCap : SubscriptionCap[t] \in Int
    /\ \A x \in DOMAIN IntentCap : IntentCap[x] \in Int
    /\ WordsPerItem \in Int /\ Floor \in Nat
    /\ KnownKeys /\ NoItemInTwoPlaces /\ ModifiersWithinCap

(* A classification: one intent at 100 %, or the two contenders of a merge, *)
(* the first with the larger share.                                         *)

Active(cls) == {cls.top, cls.second} \ {None}

\* ClassificationResult.weights, in percent.
Share(cls, x) == IF x = cls.top THEN cls.share ELSE 100 - cls.share

-----------------------------------------------------------------------------
(* compile_rules and CompiledRules.                                         *)

WeightFor(k, x) ==
    CASE k \in Primary[x]   -> PrimaryWeight
      [] k \in Secondary[x] -> SecondaryWeight
      [] OTHER              -> 0

\* Mutant of ExcludedBy: a primary item of one intent survives the other's veto.
ExcludedUnlessPrimary(k, active) ==
    {x \in active : k \in Exclude[x] /\ \A y \in active : k \notin Primary[y]}

ExcludedBy(k, active) == {x \in active : k \in Exclude[x]}

(* plan(). *)

TierSum(k, cls) == SumFunction([x \in Active(cls) |-> Share(cls, x) * WeightFor(k, x)])

\* Mutant of Score: the time scope nudges the item after the exclusion.
ScoreNudgedLast(k, cls) ==
    Modifier[k][cls.scope] +
    IF ExcludedBy(k, Active(cls)) # {} THEN 0
    ELSE TierSum(k, cls)

\* The weighted tiers of every active intent, nudged by the time scope, unless
\* any active intent excludes the item: that zero is applied last.
Score(k, cls) ==
    IF ExcludedBy(k, Active(cls)) # {} THEN 0
    ELSE TierSum(k, cls) + Modifier[k][cls.scope]

Position(k) == CHOOSE n \in DOMAIN ItemOrder : ItemOrder[n] = k

\* The ScoredItems.
Scored(cls) == {[key |-> k, score |-> Score(k, cls)] : k \in Items}

\* Mutant of SortsBefore: the sign of the score is forgotten.
SortsBeforeAscending(a, b) ==
    \/ a.score < b.score
    \/ a.score = b.score /\ Position(a.key) < Position(b.key)

\* Descending score, alphabetical among equals.
SortsBefore(a, b) ==
    \/ a.score > b.score
    \/ a.score = b.score /\ Position(a.key) < Position(b.key)

\* The n-th of the ranking is the one that n - 1 others sort before.
Ranking(cls) ==
    LET scored == Scored(cls)
        Nth(n) == CHOOSE a \in scored : Cardinality({b \in scored : SortsBefore(b, a)}) = n - 1
    IN  [n \in 1 .. Cardinality(Items) |-> Nth(n).key]

Positive(cls) == {k \in Items : Score(k, cls) > 0}
Excluded(cls) == {k \in Items : ExcludedBy(k, Active(cls)) # {}}

-----------------------------------------------------------------------------
(* _tone and _max_words.                                                    *)

\* One intent's veto on the tone so far.
Guarded(tone, x) ==
    IF AllowedTones[x] # {} /\ tone \notin AllowedTones[x] THEN FallbackTone[x] ELSE tone

\* Mutant of Tone: sorted() in descending order, the weakest has the last word.
ToneWeakestLast(cls, profile) ==
    LET wanted == IF profile.tone = None THEN DefaultTone ELSE profile.tone
    IN  IF cls.second = None THEN Guarded(wanted, cls.top)
        ELSE Guarded(Guarded(wanted, cls.top), cls.second)

\* Every active intent has a veto, the strongest the last word; sorted() keeps
\* the order of the dict, top first, between equal shares.
Tone(cls, profile) ==
    LET wanted == IF profile.tone = None THEN DefaultTone ELSE profile.tone
    IN  CASE cls.second = None -> Guarded(wanted, cls.top)
          [] cls.second # None /\ cls.share = 50 ->
                 Guarded(Guarded(wanted, cls.top), cls.second)
          [] OTHER -> Guarded(Guarded(wanted, cls.second), cls.top)

NoCap == 10000

\* Mutant of SubscriptionLimit: an unknown tier gets the most generous cap.
SubscriptionLimitGenerous(profile) ==
    IF profile.subscription \in DOMAIN SubscriptionCap
    THEN SubscriptionCap[profile.subscription]
    ELSE Max({SubscriptionCap[t] : t \in DOMAIN SubscriptionCap})

\* An unknown or missing tier gets the most restrictive cap, if there is any.
SubscriptionLimit(profile) ==
    IF profile.subscription \in DOMAIN SubscriptionCap
    THEN SubscriptionCap[profile.subscription]
    ELSE IF DOMAIN SubscriptionCap = {} THEN NoCap
    ELSE Min({SubscriptionCap[t] : t \in DOMAIN SubscriptionCap})

IntentLimit(x) == IF x \in DOMAIN IntentCap THEN IntentCap[x] ELSE NoCap

MaxWords(cls, profile) ==
    Max({Floor, Min({SubscriptionLimit(profile),
                     IntentLimit(cls.top),
                     WordsPerItem * Cardinality(Positive(cls))})})
=============================================================================
