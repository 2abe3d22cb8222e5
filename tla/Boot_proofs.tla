----------------------------- MODULE Boot_proofs -----------------------------
(***************************************************************************)
(* Proofs about Boot, for every set of documents, registry, vocabulary and *)
(* installation.                                                           *)
(***************************************************************************)
EXTENDS Boot, FiniteSetTheorems, TLAPS

USE BootAssumption, LexiconAssumption

Stages == {"intents", "personalization", "services", "linting", "crosscheck",
           "opening", "lexicon", "gate", "rules", "clients", "llm",
           "serving", "stopped", "failed"}

\* The stages at which the loader has established each of its checks, up to
\* the opening of the connection pool.
Loading == {"intents", "personalization", "services", "linting", "crosscheck", "opening"}

Tiers == NoItemInTwoPlaces(disk.personalization.rules)

LoaderInv ==
    /\ stage \in Stages
    /\ stage \in Loading => http = "none"
    /\ stage \in Stages \ (Loading \cup {"failed"}) => http # "none"
    /\ stage \in Stages \ {"intents", "personalization", "failed"} => Tiers
    /\ stage \in {"crosscheck", "opening"} => ~PrefixProblems /\ ~ZodiacProblems
    /\ stage = "opening" => Dangling(disk.personalization) = {}
    /\ RefusedBeforeOpening

\* The documents are read once: what is true of them stays true.
LEMMA SameDocuments ==
    ASSUME UNCHANGED docVars
    PROVE  /\ Tiers' <=> Tiers
           /\ PrefixProblems' <=> PrefixProblems
           /\ ZodiacProblems' <=> ZodiacProblems
           /\ Dangling(disk.personalization)' = Dangling(disk.personalization)
BY DEF docVars, Tiers, PrefixProblems, ZodiacProblems, NoItemInTwoPlaces, Dangling

LEMMA DocumentsKept ==
    ASSUME [BootNext]_bootVars
    PROVE  UNCHANGED docVars
BY DEF BootNext, bootVars, ParseIntents, ParsePersonalization, ParseServices, Lint,
       CrossCheck, OpenClient, CompileLexicon, CompileGate, CompileRule, RulesCompiled,
       BuildClients, ResolveAuto, ResolveMock, ResolveAsked, ResolveFails, Serve, Shutdown

LEMMA LoaderInit == BootInit => LoaderInv
BY DEF BootInit, LoaderInv, Stages, Loading, RefusedBeforeOpening

LEMMA LoaderStep ==
    ASSUME LoaderInv, [BootNext]_bootVars
    PROVE  LoaderInv'
<1>1. UNCHANGED docVars
  BY DocumentsKept
<1>2. /\ Tiers' <=> Tiers
      /\ PrefixProblems' <=> PrefixProblems
      /\ ZodiacProblems' <=> ZodiacProblems
      /\ Dangling(disk.personalization)' = Dangling(disk.personalization)
  BY <1>1, SameDocuments
<1> DEFINE Checked == Dangling(disk.personalization) = {} /\ Tiers
                      /\ ~PrefixProblems /\ ~ZodiacProblems
<1>3. RefusedBeforeOpening <=> (http # "none" => Checked)
  BY DEF RefusedBeforeOpening, Tiers
<1>4. RefusedBeforeOpening' <=> (http' # "none" => Checked')
  BY DEF RefusedBeforeOpening, Tiers
<1>5. Checked' <=> Checked
  BY <1>2
<1>6. CASE ParsePersonalization
  <2>1. PersonalizationValid(disk.personalization) => Tiers
    BY DEF PersonalizationValid, Tiers
  <2> QED
    BY <1>2, <1>3, <1>4, <1>5, <1>6, <2>1
       DEF LoaderInv, ParsePersonalization, Proceed, Stages, Loading
<1>7. CASE ParseIntents \/ ParseServices \/ Lint \/ CrossCheck \/ OpenClient
  BY <1>2, <1>3, <1>4, <1>5, <1>7
     DEF LoaderInv, ParseIntents, ParseServices, Lint, CrossCheck, OpenClient,
         Proceed, Stages, Loading
<1>8. CASE CompileLexicon \/ CompileGate \/ RulesCompiled \/ BuildClients
  BY <1>2, <1>3, <1>4, <1>5, <1>8
     DEF LoaderInv, CompileLexicon, CompileGate, RulesCompiled, BuildClients,
         Proceed, Stages, Loading
<1>9. CASE \E x \in Intents : CompileRule(x)
  BY <1>2, <1>3, <1>4, <1>5, <1>9 DEF LoaderInv, CompileRule, Proceed, Stages, Loading
<1>10. CASE ResolveAuto \/ ResolveMock \/ ResolveAsked \/ ResolveFails \/ Shutdown
  <2>1. /\ stage \in {"llm", "serving"}
        /\ stage' \in {"serving", "stopped", "failed"}
        /\ http' = http \/ http' = "closed"
    BY <1>10 DEF ResolveAuto, ResolveMock, ResolveAsked, ResolveFails, Serve, Shutdown
  <2> QED
    BY <1>2, <1>3, <1>4, <1>5, <2>1 DEF LoaderInv, Stages, Loading
<1>11. CASE UNCHANGED bootVars
  BY <1>2, <1>3, <1>4, <1>5, <1>11 DEF LoaderInv, bootVars
<1> QED
  BY <1>6, <1>7, <1>8, <1>9, <1>10, <1>11 DEF BootNext

LEMMA LoaderInvariant == BootSpec => []LoaderInv
<1>1. LoaderInv /\ [BootNext]_bootVars => LoaderInv'
  BY LoaderStep
<1> QED
  BY LoaderInit, <1>1, PTL DEF BootSpec

\* No connection pool is ever opened for a configuration that names an unknown
\* item, puts one in two tiers, or spells out a sign (main.py, step order).
THEOREM RefusalTheorem == BootSpec => []RefusedBeforeOpening
<1>1. LoaderInv => RefusedBeforeOpening
  BY DEF LoaderInv
<1> QED
  BY LoaderInvariant, <1>1, PTL

-----------------------------------------------------------------------------
(* The choice of the model.                                                 *)

ProviderInv ==
    /\ settings.keys \subseteq {Providers[n] : n \in DOMAIN Providers}
    /\ ProviderHonest
    /\ fault # "sdk" \/ stage = "failed"

\* The smallest of some of the indices of Providers is one of them.
LEMMA FirstUsable ==
    ASSUME NEW S \in SUBSET DOMAIN Providers, S # {}
    PROVE  Min(S) \in S /\ \A n \in S : Min(S) <= n
<1>1. S \subseteq {1, 2}
  BY DEF Providers
<1>2. \E m \in S : \A n \in S : m <= n
  <2>1. CASE 1 \in S
    BY <1>1, <2>1
  <2>2. CASE 1 \notin S
    BY <1>1, <2>2
  <2> QED
    BY <2>1, <2>2
<1> QED
  BY <1>2 DEF Min

LEMMA AutoHonest ==
    ASSUME ResolveAuto
    PROVE  /\ stage' = "serving" /\ settings' = settings
           /\ llm' = "mock" => \A n \in DOMAIN Providers : ~Usable(Providers[n])
           /\ llm' # "mock" => Usable(llm')
           /\ llm' = "openai" => ~Usable("anthropic")
<1> DEFINE usable == {n \in DOMAIN Providers : Usable(Providers[n])}
<1>1. /\ stage' = "serving" /\ settings' = settings
      /\ llm' = IF usable # {} THEN Providers[Min(usable)] ELSE "mock"
  BY DEF ResolveAuto, Serve, docVars
<1>2. \A n \in DOMAIN Providers : Providers[n] # "mock"
  BY DEF Providers
<1>3. CASE usable = {}
  BY <1>1, <1>3
<1>4. CASE usable # {}
  <2>1. Min(usable) \in usable /\ \A n \in usable : Min(usable) <= n
    BY <1>4, FirstUsable
  <2>2. llm' = Providers[Min(usable)] /\ Usable(llm') /\ llm' # "mock"
    BY <1>1, <1>2, <1>4, <2>1
  <2>3. DOMAIN Providers = {1, 2} /\ Providers[1] = "anthropic" /\ Providers[2] = "openai"
    BY DEF Providers
  <2>4. llm' = "openai" => Min(usable) = 2 /\ 1 \notin usable
    BY <2>1, <2>2, <2>3
  <2> QED
    BY <1>1, <2>2, <2>3, <2>4
<1> QED
  BY <1>3, <1>4

LEMMA ProviderStep ==
    ASSUME ProviderInv, [BootNext]_bootVars
    PROVE  ProviderInv'
<1>1. settings' = settings
  BY DocumentsKept DEF docVars
<1>2. \A p : Usable(p)' <=> Usable(p)
  BY <1>1 DEF Usable
<1>3. CASE ResolveAuto
  BY <1>1, <1>2, <1>3, AutoHonest
     DEF ResolveAuto, Serve, ProviderInv, ProviderHonest, Serving
<1>4. CASE ResolveMock \/ ResolveAsked \/ ResolveFails
  <2>1. "auto" \notin settings.keys /\ "mock" \notin settings.keys
    BY DEF ProviderInv, Providers
  <2>2. CASE ResolveMock
    BY <1>1, <1>2, <2>1, <2>2
       DEF ResolveMock, Serve, ProviderInv, ProviderHonest, Serving
  <2>3. CASE ResolveAsked
    BY <1>1, <1>2, <2>1, <2>3
       DEF ResolveAsked, Serve, ProviderInv, ProviderHonest, Serving
  <2>4. CASE ResolveFails
    BY <1>1, <1>2, <2>1, <2>4 DEF ResolveFails, ProviderInv, ProviderHonest, Serving
  <2> QED
    BY <1>4, <2>2, <2>3, <2>4
<1>5. CASE \/ ParseIntents \/ ParsePersonalization \/ ParseServices \/ Lint \/ CrossCheck
           \/ OpenClient \/ CompileLexicon \/ CompileGate \/ RulesCompiled \/ BuildClients
           \/ Shutdown \/ \E x \in Intents : CompileRule(x)
  <2>1. /\ stage' # "serving"
        /\ \/ fault' = fault /\ stage # "failed"
           \/ fault' \in {"document", "lexicon", "dangling"}
    BY <1>5
       DEF ParseIntents, ParsePersonalization, ParseServices, Lint, CrossCheck, OpenClient,
           CompileLexicon, CompileGate, RulesCompiled, BuildClients, Shutdown, CompileRule,
           Proceed
  <2> QED
    BY <1>1, <1>2, <2>1 DEF ProviderInv, ProviderHonest, Serving
<1>6. CASE UNCHANGED bootVars
  BY <1>1, <1>2, <1>6 DEF ProviderInv, ProviderHonest, Serving, bootVars
<1> QED
  BY <1>3, <1>4, <1>5, <1>6 DEF BootNext

\* For every choice, set of keys and set of SDKs: "auto" serves the first provider
\* that can be built, an explicit choice never becomes the other provider, and the
\* mock stands in for it exactly when its key is missing (build_llm_client).
THEOREM ProviderTheorem == BootSpec => []ProviderHonest
<1>1. BootInit => ProviderInv
  BY BootAssumption DEF BootInit, ProviderInv, ProviderHonest, Serving
<1>2. ProviderInv /\ [BootNext]_bootVars => ProviderInv'
  BY ProviderStep
<1>3. ProviderInv => ProviderHonest
  BY DEF ProviderInv
<1> QED
  BY <1>1, <1>2, <1>3, PTL DEF BootSpec

-----------------------------------------------------------------------------
(* The compiled rules.                                                      *)

Rules == disk.personalization.rules

Weight(weights, k, x) == Lookup(Lookup(weights, k, <<>>), x, 0)

WrittenWeight(k, x) ==
    CASE k \in Rules[x].primary   -> PrimaryWeight
      [] k \in Rules[x].secondary -> SecondaryWeight
      [] OTHER                    -> 0

Merged == DOMAIN Rules \ rulesLeft

\* Once the rules are being compiled, the tables say what the merged rules say.
RulesInv ==
    /\ stage \in Loading \cup {"lexicon", "gate"} => item_weights = <<>> /\ exclusions = <<>>
    /\ stage \in {"rules", "clients", "llm", "serving"} =>
          /\ rulesLeft \subseteq DOMAIN Rules
          /\ \A k, x : Weight(item_weights, k, x) =
                           IF x \in Merged THEN WrittenWeight(k, x) ELSE 0
          /\ \A k, x : k \in Lookup(exclusions, x, {}) <=>
                           x \in Merged /\ k \in Rules[x].exclude
    /\ stage \in {"clients", "llm", "serving"} => rulesLeft = {}

LEMMA PutLookup ==
    ASSUME NEW f, NEW k, NEW v, NEW j, NEW d
    PROVE  Lookup(Put(f, k, v), j, d) = IF j = k THEN v ELSE Lookup(f, j, d)
BY DEF Lookup, Put

\* Merging a tier changes the weights of its keys under its intent only.
LEMMA MergeWeight ==
    ASSUME NEW f, NEW keys, NEW x, NEW w, NEW k, NEW y
    PROVE  Weight(Merge(f, keys, x, w), k, y) =
               IF k \in keys /\ y = x THEN w ELSE Weight(f, k, y)
<1>1. CASE k \in keys
  <2>1. Lookup(Merge(f, keys, x, w), k, <<>>) = Put(Lookup(f, k, <<>>), x, w)
    BY <1>1 DEF Lookup, Merge
  <2> QED
    BY <1>1, <2>1, PutLookup DEF Weight
<1>2. CASE k \notin keys
  <2>1. Lookup(Merge(f, keys, x, w), k, <<>>) = Lookup(f, k, <<>>)
    BY <1>2 DEF Lookup, Merge
  <2> QED
    BY <1>2, <2>1 DEF Weight
<1> QED
  BY <1>1, <1>2

LEMMA EmptyTables ==
    ASSUME NEW k, NEW x
    PROVE  Weight(<<>>, k, x) = 0 /\ k \notin Lookup(<<>>, x, {})
BY DEF Weight, Lookup

\* A round of the loop adds what one rule says, whatever was merged before it.
LEMMA RuleMerged ==
    ASSUME RulesInv, Tiers, NEW x \in Intents, CompileRule(x), stage' = "rules"
    PROVE  RulesInv'
<1>1. /\ stage = "rules" /\ x \in rulesLeft /\ x \in DOMAIN Rules
      /\ rulesLeft \subseteq DOMAIN Rules /\ Rules' = Rules
      /\ rulesLeft' = rulesLeft \ {x}
  BY DEF CompileRule, RulesInv, docVars, Rules
<1>2. /\ item_weights' = Merge(Merge(item_weights, Rules[x].primary, x, PrimaryWeight),
                               Rules[x].secondary, x, SecondaryWeight)
      /\ exclusions' = IF Rules[x].exclude = {} THEN exclusions
                       ELSE Put(exclusions, x, Rules[x].exclude)
  BY DEF CompileRule, Rules
<1>3. Merged' = Merged \cup {x} /\ x \notin Merged
  BY <1>1 DEF Merged
<1>4. Rules[x].primary \cap Rules[x].secondary = {}
  BY <1>1 DEF Tiers, NoItemInTwoPlaces, Rules
<1>5. ASSUME NEW k, NEW y
      PROVE  Weight(item_weights', k, y) =
                 IF y \in Merged' THEN WrittenWeight(k, y)' ELSE 0
  <2>1. Weight(item_weights', k, y) =
            IF k \in Rules[x].secondary /\ y = x THEN SecondaryWeight
            ELSE IF k \in Rules[x].primary /\ y = x THEN PrimaryWeight
            ELSE Weight(item_weights, k, y)
    BY <1>2, MergeWeight
  <2>2. Weight(item_weights, k, y) = IF y \in Merged THEN WrittenWeight(k, y) ELSE 0
    BY <1>1 DEF RulesInv
  <2>3. WrittenWeight(k, y)' = WrittenWeight(k, y)
    BY <1>1 DEF WrittenWeight
  <2>4. CASE y = x
    BY <1>3, <1>4, <2>1, <2>2, <2>3, <2>4 DEF WrittenWeight
  <2>5. CASE y # x
    BY <1>3, <2>1, <2>2, <2>3, <2>5
  <2> QED
    BY <2>4, <2>5
<1>6. ASSUME NEW k, NEW y
      PROVE  k \in Lookup(exclusions', y, {}) <=> y \in Merged' /\ k \in (Rules[y].exclude)'
  <2>1. k \in Lookup(exclusions, y, {}) <=> y \in Merged /\ k \in Rules[y].exclude
    BY <1>1 DEF RulesInv
  <2>2. CASE Rules[x].exclude = {}
    BY <1>1, <1>2, <1>3, <2>1, <2>2
  <2>3. CASE Rules[x].exclude # {}
    <3>1. Lookup(exclusions', y, {}) =
              IF y = x THEN Rules[x].exclude ELSE Lookup(exclusions, y, {})
      BY <1>2, <2>3, PutLookup
    <3> QED
      BY <1>1, <1>3, <2>1, <3>1
  <2> QED
    BY <2>2, <2>3
<1> QED
  BY <1>1, <1>5, <1>6 DEF RulesInv, Loading

LEMMA RulesStep ==
    ASSUME RulesInv, LoaderInv, [BootNext]_bootVars
    PROVE  RulesInv'
<1>1. disk' = disk /\ Rules' = Rules
  BY DocumentsKept DEF docVars, Rules
<1>2. ASSUME UNCHANGED ruleVars,
             \/ stage' \in Loading \cup {"lexicon", "gate"}
                /\ stage \in Loading \cup {"lexicon", "gate"}
             \/ stage' = stage
             \/ stage \in {"clients", "llm", "serving"}
                /\ stage' \in {"llm", "serving", "stopped", "failed"}
             \/ stage' \in {"failed", "stopped"}
      PROVE  RulesInv'
  <2>1. /\ \A k, x : WrittenWeight(k, x)' = WrittenWeight(k, x)
        /\ Merged' = Merged
    BY <1>1, <1>2 DEF WrittenWeight, Merged, ruleVars
  <2>2. item_weights' = item_weights /\ exclusions' = exclusions /\ rulesLeft' = rulesLeft
    BY <1>2 DEF ruleVars
  <2>3. \A k, x : Weight(item_weights, k, x)' = Weight(item_weights, k, x)
    BY <2>2 DEF Weight, Lookup
  <2> QED
    BY <1>1, <1>2, <2>1, <2>2, <2>3 DEF RulesInv, Loading, Lookup
<1>3. CASE ParseIntents \/ ParsePersonalization \/ ParseServices \/ Lint \/ CrossCheck
           \/ OpenClient \/ CompileLexicon
  BY <1>2, <1>3
     DEF ParseIntents, ParsePersonalization, ParseServices, Lint, CrossCheck, OpenClient,
         CompileLexicon, Proceed, Loading
<1>4. CASE CompileGate
  <2>1. /\ stage' \in {"rules", "failed"} /\ rulesLeft' = DOMAIN Rules
        /\ item_weights' = <<>> /\ exclusions' = <<>>
    BY <1>4 DEF CompileGate, Proceed, RulesInv, Rules
  <2>2. Merged' = {}
    BY <1>1, <2>1 DEF Merged
  <2> QED
    BY <1>1, <2>1, <2>2, EmptyTables DEF RulesInv, Loading
<1>5. ASSUME NEW x \in Intents, CompileRule(x) PROVE RulesInv'
  <2>1. stage = "rules" /\ stage' \in {"rules", "failed"}
    BY <1>5 DEF CompileRule, Proceed
  <2>2. Tiers
    BY <2>1 DEF LoaderInv, Stages
  <2>3. CASE stage' = "failed"
    BY <2>3 DEF RulesInv, Loading
  <2> QED
    BY <1>5, <2>1, <2>2, <2>3, RuleMerged
<1>6. CASE RulesCompiled
  <2>1. /\ stage = "rules" /\ stage' \in {"clients", "failed"} /\ rulesLeft = {}
        /\ item_weights' = item_weights /\ exclusions' = exclusions /\ rulesLeft' = rulesLeft
    BY <1>6 DEF RulesCompiled, Proceed, ruleVars
  <2>2. /\ \A k, x : WrittenWeight(k, x)' = WrittenWeight(k, x)
        /\ Merged' = Merged
    BY <1>1, <2>1 DEF WrittenWeight, Merged
  <2>3. \A k, x : Weight(item_weights, k, x)' = Weight(item_weights, k, x)
    BY <2>1 DEF Weight, Lookup
  <2> QED
    BY <1>1, <2>1, <2>2, <2>3 DEF RulesInv, Loading, Lookup
<1>7. CASE BuildClients \/ ResolveAuto \/ ResolveMock \/ ResolveAsked \/ ResolveFails
           \/ Shutdown
  BY <1>2, <1>7
     DEF BuildClients, ResolveAuto, ResolveMock, ResolveAsked, ResolveFails, Serve, Shutdown
<1>8. CASE UNCHANGED bootVars
  BY <1>2, <1>8 DEF bootVars
<1> QED
  BY <1>3, <1>4, <1>5, <1>6, <1>7, <1>8 DEF BootNext

\* The compiled tables of a process that serves are the rules of the document,
\* every tier and exclusion of every intent and nothing else, in whichever order
\* the intents were merged (compile_rules).
THEOREM RulesTheorem == BootSpec => []RulesAsWritten
<1>1. BootInit => RulesInv
  BY DEF BootInit, RulesInv, Loading
<1>2. RulesInv /\ LoaderInv /\ [BootNext]_bootVars => RulesInv'
  BY RulesStep
<1>3. RulesInv => RulesAsWritten
  <2> SUFFICES ASSUME RulesInv, Serving PROVE RulesAsWritten
    BY DEF RulesAsWritten
  <2>1. Merged = DOMAIN Rules
    BY DEF RulesInv, Serving, Merged
  <2> QED
    BY <2>1 DEF RulesInv, RulesAsWritten, Serving, Weight, WrittenWeight, Rules
<1> QED
  BY <1>1, <1>2, <1>3, LoaderInvariant, PTL DEF BootSpec

-----------------------------------------------------------------------------
(* The name of a sign.                                                      *)

\* The stages after the gate was compiled, in a boot that has not failed.
Gated == {"rules", "clients", "llm", "serving"}

GateInv == stage \in Gated => \A key \in gate : ~Offends(key)

LEMMA GateStep ==
    ASSUME GateInv, [BootNext]_bootVars
    PROVE  GateInv'
<1>1. CASE CompileGate
  <2> SUFFICES ASSUME stage' = "rules", NEW key \in GateKeys PROVE ~Offends(key)'
    BY <1>1 DEF CompileGate, Proceed, GateInv, Gated
  <2>1. ~Offends(key) /\ terms' = terms /\ phrases' = phrases
    BY <1>1 DEF CompileGate, Proceed
  <2> QED
    BY <2>1 DEF Offends
<1>2. ASSUME lexVars' = lexVars, stage' \in Gated => stage \in Gated
      PROVE  GateInv'
  BY <1>2 DEF GateInv, Offends, lexVars
<1>3. CASE CompileLexicon
  BY <1>3 DEF CompileLexicon, Proceed, GateInv, Gated
<1>4. CASE \/ ParseIntents \/ ParsePersonalization \/ ParseServices \/ Lint \/ CrossCheck
           \/ OpenClient \/ RulesCompiled \/ BuildClients
           \/ \E x \in Intents : CompileRule(x)
  BY <1>2, <1>4
     DEF ParseIntents, ParsePersonalization, ParseServices, Lint, CrossCheck, OpenClient,
         RulesCompiled, BuildClients, CompileRule, Proceed, Gated
<1>5. CASE ResolveAuto \/ ResolveMock \/ ResolveAsked \/ ResolveFails \/ Shutdown
  <2>1. lexVars' = lexVars /\ stage \in Gated
    BY <1>5 DEF ResolveAuto, ResolveMock, ResolveAsked, ResolveFails, Serve, Shutdown, Gated
  <2> QED
    BY <1>2, <2>1
<1>6. CASE UNCHANGED bootVars
  BY <1>2, <1>6 DEF bootVars
<1> QED
  BY <1>1, <1>3, <1>4, <1>5, <1>6 DEF BootNext

\* A token is looked up by its literal term or by the stems that cover it: what the
\* constructor looks for is all that a lookup among the terms can find.
LEMMA UnseenTerms ==
    ASSUME NEW key, ~Offends(key)
    PROVE  TermsFor(key) = {}
<1> SUFFICES ASSUME Len(key) = 1 PROVE TermKeysFor(terms, key[1]) = {}
  BY DEF TermsFor
<1>1. \A k \in KeysOf(terms) : ~PatternMatches(k[1], key[1])
  BY DEF Offends
<1>2. PatternMatches(<<Word(key[1])>>[1], key[1])
  BY DEF PatternMatches, Word
<1>3. <<Word(key[1])>> \notin KeysOf(terms)
  BY <1>1, <1>2
<1> QED
  BY <1>1, <1>3 DEF TermKeysFor

\* Among the phrases it looks for the literal key only: one that matches the sign
\* without a stem is that key.
LEMMA UnseenPhrases ==
    ASSUME NEW key \in Seq(DOMAIN Tokens), ~Offends(key),
           NEW k \in PhrasesFor(key), k \in Seq(Patterns)
    PROVE  \E n \in DOMAIN k : k[n].stem
<1> SUFFICES ASSUME \A n \in DOMAIN k : ~k[n].stem
             PROVE  k = Literally(key)
  BY DEF Offends, PhrasesFor, PhraseKeysFor
<1>1. /\ Len(k) = Len(key)
      /\ \A n \in DOMAIN k : PatternMatches(k[n], key[n])
  BY DEF PhrasesFor, PhraseKeysFor, KeyMatches
<1>2. DOMAIN k = 1 .. Len(key) /\ DOMAIN key = 1 .. Len(key)
  BY <1>1
<1>3. ASSUME NEW n \in DOMAIN k PROVE k[n] = Word(key[n])
  <2>1. k[n] \in Patterns
    OBVIOUS
  <2>2. k[n].stem = FALSE
    BY <2>1 DEF Patterns
  <2>3. k[n].text = key[n]
    BY <1>1, <2>2 DEF PatternMatches
  <2> QED
    BY <2>1, <2>2, <2>3 DEF Patterns, Word
<1>4. k = [n \in DOMAIN k |-> k[n]]
  OBVIOUS
<1> QED
  BY <1>2, <1>3, <1>4 DEF Literally

\* The compiled table of a finite document has the keys of its entries only.
LEMMA CompiledKeys ==
    ASSUME NEW label, IsFiniteSet(disk.intents.entries)
    PROVE  KeysOf(Compiled(label)) \subseteq {KeyOfMatch(e.match) : e \in disk.intents.entries}
<1> DEFINE D == {d \in disk.intents.entries : d.label = label}
           row(e) == [intent |-> e.intent, key |-> KeyOfMatch(e.match), weight |-> e.weight]
           R == {row(e) : e \in D}
           f == [e \in D |-> row(e)]
<1>1. IsFiniteSet(D)
  BY FS_Subset
<1>2. f \in Surjection(D, R)
  BY DEF Surjection
<1>3. IsFiniteSet(R)
  BY <1>1, <1>2, FS_Surjection
<1>4. \E g \in [1 .. Cardinality(R) -> R] : IsInjective(g)
  <2>1. ExistsBijection(1 .. Cardinality(R), R)
    BY <1>3, FS_CardinalityType
  <2> QED
    BY <2>1 DEF ExistsBijection, Bijection, Injection, IsInjective
<1>5. SetToSeq(R) \in [1 .. Cardinality(R) -> R]
  BY <1>4 DEF SetToSeq
<1>6. Compiled(label) = SetToSeq(R)
  BY DEF Compiled
<1> HIDE DEF R
<1>7. KeysOf(Compiled(label)) \subseteq {r.key : r \in R}
  BY <1>5, <1>6 DEF KeysOf
<1>8. {r.key : r \in R} \subseteq {KeyOfMatch(e.match) : e \in disk.intents.entries}
  BY DEF R
<1> QED
  BY <1>7, <1>8

\* What the document holds, and what was compiled from it.
LexiconInv ==
    /\ disk \in {p.disk : p \in Processes}
    /\ stage \in {"gate"} \cup Gated => KeysOf(phrases) \subseteq Seq(Patterns)
    /\ stage \in Gated => gate \subseteq Seq(DOMAIN Tokens)
    /\ stage \in Stages \ {"intents", "failed"} => disk.intents # Unreadable

LEMMA LexiconStep ==
    ASSUME LexiconInv, [BootNext]_bootVars
    PROVE  LexiconInv'
<1>1. disk' = disk
  BY DocumentsKept DEF docVars
<1>2. CASE CompileLexicon
  <2>1. disk.intents # Unreadable /\ phrases' = Compiled("phrases")
    BY <1>2 DEF CompileLexicon, LexiconInv, Stages
  <2>2. /\ IsFiniteSet(disk.intents.entries)
        /\ \A e \in disk.intents.entries : KeyOfMatch(e.match) \in Seq(Patterns)
    BY <2>1, DocumentAssumption DEF LexiconInv
  <2>3. KeysOf(phrases') \subseteq Seq(Patterns)
    BY <2>1, <2>2, CompiledKeys
  <2>4. stage' \in {"gate", "failed"} /\ KeysOf(phrases)' = KeysOf(phrases')
    BY <1>2 DEF CompileLexicon, Proceed, KeysOf
  <2> QED
    BY <1>1, <2>1, <2>3, <2>4 DEF LexiconInv, Gated, Stages
<1>3. CASE CompileGate
  <2>1. /\ stage = "gate" /\ stage' \in {"rules", "failed"}
        /\ gate' = GateKeys /\ phrases' = phrases
    BY <1>3 DEF CompileGate, Proceed
  <2>2. disk.intents # Unreadable /\ disk.intents.zodiac \subseteq DOMAIN Tokens
    BY <2>1, DocumentAssumption DEF LexiconInv, Stages
  <2>3. GateKeys \subseteq Seq(DOMAIN Tokens)
    BY <2>2 DEF GateKeys
  <2> QED
    BY <1>1, <2>1, <2>2, <2>3 DEF LexiconInv, Gated, Stages, KeysOf
<1>4. ASSUME lexVars' = lexVars,
             stage' \in {"gate"} \cup Gated => stage \in {"gate"} \cup Gated,
             stage' \in Gated => stage \in Gated,
             stage' \in Stages \ {"intents", "failed"} =>
                 stage \in Stages \ {"intents", "failed"} \/ disk.intents # Unreadable
      PROVE  LexiconInv'
  BY <1>1, <1>4 DEF LexiconInv, lexVars, KeysOf
<1>5. CASE \/ ParseIntents \/ ParsePersonalization \/ ParseServices \/ Lint \/ CrossCheck
           \/ OpenClient \/ RulesCompiled \/ BuildClients
           \/ \E x \in Intents : CompileRule(x)
  BY <1>4, <1>5
     DEF ParseIntents, ParsePersonalization, ParseServices, Lint, CrossCheck, OpenClient,
         RulesCompiled, BuildClients, CompileRule, Proceed, Gated, Stages
<1>6. CASE ResolveAuto \/ ResolveMock \/ ResolveAsked \/ ResolveFails \/ Shutdown
  <2>1. lexVars' = lexVars /\ stage \in {"llm", "serving"}
    BY <1>6 DEF ResolveAuto, ResolveMock, ResolveAsked, ResolveFails, Serve, Shutdown
  <2> QED
    BY <1>4, <2>1 DEF Gated, Stages
<1>7. CASE UNCHANGED bootVars
  BY <1>4, <1>7 DEF bootVars
<1> QED
  BY <1>2, <1>3, <1>5, <1>6, <1>7 DEF BootNext

\* For every document, tokenizer and zodiac: in a process that serves no term is
\* evidence for a sign, and a phrase that is has a stem.  The constructor refuses
\* every other entry that the linter's comparison of spellings lets through.
THEOREM SignsTheorem == BootSpec => []SignsLeakByStemOnly
<1>1. BootInit => GateInv /\ LexiconInv
  BY DEF BootInit, GateInv, LexiconInv, Gated, Stages
<1>2. GateInv /\ LexiconInv /\ [BootNext]_bootVars => GateInv' /\ LexiconInv'
  BY GateStep, LexiconStep
<1>3. GateInv /\ LexiconInv => SignsLeakByStemOnly
  <2> SUFFICES ASSUME GateInv, LexiconInv, Serving, NEW key \in gate
               PROVE  /\ TermsFor(key) = {}
                      /\ \A k \in PhrasesFor(key) : \E n \in DOMAIN k : k[n].stem
    BY DEF SignsLeakByStemOnly
  <2>1. ~Offends(key) /\ key \in Seq(DOMAIN Tokens) /\ KeysOf(phrases) \subseteq Seq(Patterns)
    BY DEF GateInv, LexiconInv, Serving, Gated
  <2>2. \A k \in PhrasesFor(key) : k \in Seq(Patterns)
    BY <2>1 DEF PhrasesFor, PhraseKeysFor
  <2> QED
    BY <2>1, <2>2, UnseenTerms, UnseenPhrases
<1> QED
  BY <1>1, <1>2, <1>3, PTL DEF BootSpec

-----------------------------------------------------------------------------
(* What a process that serves has built.                                    *)

Faults == {"document", "lexicon", "dangling", "sdk"}
Models == {"mock"} \cup {Providers[n] : n \in DOMAIN Providers}

\* What each stage from the opening of the pool on has built so far.
BuiltInv ==
    /\ stage \in Stages
    /\ http \in {"none", "open", "closed"}
    /\ stage \in {"lexicon", "gate"} \cup Gated => http = "open"
    /\ stage = "failed" <=> fault \in Faults
    /\ stage \in Gated => DOMAIN item_weights \subseteq KnownItems
    /\ stage \in {"llm", "serving"} => DOMAIN policies = CLIENT_TYPES
    /\ Serving => llm \in Models

LEMMA BuiltImplies == BuiltInv => BootTypeOK
BY DEF BuiltInv, BootTypeOK, Stages, Faults, Models, Gated, Serving

LEMMA MergeDomain ==
    ASSUME NEW f, NEW keys, NEW x, NEW w
    PROVE  DOMAIN Merge(f, keys, x, w) = DOMAIN f \cup keys
BY DEF Merge

LEMMA BuiltStep ==
    ASSUME BuiltInv, RulesInv, settings.keys \subseteq Models, [BootNext]_bootVars
    PROVE  BuiltInv'
<1>1. CASE ParseIntents \/ ParsePersonalization \/ ParseServices \/ Lint \/ CrossCheck
           \/ OpenClient \/ CompileLexicon
  BY <1>1
     DEF ParseIntents, ParsePersonalization, ParseServices, Lint, CrossCheck, OpenClient,
         CompileLexicon, Proceed, BuiltInv, Stages, Faults, Gated, Serving
<1>2. CASE CompileGate
  <2>1. /\ item_weights' = <<>> /\ stage' \in {"rules", "failed"}
        /\ stage' = "failed" <=> fault' \in Faults
        /\ http' = "open"
    BY <1>2 DEF CompileGate, Proceed, RulesInv, BuiltInv, Faults
  <2>2. DOMAIN item_weights' = {}
    BY <2>1
  <2> QED
    BY <2>1, <2>2 DEF BuiltInv, Stages, Gated, Serving
<1>3. ASSUME NEW x \in Intents, CompileRule(x) PROVE BuiltInv'
  <2>1. /\ stage' \in {"rules", "failed"}
        /\ stage' = "failed" <=> fault' \in Faults
        /\ http' = "open"
    BY <1>3 DEF CompileRule, Proceed, BuiltInv, Faults, Gated
  <2>2. CASE stage' = "rules"
    <3>1. /\ DOMAIN item_weights \subseteq KnownItems
          /\ NamedBy(Rules[x]) \subseteq KnownItems
          /\ item_weights' = Merge(Merge(item_weights, Rules[x].primary, x, PrimaryWeight),
                                   Rules[x].secondary, x, SecondaryWeight)
      BY <1>3, <2>2 DEF CompileRule, Proceed, BuiltInv, Gated, Rules
    <3>2. DOMAIN item_weights' = (DOMAIN item_weights \cup Rules[x].primary)
                                     \cup Rules[x].secondary
      <4> DEFINE once == Merge(item_weights, Rules[x].primary, x, PrimaryWeight)
      <4>1. DOMAIN once = DOMAIN item_weights \cup Rules[x].primary
        BY MergeDomain
      <4>2. item_weights' = Merge(once, Rules[x].secondary, x, SecondaryWeight)
        BY <3>1
      <4> HIDE DEF once
      <4>3. DOMAIN item_weights' = DOMAIN once \cup Rules[x].secondary
        BY <4>2, MergeDomain
      <4> QED
        BY <4>1, <4>3
    <3>3. DOMAIN item_weights' \subseteq KnownItems
      BY <3>1, <3>2 DEF NamedBy
    <3> QED
      BY <2>1, <2>2, <3>3 DEF BuiltInv, Stages, Gated, Serving
  <2>3. CASE stage' = "failed"
    BY <2>1, <2>3 DEF BuiltInv, Stages, Gated, Serving
  <2> QED
    BY <2>1, <2>2, <2>3
<1>4. CASE RulesCompiled
  BY <1>4 DEF RulesCompiled, Proceed, ruleVars, BuiltInv, Stages, Faults, Gated, Serving
<1>5. CASE BuildClients
  BY <1>5 DEF BuildClients, ruleVars, BuiltInv, Stages, Faults, Gated, Serving
<1>6. ASSUME NEW m \in Models, stage = "llm", Serve(m) PROVE BuiltInv'
  BY <1>6 DEF Serve, ruleVars, BuiltInv, Stages, Faults, Gated, Serving
<1>7. CASE ResolveAuto
  <2> DEFINE usable == {n \in DOMAIN Providers : Usable(Providers[n])}
             m      == IF usable # {} THEN Providers[Min(usable)] ELSE "mock"
  <2>1. stage = "llm" /\ Serve(m)
    BY <1>7 DEF ResolveAuto
  <2>2. m \in Models
    BY FirstUsable DEF Models
  <2> QED
    BY <1>6, <2>1, <2>2
<1>8. CASE ResolveMock
  BY <1>6, <1>8 DEF ResolveMock, Models
<1>9. CASE ResolveAsked
  BY <1>6, <1>9 DEF ResolveAsked
<1>10. CASE ResolveFails
  BY <1>10 DEF ResolveFails, ruleVars, BuiltInv, Stages, Faults, Gated, Serving
<1>11. CASE Shutdown
  BY <1>11 DEF Shutdown, ruleVars, BuiltInv, Stages, Faults, Gated, Serving
<1>12. CASE UNCHANGED bootVars
  BY <1>12 DEF bootVars, ruleVars, BuiltInv, Serving
<1> QED
  BY <1>1, <1>2, <1>3, <1>4, <1>5, <1>7, <1>8, <1>9, <1>10, <1>11, <1>12 DEF BootNext

\* A boot fails with a reason and in no other way, and a process that serves has
\* an open pool, a client for every service, weights for known items only and a
\* model that exists.
THEOREM BootTypeTheorem == BootSpec => []BootTypeOK
<1> DEFINE Together == BuiltInv /\ RulesInv /\ LoaderInv /\ ProviderInv
<1>1. BootInit => Together
  <2> SUFFICES ASSUME BootInit PROVE Together
    OBVIOUS
  <2>1. BuiltInv
    BY BootAssumption DEF BootInit, BuiltInv, Stages, Faults, Gated, Serving
  <2>2. RulesInv
    BY DEF BootInit, RulesInv, Loading
  <2>3. ProviderInv
    BY BootAssumption DEF BootInit, ProviderInv, ProviderHonest, Serving
  <2> QED
    BY <2>1, <2>2, <2>3, LoaderInit
<1>2. Together /\ [BootNext]_bootVars => Together'
  <2> SUFFICES ASSUME Together, [BootNext]_bootVars PROVE Together'
    OBVIOUS
  <2>1. settings.keys \subseteq Models
    BY DEF ProviderInv, Models
  <2> QED
    BY <2>1, BuiltStep, RulesStep, LoaderStep, ProviderStep
<1>3. Together => BootTypeOK
  BY BuiltImplies
<1> QED
  BY <1>1, <1>2, <1>3, PTL DEF BootSpec
=============================================================================
