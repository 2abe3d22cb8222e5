-------------------------------- MODULE Boot --------------------------------
(***************************************************************************)
(* The life of the process: lifespan of app/main.py.  The three config     *)
(* documents are read, validated and linted (app/config_loader.py,         *)
(* app/config_schema.py), the lexicon and the rules are compiled           *)
(* (app/classifier/rules.py, app/engine/compiler.py), a client is built    *)
(* per upstream and one language model is chosen (app/llm/factory.py); the *)
(* first problem ends the process.                                         *)
(*                                                                         *)
(* A word of a config entry is [text, stem]; what the tokenizer makes of   *)
(* its text is Tokens[text], and "canc*" is the stem "canc".               *)
(***************************************************************************)
EXTENDS Lexicon, FiniteSets, SequencesExt

CONSTANTS
    Processes,   \* what this instance may be started with: [disk, settings]
    Tokens,      \* tokenize_terms: text -> sequence of tokens
    KnownItems,  \* known_keys() of the registry
    CLIENT_TYPES, \* the upstream services, by name
    DefaultPolicy, \* ServicePolicy()
    PrimaryWeight, SecondaryWeight,
    Unreadable,  \* a document that is missing, not YAML or not a mapping
    None

\* The real providers, in the order of _auto.
Providers == <<"anthropic", "openai">>

ASSUME BootAssumption ==
    /\ \A t \in DOMAIN Tokens : Tokens[t] \in Seq(DOMAIN Tokens)
    /\ \A p \in Processes : p.settings.keys \subseteq {Providers[n] : n \in DOMAIN Providers}
    /\ None \notin {"document", "lexicon", "dangling", "sdk"}

VARIABLES
    disk,      \* the documents: [intents, personalization, services]
    settings,  \* [asked, keys, sdks]
    stage,     \* the step of lifespan that comes next, "serving", "stopped", "failed"
    fault,     \* why the boot failed
    http,      \* the httpx.AsyncClient: "none", "open", "closed"
    terms, phrases, \* the compiled lexicon
    gate,      \* the zodiac keys of the compiled domain gate
    rulesLeft, \* the intents whose rules are not compiled yet
    item_weights, exclusions, \* CompiledRules
    policies,  \* the policy of every client that was built
    llm        \* the client that was built

docVars  == <<disk, settings>>
lexVars  == <<terms, phrases, gate>>
ruleVars == <<rulesLeft, item_weights, exclusions>>
bootVars == <<docVars, stage, fault, http, lexVars, ruleVars, policies, llm>>

BootInit ==
    /\ \E p \in Processes : disk = p.disk /\ settings = p.settings
    /\ stage = "intents" /\ fault = None
    /\ http = "none"
    /\ terms = <<>> /\ phrases = <<>> /\ gate = {}
    /\ rulesLeft = {} /\ item_weights = <<>> /\ exclusions = <<>>
    /\ policies = <<>>
    /\ llm = None

\* A step that raises on a problem, and goes on to the next one otherwise.
Proceed(problem, why, next) ==
    IF problem THEN stage' = "failed" /\ fault' = why
               ELSE stage' = next /\ UNCHANGED fault

-----------------------------------------------------------------------------
(* load_from_source: the documents one after the other, then the linters.   *)

NoItemInTwoPlaces(rules) ==
    \A x \in DOMAIN rules :
        /\ rules[x].primary \cap rules[x].secondary = {}
        /\ (rules[x].primary \cup rules[x].secondary) \cap rules[x].exclude = {}

\* The validators of the schema.  `lexicons' are the intents with a block.
IntentsValid(doc) ==
    General \notin doc.lexicons /\ \A e \in doc.entries : e.weight > 0
PersonalizationValid(doc) ==
    /\ NoItemInTwoPlaces(doc.rules)
    /\ \A k \in DOMAIN doc.modifiers : doc.modifiers[k] \in -doc.cap .. doc.cap
ServicesValid(doc) == \A s \in DOMAIN doc : doc[s].retries >= 0

ParseIntents ==
    /\ stage = "intents"
    /\ Proceed(disk.intents = Unreadable \/ ~IntentsValid(disk.intents),
               "document", "personalization")
    /\ UNCHANGED <<docVars, http, lexVars, ruleVars, policies, llm>>

ParsePersonalization ==
    /\ stage = "personalization"
    /\ Proceed(disk.personalization = Unreadable
                   \/ ~PersonalizationValid(disk.personalization),
               "document", "services")
    /\ UNCHANGED <<docVars, http, lexVars, ruleVars, policies, llm>>

ParseServices ==
    /\ stage = "services"
    /\ Proceed(disk.services = Unreadable \/ ~ServicesValid(disk.services),
               "document", "linting")
    /\ UNCHANGED <<docVars, http, lexVars, ruleVars, policies, llm>>

StartsWith(text, s) == s \in DOMAIN Inflections /\ text \in Inflections[s]

\* str.startswith on two spellings, each without its trailing marker.
SpellingPrefix(a, b) ==
    /\ Len(a) <= Len(b)
    /\ \A n \in 1 .. Len(a) - 1 : a[n] = b[n]
    /\ a[Len(a)].text = b[Len(a)].text \/ StartsWith(b[Len(a)].text, a[Len(a)].text)

Stemless(match) == [match EXCEPT ![Len(match)].stem = FALSE]

\* lint_lexicon_prefixes: two spellings of one intent, one the beginning of the other.
PrefixProblems ==
    \E d, e \in disk.intents.entries :
        /\ d.intent = e.intent /\ d.label = e.label
        /\ Stemless(d.match) # Stemless(e.match)
        /\ SpellingPrefix(Stemless(d.match), Stemless(e.match))

\* lint_zodiac_leakage: a sign spelled out in an entry, or covered by a stem.
ZodiacProblems ==
    \E e \in disk.intents.entries, z \in disk.intents.zodiac : \E n \in DOMAIN e.match :
        IF e.match[n].stem THEN StartsWith(z, e.match[n].text) ELSE e.match[n].text = z

Lint ==
    /\ stage = "linting"
    /\ Proceed(PrefixProblems \/ ZodiacProblems, "lexicon", "crosscheck")
    /\ UNCHANGED <<docVars, http, lexVars, ruleVars, policies, llm>>

\* The keys a rule names, in any tier.
NamedBy(rule) == rule.primary \cup rule.secondary \cup rule.exclude
Dangling(doc) ==
    ((UNION {NamedBy(doc.rules[x]) : x \in DOMAIN doc.rules}) \cup DOMAIN doc.modifiers)
        \ KnownItems

\* Mutant of CrossCheck: the modifiers are not looked at.
CrossCheckRules ==
    /\ stage = "crosscheck"
    /\ Proceed(\E x \in DOMAIN disk.personalization.rules :
                   ~(NamedBy(disk.personalization.rules[x]) \subseteq KnownItems),
               "dangling", "opening")
    /\ UNCHANGED <<docVars, http, lexVars, ruleVars, policies, llm>>

\* validate_against_registry.
CrossCheck ==
    /\ stage = "crosscheck"
    /\ Proceed(Dangling(disk.personalization) # {}, "dangling", "opening")
    /\ UNCHANGED <<docVars, http, lexVars, ruleVars, policies, llm>>

-----------------------------------------------------------------------------
(* The connection pool is open from here on.  RulesClassifier.              *)

OpenClient ==
    /\ stage = "opening"
    /\ http' = "open"
    /\ stage' = "lexicon"
    /\ UNCHANGED <<docVars, fault, lexVars, ruleVars, policies, llm>>

\* compile_phrase_key of one word: its marker goes to its last token.
KeyOfWord(r) ==
    LET t == Tokens[r.text]
    IN  [n \in DOMAIN t |-> IF r.stem /\ n = Len(t) THEN Stem(t[n]) ELSE Word(t[n])]
KeyOfMatch(match) == FlattenSeq([n \in DOMAIN match |-> KeyOfWord(match[n])])

\* Documents are finite and their texts are ones the tokenizer knows, so that
\* compile_phrase_key makes a sequence of patterns of a match.
Patterns == [stem : BOOLEAN, text : DOMAIN Tokens]
ASSUME DocumentAssumption ==
    \A p \in Processes : p.disk.intents # Unreadable =>
        /\ IsFiniteSet(p.disk.intents.entries)
        /\ p.disk.intents.zodiac \subseteq DOMAIN Tokens
        /\ \A e \in p.disk.intents.entries : KeyOfMatch(e.match) \in Seq(Patterns)

\* Entries of one label as the index knows them; no lookup depends on the order
\* in which equal spellings were merged.
Compiled(label) ==
    SetToSeq({[intent |-> e.intent, key |-> KeyOfMatch(e.match), weight |-> e.weight] :
                  e \in {d \in disk.intents.entries : d.label = label}})

\* A phrase of no token at all, or a term that is not exactly one.
Misshapen ==
    \E e \in disk.intents.entries :
        LET n == Len(KeyOfMatch(e.match))
        IN  IF e.label = "phrases" THEN n = 0 ELSE n # 1

CompileLexicon ==
    /\ stage = "lexicon"
    /\ Proceed(Misshapen, "lexicon", "gate")
    /\ terms' = Compiled("terms")
    /\ phrases' = Compiled("phrases")
    /\ UNCHANGED <<docVars, http, gate, ruleVars, policies, llm>>

Literally(key) == [n \in DOMAIN key |-> Word(key[n])]

\* A sign among the compiled keys: a literal phrase, a term, or behind a stem.
Offends(key) ==
    \/ Literally(key) \in KeysOf(phrases)
    \/ Len(key) = 1 /\ \E k \in KeysOf(terms) : PatternMatches(k[1], key[1])

GateKeys == {Tokens[z] : z \in disk.intents.zodiac}

\* A time-scope pattern or an entry of the gate that normalizes to nothing.
Wordless ==
    LET doc == disk.intents
    IN  \E text \in doc.zodiac \cup doc.markers \cup doc.horizons : Tokens[text] = <<>>

\* Mutant of CompileGate: the linter is trusted to have seen every sign.
CompileGateTrusting ==
    /\ stage = "gate"
    /\ Proceed(Wordless, "lexicon", "rules")
    /\ gate' = GateKeys
    /\ rulesLeft' = DOMAIN disk.personalization.rules
    /\ UNCHANGED <<docVars, http, terms, phrases, item_weights, exclusions, policies, llm>>

\* compile_time_scope, compile_domain_gate and _reject_zodiac_in_lexicons.
CompileGate ==
    /\ stage = "gate"
    /\ Proceed(Wordless \/ \E key \in GateKeys : Offends(key), "lexicon", "rules")
    /\ gate' = GateKeys
    /\ rulesLeft' = DOMAIN disk.personalization.rules
    /\ UNCHANGED <<docVars, http, terms, phrases, item_weights, exclusions, policies, llm>>

-----------------------------------------------------------------------------
(* compile_rules, build_clients.                                            *)

\* A table with one more entry, and what it says, with a default.
Put(f, k, v)     == [j \in DOMAIN f \cup {k} |-> IF j = k THEN v ELSE f[j]]
Lookup(f, k, default) == IF k \in DOMAIN f THEN f[k] ELSE default

\* Mutant of Merge: assignment instead of setdefault.
MergeOverwriting(weights, keys, x, w) ==
    [k \in DOMAIN weights \cup keys |-> IF k \in keys THEN Put(<<>>, x, w) ELSE weights[k]]

\* setdefault(key, {})[intent] = weight, for every key of a tier.
Merge(weights, keys, x, w) ==
    [k \in DOMAIN weights \cup keys |->
        IF k \in keys THEN Put(Lookup(weights, k, <<>>), x, w) ELSE weights[k]]

\* One round of the loop over the rules.
CompileRule(x) ==
    /\ stage = "rules" /\ x \in rulesLeft
    /\ LET rule == disk.personalization.rules[x]
       IN  /\ Proceed(~(NamedBy(rule) \subseteq KnownItems), "dangling", stage)
           /\ item_weights' = Merge(Merge(item_weights, rule.primary, x, PrimaryWeight),
                                    rule.secondary, x, SecondaryWeight)
           /\ exclusions' = IF rule.exclude = {} THEN exclusions
                            ELSE Put(exclusions, x, rule.exclude)
    /\ rulesLeft' = rulesLeft \ {x}
    /\ UNCHANGED <<docVars, http, lexVars, policies, llm>>

RulesCompiled ==
    /\ stage = "rules" /\ rulesLeft = {}
    /\ Proceed(~(DOMAIN disk.personalization.modifiers \subseteq KnownItems),
               "dangling", "clients")
    /\ UNCHANGED <<docVars, http, lexVars, ruleVars, policies, llm>>

\* Mutant of BuildClients: a service without a policy is dropped.
BuildClientsConfigured ==
    /\ stage = "clients"
    /\ policies' = [s \in CLIENT_TYPES \cap DOMAIN disk.services |-> disk.services[s]]
    /\ stage' = "llm"
    /\ UNCHANGED <<docVars, fault, http, lexVars, ruleVars, llm>>

\* A service without a policy gets the default one and is not dropped.
BuildClients ==
    /\ stage = "clients"
    /\ policies' = [s \in CLIENT_TYPES |-> Lookup(disk.services, s, DefaultPolicy)]
    /\ stage' = "llm"
    /\ UNCHANGED <<docVars, fault, http, lexVars, ruleVars, llm>>

-----------------------------------------------------------------------------
(* build_llm_client.                                                        *)

Usable(p) == p \in settings.keys /\ p \in settings.sdks

Serve(name) ==
    /\ llm' = name
    /\ stage' = "serving"
    /\ UNCHANGED <<docVars, fault, http, lexVars, ruleVars, policies>>

\* Mutant of ResolveAuto: a provider whose SDK is missing ends the search.
ResolveAutoFirstKey ==
    /\ stage = "llm" /\ settings.asked = "auto"
    /\ LET keyed == {n \in DOMAIN Providers : Providers[n] \in settings.keys}
       IN  Serve(IF keyed # {} /\ Usable(Providers[Min(keyed)])
                 THEN Providers[Min(keyed)] ELSE "mock")

\* _auto: the first provider with a key and an SDK, else the mock.
ResolveAuto ==
    /\ stage = "llm" /\ settings.asked = "auto"
    /\ LET usable == {n \in DOMAIN Providers : Usable(Providers[n])}
       IN  Serve(IF usable # {} THEN Providers[Min(usable)] ELSE "mock")

\* The mock was asked for, or the provider that was has no key.
ResolveMock ==
    /\ stage = "llm" /\ settings.asked # "auto"
    /\ settings.asked = "mock" \/ settings.asked \notin settings.keys
    /\ Serve("mock")

ResolveAsked ==
    /\ stage = "llm" /\ settings.asked \in settings.keys
    /\ Usable(settings.asked)
    /\ Serve(settings.asked)

\* LLMError leaves build_llm_client: an explicit choice is not second-guessed.
ResolveFails ==
    /\ stage = "llm" /\ settings.asked \in settings.keys
    /\ ~Usable(settings.asked)
    /\ stage' = "failed" /\ fault' = "sdk"
    /\ UNCHANGED <<docVars, http, lexVars, ruleVars, policies, llm>>

\* The finally block of lifespan, which only a boot that succeeded reaches.
Shutdown ==
    /\ stage = "serving"
    /\ stage' = "stopped"
    /\ http' = "closed"
    /\ UNCHANGED <<docVars, fault, lexVars, ruleVars, policies, llm>>

BootNext ==
    \/ ParseIntents \/ ParsePersonalization \/ ParseServices
    \/ Lint \/ CrossCheck \/ OpenClient
    \/ CompileLexicon \/ CompileGate
    \/ \E x \in Intents : CompileRule(x)
    \/ RulesCompiled \/ BuildClients
    \/ ResolveAuto \/ ResolveMock \/ ResolveAsked \/ ResolveFails
    \/ Shutdown

BootSpec == BootInit /\ [][BootNext]_bootVars

-----------------------------------------------------------------------------
(* Properties.                                                              *)

Serving == stage = "serving"

\* The type invariant: what a process that serves has built, and that a boot
\* fails with a reason.
BootTypeOK ==
    /\ stage \in {"intents", "personalization", "services", "linting", "crosscheck",
                  "opening", "lexicon", "gate", "rules", "clients", "llm",
                  "serving", "stopped", "failed"}
    /\ http \in {"none", "open", "closed"}
    /\ stage = "failed" <=> fault \in {"document", "lexicon", "dangling", "sdk"}
    /\ Serving => /\ http = "open"
                  /\ DOMAIN policies = CLIENT_TYPES
                  /\ DOMAIN item_weights \subseteq KnownItems
                  /\ llm \in {"mock"} \cup {Providers[n] : n \in DOMAIN Providers}

\* What the classifier's own lookups find for the tokens of a sign.
PhrasesFor(key) == PhraseKeysFor(phrases, key)
TermsFor(key)   == IF Len(key) = 1 THEN TermKeysFor(terms, key[1]) ELSE {}

\* rules.py: "a sign name must only ever be domain evidence"; config_loader.py: the
\* check "covers stems and individual phrase tokens too".  In a process that serves
\* no lookup then finds an entry for a sign.  A phrase like "cancer's*" gets through
\* both checks: its spelling begins no sign, and its key is not literal.
SignsScoreNothing ==
    Serving => \A key \in gate : PhrasesFor(key) = {} /\ TermsFor(key) = {}

\* What the two checks together leave: in a process that serves the only entries a
\* lookup can find for a sign are phrases, and each of them has a stem.
SignsLeakByStemOnly ==
    Serving =>
        \A key \in gate :
            /\ TermsFor(key) = {}
            /\ \A k \in PhrasesFor(key) : \E n \in DOMAIN k : k[n].stem

\* The rules served are those that were written, whatever the order in which
\* the intents were merged into the weights of a shared item.
RulesAsWritten ==
    Serving =>
        LET rules == disk.personalization.rules
        IN  \A k \in KnownItems, x \in Intents :
                /\ Lookup(Lookup(item_weights, k, <<>>), x, 0) =
                       CASE x \in DOMAIN rules /\ k \in rules[x].primary   -> PrimaryWeight
                         [] x \in DOMAIN rules /\ k \in rules[x].secondary -> SecondaryWeight
                         [] OTHER                                         -> 0
                /\ k \in Lookup(exclusions, x, {}) <=>
                       x \in DOMAIN rules /\ k \in rules[x].exclude

\* Which model serves.  Under "auto" the first provider that can be built, and the
\* mock only if none can.  An explicit choice is never replaced by the other
\* provider; the mock stands in for it exactly when it has no key, never when only
\* its SDK is missing (factory.py).
ProviderHonest ==
    Serving =>
        IF settings.asked = "auto"
        THEN /\ llm = "mock" => \A n \in DOMAIN Providers : ~Usable(Providers[n])
             /\ llm # "mock" => Usable(llm)
             /\ llm = "openai" => ~Usable("anthropic")
        ELSE /\ llm \in {settings.asked, "mock"}
             /\ llm = "mock" <=> settings.asked \notin settings.keys

\* ARCHITECTURE: resolving the provider kills no boot, it "falls back to mock, at
\* WARNING".  It does kill it for a provider asked for by name that has a key and
\* no SDK.
ModelKillsNoBoot == fault # "sdk"

\* What the loader can see is refused before a connection pool exists: no
\* process holds one for a config that names an unknown item, conflicting
\* tiers or a spelled-out sign.  (What only the compiled lexicon or the SDK
\* shows is found later, and lifespan then leaves the pool to the exit.)
RefusedBeforeOpening ==
    http # "none" =>
        /\ Dangling(disk.personalization) = {}
        /\ NoItemInTwoPlaces(disk.personalization.rules)
        /\ ~PrefixProblems /\ ~ZodiacProblems
=============================================================================
