----------------------------- MODULE Classifier -----------------------------
(***************************************************************************)
(* RulesClassifier.classify: app/classifier/rules.py, domain_gate.py and   *)
(* the extractors of signals.py, over the tokens the tokenizer produced.   *)
(* The extractors run one after the other, each on what the ones before it *)
(* left over: time scope, domain gate, phrases, terms, negation, decision. *)
(*                                                                         *)
(* Weights, min_evidence and the negation discount are in tenths, so a     *)
(* score is in hundredths; the dominance threshold is in percent.          *)
(***************************************************************************)
EXTENDS Scan, Lexicon

CONSTANTS
    Questions,    \* the token sequences this instance enumerates
    TimePatterns, \* time_scope.patterns, compiled: token sequence -> scope
    Unspecified,  \* TimeScope.UNSPECIFIED
    GateKeys,     \* the markers of domain_gate, as token sequences
    MinSignals,
    Terms, Phrases, \* the entries of all intents, in the order of the config
    Cues,         \* negation_cues, as token sequences
    MinEvidence, Dominance, NegationWindow, NegationDiscount,
    IntentOrder,  \* the intents in alphabetical order
    None

\* What config_schema.py enforces (weights above zero, no lexicon for general),
\* and compile_lexicons of a term: it must "normalize to exactly one token".
ASSUME ClassifierAssumption ==
    /\ \A q \in Questions : q \in Seq({q[n] : n \in DOMAIN q})
    /\ \A entries \in {Terms, Phrases} :
          /\ Len(entries) \in Nat /\ DOMAIN entries = 1 .. Len(entries)
          /\ \A n \in DOMAIN entries : /\ entries[n].intent \in Intents \ {General}
                                      /\ entries[n].weight \in Nat \ {0}
    /\ \A key \in KeysOf(Terms) :
          \/ key = <<Word(key[1].text)>>
          \/ key = <<Stem(key[1].text)>> /\ key[1].text \in DOMAIN Inflections
    /\ Len(IntentOrder) \in Nat /\ DOMAIN IntentOrder = 1 .. Len(IntentOrder)
    /\ {IntentOrder[n] : n \in DOMAIN IntentOrder} = Intents /\ None \notin Intents
    /\ NegationDiscount \in 0 .. 10 /\ NegationWindow \in Int
    /\ MinEvidence \in Int /\ Dominance \in Int /\ MinSignals \in Int

VARIABLES
    stage,   \* the extractor that is running, "decided", or "crashed"
    scope,   \* TimeScopeSignal.scope
    timed,   \* the positions that expressed it
    matches, \* the lexicon and phrase hits, with weights and discount
    verdict  \* the ClassificationResult

clsVars == <<question, scanVars, stage, scope, timed, matches, verdict>>

Topics == Intents \ {General}

Windows == {w \in (1 .. Len(question)) \X (1 .. Len(question)) :
                w[1] + w[2] - 1 <= Len(question)}
Text(w) == SubSeq(question, w[1], w[1] + w[2] - 1)
TextOf(h) == SubSeq(question, h[1], h[2] - 1)

MatchSpan(m) == m.start .. m.end - 1

NoVerdict == [reason |-> "NONE", top |-> None, second |-> None,
              lead |-> 0, rival |-> 0, scope |-> Unspecified]

ClsInit ==
    /\ question \in Questions
    /\ stage = "time"
    /\ table = {w \in Windows : Text(w) \in DOMAIN TimePatterns}
    /\ blocked = {} /\ pos = 1 /\ hits = {}
    /\ scope = Unspecified
    /\ timed = {}
    /\ matches = {}
    /\ verdict = NoVerdict

\* A round of the scan of the running extractor.
Scanning ==
    /\ stage \in {"time", "gate", "phrases"}
    /\ ScanStep
    /\ UNCHANGED <<stage, scope, timed, matches, verdict>>

-----------------------------------------------------------------------------
(* time_scope_signal and the domain gate.                                   *)

\* The longest hit is the most specific phrasing, the leftmost on a tie.
Specific(g, h) ==
    \/ g[2] - g[1] > h[2] - h[1]
    \/ g[2] - g[1] = h[2] - h[1] /\ g[1] <= h[1]

\* Mutant of Horizon: the first horizon mentioned is reported.
HorizonFirst(found) ==
    IF found = {} THEN Unspecified
    ELSE LET h == CHOOSE g \in found : \A o \in found : g[1] <= o[1]
         IN  TimePatterns[TextOf(h)]

Horizon(found) ==
    IF found = {} THEN Unspecified
    ELSE LET h == CHOOSE g \in found : \A o \in found : Specific(g, o)
         IN  TimePatterns[TextOf(h)]

ReadHorizon ==
    /\ stage = "time" /\ ScanOver
    /\ scope' = Horizon(hits)
    /\ timed' = Taken
    /\ stage' = "gate"
    /\ Begin({w \in Windows : Text(w) \in GateKeys}, {})
    /\ UNCHANGED <<question, matches, verdict>>

\* Distinct markers, not occurrences; an empty gate lets everything pass.
InDomain == GateKeys = {} \/ Cardinality({TextOf(h) : h \in hits}) >= MinSignals

Refuse ==
    /\ stage = "gate" /\ ScanOver
    /\ ~InDomain
    /\ verdict' = [NoVerdict EXCEPT !.reason = "OUT_OF_DOMAIN", !.top = General,
                                    !.scope = scope]
    /\ stage' = "decided"
    /\ UNCHANGED <<question, scanVars, scope, timed, matches>>

\* Mutant of Accept: the phrases are not told which tokens are consumed.
AcceptUnblocked ==
    /\ stage = "gate" /\ ScanOver
    /\ InDomain
    /\ stage' = "phrases"
    /\ Begin({w \in Windows : PhraseKeysFor(Phrases, Text(w)) # {}}, {})
    /\ UNCHANGED <<question, scope, timed, matches, verdict>>

Accept ==
    /\ stage = "gate" /\ ScanOver
    /\ InDomain
    /\ stage' = "phrases"
    /\ Begin({w \in Windows : PhraseKeysFor(Phrases, Text(w)) # {}}, timed)
    /\ UNCHANGED <<question, scope, timed, matches, verdict>>

-----------------------------------------------------------------------------
(* phrase_signal, lexicon_signal and negation_signal.                       *)

MatchPhrases ==
    /\ stage = "phrases" /\ ScanOver
    /\ matches' = {[start |-> h[1], end |-> h[2], discount |-> 10,
                    weights |-> WeightsOf(Phrases, PhraseKey(Phrases, TextOf(h)))] : h \in hits}
    /\ stage' = "terms"
    /\ UNCHANGED <<question, scanVars, scope, timed, verdict>>

\* Every token nobody has claimed is looked up on its own.
Unclaimed == (1 .. Len(question)) \ (timed \cup Taken)

TermMatches ==
    UNION {{[start |-> i, end |-> i + 1, discount |-> 10, weights |-> WeightsOf(Terms, key)] :
               key \in TermKeysFor(Terms, question[i])} : i \in Unclaimed}

MatchTerms ==
    /\ stage = "terms"
    /\ matches' = matches \cup TermMatches
    /\ stage' = "negation"
    /\ UNCHANGED <<question, scanVars, scope, timed, verdict>>

\* The positions behind a cue, from which its window is measured.
CueEnds == {w[1] + w[2] : w \in {v \in Windows : Text(v) \in Cues}}

Negated(m) == \E e \in CueEnds : e <= m.start /\ m.start < e + NegationWindow

\* However many cues reach a match, it is discounted once.
Negate ==
    /\ stage = "negation"
    /\ matches' = {[m EXCEPT !.discount = IF Negated(m) THEN NegationDiscount ELSE @] :
                       m \in matches}
    /\ stage' = "deciding"
    /\ UNCHANGED <<question, scanVars, scope, timed, verdict>>

-----------------------------------------------------------------------------
(* _accumulate, _dominance and _decide.                                     *)

\* Match.topical_peak.
Peak(m)  == Max({m.weights[x] : x \in Intents})
Score(x) == SumFunction([m \in matches |-> m.weights[x] * m.discount])

Ranked == {x \in Topics : Score(x) > 0}

\* Mutant of AbsoluteEvidence: the gate looks at the discounted scores.
AbsoluteDiscounted == SumFunction([m \in matches |-> (Peak(m) * m.discount) \div 10])

\* A polysemous term counts once, with its strongest reading, undiscounted.
AbsoluteEvidence == SumFunction([m \in matches |-> Peak(m)])

Position(x) == CHOOSE n \in DOMAIN IntentOrder : IntentOrder[n] = x
RanksBefore(x, y) ==
    \/ Score(x) > Score(y)
    \/ Score(x) = Score(y) /\ Position(x) <= Position(y)
Best(S) == CHOOSE x \in S : \A y \in S : RanksBefore(x, y)

Generic ==
    [NoVerdict EXCEPT !.reason = "NO_EVIDENCE_DEFAULT", !.top = General, !.scope = scope]

Confident(x) ==
    [NoVerdict EXCEPT !.reason = "CONFIDENT_MATCH", !.top = x, !.scope = scope]

\* The weights of a merge are lead / (lead + rival) and its complement.
Merged(x, y) ==
    [reason |-> "AMBIGUOUS_MERGED", top |-> x, second |-> y,
     lead |-> Score(x), rival |-> Score(y), scope |-> scope]

\* Mutant of Dominates: the leader's share of all scores.
DominatesTheTotal(x) ==
    100 * Score(x) >= Dominance * SumFunction([y \in Ranked |-> Score(y)])

\* relative_dominance >= dominance: the margin over the runner-up only.
Dominates(x) ==
    LET rivals == Ranked \ {x}
        second == IF rivals = {} THEN 0 ELSE Score(Best(rivals))
    IN  100 * Score(x) >= Dominance * (Score(x) + second)

\* ranked[0] and ranked[1] of lists that are too short.
Missing == Ranked = {} \/ (Ranked \ {Best(Ranked)} = {} /\ ~Dominates(Best(Ranked)))

Decide ==
    /\ stage = "deciding"
    /\ IF AbsoluteEvidence < MinEvidence
       THEN verdict' = Generic /\ stage' = "decided"
       ELSE IF Missing
       THEN stage' = "crashed" /\ UNCHANGED verdict
       ELSE /\ stage' = "decided"
            /\ LET top == Best(Ranked)
               IN  verdict' = IF Dominates(top) THEN Confident(top)
                              ELSE Merged(top, Best(Ranked \ {top}))
    /\ UNCHANGED <<question, scanVars, scope, timed, matches>>

ClsNext ==
    \/ Scanning
    \/ ReadHorizon \/ Refuse \/ Accept
    \/ MatchPhrases \/ MatchTerms \/ Negate \/ Decide

ClsSpec == ClsInit /\ [][ClsNext]_clsVars

\* classify is synchronous code: once called it runs.
FairClsSpec == ClsSpec /\ WF_clsVars(ClsNext)

-----------------------------------------------------------------------------
(* Properties.                                                              *)

\* The type invariant, with the stages at which the parts are known.
ClsTypeOK ==
    /\ stage \in {"time", "gate", "phrases", "terms", "negation", "deciding",
                  "decided", "crashed"}
    /\ table \subseteq Windows
    /\ blocked \subseteq 1 .. Len(question) /\ timed \subseteq 1 .. Len(question)
    /\ pos \in 1 .. Len(question) + 1
    /\ hits \subseteq (1 .. Len(question)) \X (2 .. Len(question) + 1)
    /\ \A m \in matches : MatchSpan(m) # {} /\ MatchSpan(m) \subseteq 1 .. Len(question)
    /\ verdict.top \in Intents \cup {None} /\ verdict.second \in Topics \cup {None}
    /\ verdict.top # None <=> stage = "decided"

\* No token is evidence twice, not through a phrase and a term, two phrases or
\* two stems, and none that expressed the horizon is evidence at all.
EvidenceCountedOnce ==
    /\ \A m, o \in matches : m # o => MatchSpan(m) \cap MatchSpan(o) = {}
    /\ \A m \in matches : MatchSpan(m) \cap timed = {}

\* What a match says of an intent is what one entry of the config says of it,
\* an entry that covers exactly the tokens of the match: overlapping, repeated
\* and nested entries never add up ("a config duplicate, not two votes").
EvidenceIsConfigured ==
    \A m \in matches, x \in Intents : m.weights[x] > 0 =>
        \E entries \in {Terms, Phrases} : \E n \in DOMAIN entries :
            /\ entries[n].intent = x /\ entries[n].weight = m.weights[x]
            /\ KeyMatches(entries[n].key, TextOf(<<m.start, m.end>>))

\* The horizon of the verdict is the most specific one of the question, the
\* leftmost on a tie, on every path: for a refused question too.  A phrasing
\* that is more specific is passed over only when its first words already
\* belong to a phrasing that started before it.
MostSpecific(s) ==
    LET mentioned == {w \in Windows : Text(w) \in DOMAIN TimePatterns}
        Cut(o)    == \E e \in mentioned : e[1] < o[1] /\ o[1] < e[1] + e[2]
    IN  IF mentioned = {} THEN s = Unspecified
        ELSE \E w \in mentioned :
                /\ s = TimePatterns[Text(w)]
                /\ \A o \in mentioned :
                      Cut(o) \/ o[2] < w[2] \/ (o[2] = w[2] /\ w[1] <= o[1])
HorizonIsMostSpecific == stage = "decided" => MostSpecific(verdict.scope)

\* Negation is about sentiment and not about the topic: a question that raises
\* one topic, and raises it clearly enough, is answered about that topic,
\* whatever cues surround it (test_negation_does_not_suppress_the_only_topic).
OnlyTopicIsAnswered ==
    \A x \in Topics :
        (/\ stage = "decided" /\ verdict.reason # "OUT_OF_DOMAIN"
         /\ \A m \in matches : \A y \in Intents \ {x} : m.weights[y] = 0
         /\ SumFunction([m \in matches |-> m.weights[x]]) >= MinEvidence)
        => verdict.top = x /\ verdict.reason = "CONFIDENT_MATCH"

\* A verdict is earned against every rival and not against their number: a
\* confident intent dominates each other intent, a merge names the two best
\* and is only made when the first does not dominate the second.
VerdictEarned ==
    stage = "decided" =>
        CASE verdict.reason = "CONFIDENT_MATCH" ->
                /\ Score(verdict.top) > 0 /\ verdict.second = None
                /\ \A y \in Topics \ {verdict.top} :
                      100 * Score(verdict.top) >= Dominance * (Score(verdict.top) + Score(y))
          [] verdict.reason = "AMBIGUOUS_MERGED" ->
                /\ verdict.second # verdict.top
                /\ 0 < verdict.rival /\ verdict.rival <= verdict.lead
                /\ 100 * verdict.lead < Dominance * (verdict.lead + verdict.rival)
                /\ \A y \in Topics \ {verdict.top} : Score(y) <= verdict.rival
          [] OTHER -> verdict.top = General /\ verdict.second = None

\* Every question is decided, the empty one included: each scan advances in
\* every round, and the lists the decision reads are long enough.
ClassifyDecides == <>(stage = "decided")

\* main.py: "A malformed config therefore kills the process on boot rather than
\* one request in production": no configuration that boots crashes classify.
ClassifyReturns == stage # "crashed"

\* The configurations for which that is so; config_schema.py bounds none of the
\* three this way.
ThresholdsSane == MinEvidence > 0 /\ NegationDiscount > 0 /\ Dominance <= 100
=============================================================================
