------------------------------ MODULE Lexicon ------------------------------
(***************************************************************************)
(* The lexicon of the classifier: how an entry of intents.yaml matches     *)
(* tokens and what compile_lexicons makes of the entries                   *)
(* (app/classifier/signals.py).                                            *)
(*                                                                         *)
(* An entry is [intent, key, weight]; a key is a sequence of patterns, one *)
(* per token; a pattern is a literal word or a stem ("promot*").  A stem   *)
(* is known by the words it is a prefix of.  Weights are in tenths.        *)
(***************************************************************************)
EXTENDS Integers, Sequences, FiniteSetsExt

CONSTANTS
    Intents,
    General,     \* Intent.GENERAL, the absence of an intent
    Inflections, \* Inflections[s]: the words that start with stem s
    StemLength   \* StemLength[s]: its number of characters

ASSUME LexiconAssumption ==
    /\ General \in Intents /\ IsFiniteSet(Intents)
    /\ DOMAIN Inflections = DOMAIN StemLength
    /\ \A s \in DOMAIN StemLength : StemLength[s] \in Nat
    /\ \A s, t \in DOMAIN Inflections :
          StemLength[s] = StemLength[t] /\ Inflections[s] \cap Inflections[t] # {} => s = t

Word(w) == [stem |-> FALSE, text |-> w]
Stem(s) == [stem |-> TRUE, text |-> s]

PatternMatches(p, w) == IF p.stem THEN w \in Inflections[p.text] ELSE p.text = w

\* phrase_key_matches.
KeyMatches(key, window) ==
    /\ Len(key) = Len(window)
    /\ \A n \in DOMAIN key : PatternMatches(key[n], window[n])

-----------------------------------------------------------------------------
\* The keys of a compiled table.
KeysOf(entries) == {entries[n].key : n \in DOMAIN entries}

WeightsUnder(entries, key, x) ==
    {entries[n].weight : n \in {m \in DOMAIN entries :
                                   entries[m].key = key /\ entries[m].intent = x}}

\* Mutant of WeightsOf: a repeated entry votes twice.
WeightsOfAdding(entries, key) ==
    [x \in Intents |->
        MapThenSumSet(LAMBDA n : IF entries[n].key = key /\ entries[n].intent = x
                                 THEN entries[n].weight ELSE 0, DOMAIN entries)]

\* _merge: an entry repeated under one intent is one vote, the strongest.
WeightsOf(entries, key) ==
    [x \in Intents |-> Max({0} \cup WeightsUnder(entries, key, x))]

\* The key a window of tokens resolves to: its literal spelling, else the first
\* key in the order of the config whose stems cover it.
PhraseKeysFor(entries, window) == {key \in KeysOf(entries) : KeyMatches(key, window)}

PhraseKey(entries, window) ==
    LET fits    == PhraseKeysFor(entries, window)
        literal == [n \in DOMAIN window |-> Word(window[n])]
        first   == Min({n \in DOMAIN entries : entries[n].key \in fits})
    IN  IF literal \in fits THEN literal ELSE entries[first].key

\* lexicon_signal: a token is looked up literally, else by its longest stem.
TermKeysFor(entries, w) ==
    LET stems  == {key \in KeysOf(entries) :
                      /\ key[1].stem /\ PatternMatches(key[1], w)}
    IN  IF <<Word(w)>> \in KeysOf(entries)
        THEN {<<Word(w)>>}
        ELSE {key \in stems : \A other \in stems :
                 StemLength[key[1].text] >= StemLength[other[1].text]}
=============================================================================
