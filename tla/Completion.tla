----------------------------- MODULE Completion -----------------------------
(***************************************************************************)
(* From the selected items to a completion: app/prompt/builder.py, which   *)
(* frames them, app/llm/mock.py, which composes an answer from the frame   *)
(* within a cap on its words, and the provider clients of app/llm, reduced *)
(* to how a call can end.  Of a sentence only its number of words is kept. *)
(***************************************************************************)
EXTENDS Registry, FiniteSetsExt

CONSTANTS
    ClauseWords,  \* words of "your <label>: <value>", by item
    HorizonWords, \* words of the horizon phrase, by scope
    NoContext     \* NO_CONTEXT_MARKER

ASSUME PhraseAssumption ==
    /\ ClauseWords \in [Items -> Nat \ {0}]
    /\ \A s \in DOMAIN HorizonWords : HorizonWords[s] \in Nat \ {0}
    /\ NoContext \notin Items

-----------------------------------------------------------------------------
(* builder.py: the two messages, as the fields the mock reads back.         *)

Prompt(selected, tone, scope, name) ==
    [tone    |-> tone,
     horizon |-> HorizonWords[scope],
     name    |-> name,
     bullets |-> IF selected = <<>> THEN <<NoContext>> ELSE selected]

-----------------------------------------------------------------------------
(* mock.py.                                                                 *)

\* _VOICES, in words; an opening is counted without name and horizon.
Voices ==
    [neutral      |-> [opening |-> 9,  leads |-> <<2, 3, 2, 3>>, closing |-> 11, thin |-> 13],
     warm         |-> [opening |-> 9,  leads |-> <<4, 3, 3, 3>>, closing |-> 14, thin |-> 16],
     calm         |-> [opening |-> 8,  leads |-> <<2, 3, 3, 3>>, closing |-> 13, thin |-> 13],
     supportive   |-> [opening |-> 11, leads |-> <<6, 3, 3, 3>>, closing |-> 10, thin |-> 16],
     motivational |-> [opening |-> 12, leads |-> <<4, 3, 3, 3>>, closing |-> 12, thin |-> 14]]
Voice(tone) == IF tone \in DOMAIN Voices THEN Voices[tone] ELSE Voices.neutral

\* The offset is a hash of the question, of which the remainder by three tells.
Offsets == 0 .. 2

Facts(prompt) == Among(prompt.bullets, Items)

\* leads[0] introduces the first fact, the other three rotate.
Lead(voice, offset, n) ==
    voice.leads[IF n = 1 THEN 1 ELSE 2 + ((offset + n - 1) % 3)]

\* The words of each sentence of the full answer.
Sentences(prompt, offset) ==
    LET voice == Voice(prompt.tone)
        facts == Facts(prompt)
    IN  IF facts = <<>> THEN <<voice.thin>>
        ELSE <<prompt.name + voice.opening + prompt.horizon>>
             \o [n \in DOMAIN facts |-> Lead(voice, offset, n) + ClauseWords[facts[n]]]
             \o <<voice.closing>>

WordsOf(sentences, n) == SumFunctionOnSet(sentences, 1 .. n)

\* Mutant of Kept: the cap is compared with what was used before the sentence.
KeptOneMore(sentences, cap) ==
    Max({n \in DOMAIN sentences : \A m \in 1 .. n - 1 : WordsOf(sentences, m) <= cap})

\* _fit: the first sentence, and the following ones up to the first that
\* does not fit.
Kept(sentences, cap) ==
    Max({n \in DOMAIN sentences : \A m \in 2 .. n : WordsOf(sentences, m) <= cap})

\* generate: the facts told in full, the words used, and whether the text had to
\* be cut inside a sentence.
Reply(prompt, cap, offset) ==
    LET sentences == Sentences(prompt, offset)
        kept      == Kept(sentences, cap)
        facts     == Facts(prompt)
        words     == WordsOf(sentences, kept)
    IN  [told  |-> SubSeq(facts, 1, Min({kept - 1, Len(facts)})),
         words |-> Min({words, cap}),
         cut   |-> words > cap]

-----------------------------------------------------------------------------
(* anthropic.py and openai.py: how the call of a provider ends.             *)

\* A refusal is an Anthropic stop_reason.
ProviderOutcomes == {"text", "blank", "refusal", "error"}

\* Mutant of Raises: a completion without text is passed on.
RaisesOnErrors(outcome) == outcome \in {"error", "refusal"}

\* LLMError: an SDK error, a refusal, or a completion that strips to nothing.
Raises(outcome) == outcome \in {"error", "refusal", "blank"}
=============================================================================
