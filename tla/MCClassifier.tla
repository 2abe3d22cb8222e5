---------------------------- MODULE MCClassifier ----------------------------
(* Classifier over every question of up to MaxTokens words of a small      *)
(* vocabulary, with a lexicon whose entries overlap in every way the code  *)
(* distinguishes: phrases that share a token, a literal phrase inside a    *)
(* stem phrase, a stem inside a longer one, a word of two intents, an      *)
(* entry repeated, a time word that is also a term, and horizons that      *)
(* overlap.                                                                *)
EXTENDS Classifier, TLC

CONSTANTS MaxTokens

Vocabulary == {"my", "not", "today", "this", "year",
               "work", "working", "life", "partner", "salary"}

ShortQuestions == UNION {[1 .. n -> Vocabulary] : n \in 0 .. MaxTokens}

FiveIntents   == {"career", "finance", "general", "health", "relationship"}
Alphabetical  == <<"career", "finance", "general", "health", "relationship">>
WordsWith     == ("work" :> {"work", "working"}) @@ ("worki" :> {"working"})
                 @@ ("partner" :> {"partner"}) @@ ("salar" :> {"salary"})
StemSizes     == ("work" :> 4) @@ ("worki" :> 5) @@ ("partner" :> 7) @@ ("salar" :> 5)

Horizons      == (<<"today">> :> "today") @@ (<<"this", "year">> :> "this_year")
                 @@ (<<"my", "life">> :> "long_term")
                 @@ (<<"life", "this", "year">> :> "this_year")
Markers       == {<<"my">>, <<"my", "life">>, <<"today">>}
Negations     == {<<"not">>, <<"not", "my">>}

Entry(x, key, weight) == [intent |-> x, key |-> key, weight |-> weight]

TermEntries ==
    << Entry("career", <<Stem("work")>>, 8),
       Entry("career", <<Stem("work")>>, 6),
       Entry("career", <<Stem("salar")>>, 5),
       Entry("career", <<Word("year")>>, 3),
       Entry("relationship", <<Stem("partner")>>, 9),
       Entry("health", <<Stem("worki")>>, 6),
       Entry("finance", <<Stem("salar")>>, 8) >>

PhraseEntries ==
    << Entry("career", <<Stem("work"), Word("life")>>, 7),
       Entry("relationship", <<Word("life"), Word("partner")>>, 12),
       Entry("health", <<Word("work"), Word("life")>>, 5),
       Entry("career", <<Word("year"), Stem("work")>>, 4),
       Entry("relationship", <<Word("work"), Word("life"), Stem("partner")>>, 9) >>
=============================================================================
