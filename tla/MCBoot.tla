------------------------------- MODULE MCBoot -------------------------------
(* Processes started with every small lexicon, every fault of the other    *)
(* documents, and every combination of provider, keys and installed SDKs.  *)
EXTENDS Boot, TLC

ThreeIntents == {"general", "health", "relationship"}
FourItems    == {"house_6", "house_7", "moon_sign", "panchang_today"}
Upstreams    == {"user", "kundli"}

\* "cancer's" loses its possessive and "--" has no word in it.
Words == {"cancer", "cancer's", "canc", "love", "life", "marri", "marriage", "--"}
Tokenized == [w \in Words |-> CASE w = "--"       -> <<>>
                                [] w = "cancer's" -> <<"cancer">>
                                [] OTHER          -> <<w>>]
Beginnings == [s \in {"canc", "cancer", "marri", "love"} |->
                  CASE s = "canc"   -> {"canc", "cancer", "cancer's"}
                    [] s = "cancer" -> {"cancer", "cancer's"}
                    [] s = "marri"  -> {"marri", "marriage"}
                    [] OTHER        -> {"love"}]
BeginningSizes == [s \in {"canc", "cancer", "marri", "love"} |->
                      CASE s = "canc" -> 4 [] s = "cancer" -> 6 [] s = "marri" -> 5 [] OTHER -> 4]

Raw(text)     == [text |-> text, stem |-> FALSE]
Stemmed(text) == [text |-> text, stem |-> TRUE]

Entries ==
    LET E(x, label, match) == [intent |-> x, label |-> label, match |-> match, weight |-> 7]
    IN  { E("health", "terms", <<Raw("cancer")>>),
          E("health", "terms", <<Raw("cancer's")>>),
          E("health", "terms", <<Stemmed("canc")>>),
          E("health", "terms", <<Stemmed("cancer's")>>),
          E("health", "phrases", <<Raw("cancer's")>>),
          E("health", "phrases", <<Stemmed("cancer's")>>),
          E("health", "phrases", <<Raw("life"), Stemmed("canc")>>),
          E("health", "terms", <<Raw("love"), Raw("life")>>),
          E("relationship", "phrases", <<Raw("love"), Raw("life")>>),
          E("relationship", "phrases", <<Raw("love")>>),
          E("relationship", "phrases", <<Raw("--")>>),
          E("relationship", "terms", <<Stemmed("marri")>>),
          E("relationship", "terms", <<Raw("marriage")>>) }

Lexicons == {s \in SUBSET Entries : Cardinality(s) <= 2}

IntentsDoc(entries, zodiac, markers, horizons, lexicons) ==
    [entries |-> entries, zodiac |-> zodiac, markers |-> markers, horizons |-> horizons,
     lexicons |-> lexicons]
ScoredIntents == ThreeIntents \ {"general"}
Texts == {{"life"}, {"life", "--"}}
IntentsDocs ==
    {IntentsDoc(s, z, {}, {}, ScoredIntents) :
        s \in Lexicons, z \in {{}, {"cancer"}, {"cancer", "--"}}}
    \cup {IntentsDoc({}, {"cancer"}, m, h, ScoredIntents) : m \in Texts, h \in Texts}
    \cup {IntentsDoc({}, {}, {}, {}, ThreeIntents), Unreadable}
PlainIntents == IntentsDoc({}, {"cancer"}, {}, {}, ScoredIntents)

Rule(p, s, x) == [primary |-> p, secondary |-> s, exclude |-> x]
PersonalizationDoc(rules, modifiers) == [rules |-> rules, modifiers |-> modifiers, cap |-> 5]
Keys == FourItems \cup {"house_8"}
PlainRules ==
    [general |-> Rule({}, FourItems, {}),
     health |-> Rule({"house_6"}, {"moon_sign"}, {"house_7"}),
     relationship |-> Rule({"house_7"}, {"moon_sign"}, {})]
Nudges == [k \in {"panchang_today"} |-> 5]
PlainPersonalization == PersonalizationDoc(PlainRules, Nudges)
PersonalizationDocs ==
    {PersonalizationDoc([PlainRules EXCEPT !.health = Rule(p, s, x)], Nudges) :
        p \in SUBSET {"house_6", "house_8"}, s \in SUBSET {"house_6", "moon_sign"},
        x \in SUBSET {"house_7", "house_6"}}
    \cup {PersonalizationDoc(<<>>, Nudges), PersonalizationDoc(<<>>, <<>>), Unreadable,
          PersonalizationDoc(PlainRules, [k \in {"panchang_today"} |-> 6]),
          PersonalizationDoc(PlainRules, [k \in {"house_8"} |-> 1])}

Policy(retries, criticality) == [retries |-> retries, criticality |-> criticality]
UnsetPolicy   == Policy(1, "degradable")
PlainServices == [s \in {"user"} |-> Policy(1, "required")]
ServicesDocs  == {<<>>, Unreadable, [s \in {"user"} |-> Policy(-1, "required")]}

Disk(i, p, s) == [intents |-> i, personalization |-> p, services |-> s]
PlainDisk     == Disk(PlainIntents, PlainPersonalization, PlainServices)
Settings(asked, keys, sdks) == [asked |-> asked, keys |-> keys, sdks |-> sdks]
PlainSettings == Settings("auto", {}, {})

RealProviders == {"anthropic", "openai"}
EveryStart ==
    {[disk |-> d, settings |-> PlainSettings] :
        d \in {Disk(i, PlainPersonalization, PlainServices) : i \in IntentsDocs}
              \cup {Disk(PlainIntents, p, PlainServices) : p \in PersonalizationDocs}
              \cup {Disk(PlainIntents, PlainPersonalization, s) : s \in ServicesDocs}}
    \cup {[disk |-> PlainDisk, settings |-> Settings(asked, keys, sdks)] :
              asked \in {"auto", "mock"} \cup RealProviders,
              keys \in SUBSET RealProviders, sdks \in SUBSET RealProviders}
=============================================================================
