----------------------------- MODULE MCPipeline -----------------------------
(***************************************************************************)
(* Pipeline under the shipped configuration: config/personalization.yaml   *)
(* and the costs that registry.py computes from its sample values.         *)
(***************************************************************************)
EXTENDS Pipeline

AlphabeticalItems ==
    <<"birth_details", "dasha_current", "horoscope_career", "horoscope_finance",
      "horoscope_health", "horoscope_relationship", "house_10", "house_6", "house_7",
      "lagna", "moon_sign", "panchang_today">>
ShippedItems == {AlphabeticalItems[n] : n \in DOMAIN AlphabeticalItems}
Horoscopes == {"horoscope_career", "horoscope_finance", "horoscope_health",
               "horoscope_relationship"}
Houses == {"house_6", "house_7", "house_10"}

ShippedService ==
    [k \in ShippedItems |->
        CASE k \in Horoscopes        -> "horoscope"
          [] k = "panchang_today"    -> "panchang"
          [] k = "birth_details"     -> "user"
          [] OTHER                   -> "kundli"]
ShippedCost ==
    [k \in ShippedItems |->
        CASE k \in Horoscopes                  -> 14
          [] k \in Houses \cup {"dasha_current"} -> 7
          [] k = "panchang_today"              -> 15
          [] k = "birth_details"               -> 10
          [] k = "lagna"                       -> 4
          [] OTHER                             -> 2]

ShippedClause ==
    [k \in ShippedItems |->
        CASE k \in Horoscopes        -> 12
          [] k \in Houses \cup {"dasha_current"} -> 7
          [] k = "panchang_today"    -> 11
          [] k = "birth_details"     -> 10
          [] OTHER                   -> 4]
ShippedHorizon ==
    [today |-> 1, this_week |-> 3, this_month |-> 3, this_year |-> 3, unspecified |-> 3]

ScoredIntents == {"career", "relationship", "health", "finance"}
AllIntents == ScoredIntents \cup {"general"}
AllScopes  == {"today", "this_week", "this_month", "this_year", "unspecified"}

ShippedPrimary ==
    [career |-> {"house_10", "horoscope_career"},
     relationship |-> {"house_7", "horoscope_relationship"},
     health |-> {"house_6", "horoscope_health"},
     finance |-> {"horoscope_finance"},
     general |-> {}]
ShippedSecondary ==
    [career |-> {"dasha_current", "panchang_today"},
     relationship |-> {"moon_sign", "dasha_current"},
     health |-> {"moon_sign", "panchang_today"},
     finance |-> {"house_10", "dasha_current"},
     general |-> ShippedItems]
ShippedExclude ==
    [career |-> {"horoscope_relationship"},
     relationship |-> {"horoscope_career"},
     health |-> {"horoscope_finance"},
     finance |-> {"horoscope_relationship"},
     general |-> {}]

NoModifier == [s \in AllScopes |-> 0]
Scoped(today, week, month, year) ==
    [today |-> today, this_week |-> week, this_month |-> month, this_year |-> year,
     unspecified |-> 0]
ShippedModifier ==
    [k \in ShippedItems |->
        CASE k = "panchang_today" -> Scoped(500, 100, -300, -400)
          [] k = "dasha_current"  -> Scoped(-200, -100, 200, 400)
          [] k \in Horoscopes     -> Scoped(300, 100, -100, -300)
          [] OTHER                -> NoModifier]

ShippedSubscriptions == [premium |-> 250, free |-> 120]
ShippedIntentCap ==
    [career |-> 250, relationship |-> 220, health |-> 200, finance |-> 220, general |-> 150]
ShippedAllowed ==
    [x \in AllIntents |-> IF x = "health" THEN {"calm", "supportive", "neutral"} ELSE {}]
ShippedFallback ==
    [x \in AllIntents |-> IF x = "health" THEN "supportive" ELSE "neutral"]

\* A second guardrail, which no tone passes together with the first: on a merge of
\* career and health either fallback is one that the other intent vetoes.
MeetingAllowed  == [ShippedAllowed EXCEPT !.career = {"motivational", "direct"}]
MeetingFallback == [ShippedFallback EXCEPT !.career = "direct"]

\* Every verdict _decide can reach.  Shares of a merge lie in [0.5, 0.65).
General(reason, scopes) ==
    {[top |-> "general", second |-> None, share |-> 100, scope |-> s, reason |-> reason] :
        s \in scopes}
Single(scopes) ==
    {[top |-> x, second |-> None, share |-> 100, scope |-> s, reason |-> "CONFIDENT_MATCH"] :
        x \in ScoredIntents, s \in scopes}
Merged(shares, scopes) ==
    {c \in {[top |-> x, second |-> y, share |-> p, scope |-> s, reason |-> "AMBIGUOUS_MERGED"] :
                x \in ScoredIntents, y \in ScoredIntents, p \in shares, s \in scopes} :
        c.top # c.second}
EveryVerdict ==
    General("NO_EVIDENCE_DEFAULT", AllScopes) \cup General("OUT_OF_DOMAIN", {"today"})
        \cup Single(AllScopes) \cup Merged({50, 64}, {"today", "this_year", "unspecified"})
SingleVerdicts == General("NO_EVIDENCE_DEFAULT", AllScopes) \cup Single(AllScopes)

Profile(sub, t, words) == [subscription |-> sub, tone |-> t, name |-> words]
AllProfiles ==
    {Profile("premium", "motivational", 1), Profile("gold", "calm", 90), Profile(None, None, 2)}
OneProfile == {Profile("premium", "motivational", 1)}

NoGap    == {{}}
SomeGaps == {{}, {"house_10", "horoscope_health"}}
=============================================================================
