-------------------------- MODULE Classifier_proofs --------------------------
(***************************************************************************)
(* Proofs about Scan and Classifier, for every question, lexicon, gate and *)
(* set of time patterns.                                                   *)
(***************************************************************************)
EXTENDS Classifier, DataTheorems

-----------------------------------------------------------------------------
(* The scan.                                                                *)

ScanInv ==
    /\ Len(question) \in Nat
    /\ table \subseteq Windows
    /\ pos \in 1 .. Len(question) + 1
    /\ hits \subseteq Int \X Int
    /\ HitsDisjoint
    /\ LeftmostLongest

LEMMA ScanBegins ==
    ASSUME Len(question) \in Nat, question' = question,
           NEW T \in SUBSET Windows, NEW B, Begin(T, B)
    PROVE  ScanInv'
<1>1. /\ table' = T /\ pos' = 1 /\ hits' = {} /\ blocked' = B
      /\ Windows' = Windows
  BY DEF Begin, Windows
<1>2. HitsDisjoint'
  BY <1>1 DEF HitsDisjoint
<1>3. LeftmostLongest'
  <2>1. \A w \in T : ~(w[1] < 1)
    BY DEF Windows
  <2> QED
    BY <1>1, <2>1 DEF LeftmostLongest
<1> QED
  BY <1>1, <1>2, <1>3 DEF ScanInv

\* What is known of the windows and hits when a round of the loop begins.
LEMMA RoundBegins ==
    ASSUME ScanInv, ~ScanOver
    PROVE  /\ pos \in 1 .. Len(question)
           /\ Taken \subseteq Int /\ \A p \in Taken : p < pos
           /\ \A w \in table : w[1] \in Int /\ w[2] \in Int /\ w = <<w[1], w[2]>>
           /\ \A w \in table :
                 (w[1] = pos /\ (w[1] .. w[1] + w[2] - 1) \cap blocked = {}) => w[2] \in Lengths
<1>1. pos \in 1 .. Len(question)
  BY DEF ScanInv, ScanOver
<1>2. \A h \in hits : h[1] \in Int /\ h[2] \in Int /\ h[2] <= pos
  BY DEF ScanInv, HitsDisjoint
<1>3. Taken \subseteq Int /\ \A p \in Taken : p < pos
  BY <1>1, <1>2 DEF Taken, Span
<1>4. \A w \in table : /\ w[1] \in 1 .. Len(question) /\ w[2] \in 1 .. Len(question)
                       /\ w = <<w[1], w[2]>> /\ w[1] + w[2] - 1 <= Len(question)
  BY DEF ScanInv, Windows
<1>5. ASSUME NEW w \in table, w[1] = pos, (w[1] .. w[1] + w[2] - 1) \cap blocked = {}
      PROVE  w[2] \in Lengths
  <2>1. w[2] \in 1 .. Len(question) + 1 - pos /\ <<pos, w[2]>> \in table
    BY <1>1, <1>4, <1>5
  <2>2. (pos .. pos + w[2] - 1) \cap (blocked \cup Taken) = {}
    BY <1>1, <1>3, <1>5, <2>1
  <2> QED
    BY <2>1, <2>2 DEF Lengths
<1> QED
  BY <1>1, <1>3, <1>4, <1>5

LEMMA ClaimKeeps ==
    ASSUME ScanInv, Claim, question' = question
    PROVE  ScanInv'
<1>1. PICK n \in Lengths : /\ \A m \in Lengths : m <= n
                           /\ hits' = hits \cup {<<pos, pos + n>>}
                           /\ pos' = pos + n
  BY DEF Claim
<1>2. table' = table /\ blocked' = blocked /\ ~ScanOver
  BY DEF Claim
<1>3. /\ n \in 1 .. Len(question) + 1 - pos /\ <<pos, n>> \in table
      /\ (pos .. pos + n - 1) \cap (blocked \cup Taken) = {}
  BY DEF Lengths
<1>4. /\ pos \in 1 .. Len(question) /\ Len(question) \in Nat
      /\ \A w \in table : w[1] \in Int /\ w[2] \in Int
      /\ \A w \in table :
            (w[1] = pos /\ (w[1] .. w[1] + w[2] - 1) \cap blocked = {}) => w[2] \in Lengths
  BY <1>2, RoundBegins DEF ScanInv
<1> DEFINE new == <<pos, pos + n>>
<1>5. new[1] = pos /\ new[2] = pos + n /\ Span(new) = pos .. pos + n - 1
  BY <1>3, <1>4 DEF Span
<1>6. HitsDisjoint'
  <2>1. \A h \in hits : Span(h) \cap Span(new) = {}
    BY <1>3, <1>5 DEF Taken
  <2>2. \A g, h \in hits' : g # h => Span(g) \cap Span(h) = {}
    BY <1>1, <2>1 DEF ScanInv, HitsDisjoint
  <2>3. \A h \in hits : /\ <<h[1], h[2] - h[1]>> \in table /\ Span(h) \cap blocked = {}
                        /\ h[2] <= pos + n
    <3>1. \A h \in hits : /\ h[2] \in Int /\ h[2] <= pos
                          /\ <<h[1], h[2] - h[1]>> \in table /\ Span(h) \cap blocked = {}
      BY DEF ScanInv, HitsDisjoint
    <3>2. pos <= pos + n /\ pos \in Int /\ n \in Int
      BY <1>3, <1>4
    <3>3. ASSUME NEW h \in hits PROVE h[2] <= pos + n
      <4>1. h[2] \in Int /\ h[2] <= pos
        BY <3>1
      <4> QED
        BY <3>2, <4>1
    <3> QED
      BY <3>1, <3>3
  <2>4. <<new[1], new[2] - new[1]>> \in table /\ Span(new) \cap blocked = {}
    BY <1>3, <1>4, <1>5
  <2>5. new[2] <= pos + n
    BY <1>3, <1>4, <1>5
  <2>6. (\A h \in hits' : <<h[1], h[2] - h[1]>> \in table /\ Span(h) \cap blocked = {}
                          /\ h[2] <= pos')
    BY <1>1, <2>3, <2>4, <2>5
  <2> QED
    BY <1>2, <2>2, <2>6 DEF HitsDisjoint, Span
<1>7. LeftmostLongest'
  <2> SUFFICES ASSUME NEW w \in table, w[1] < pos + n,
                      (w[1] .. w[1] + w[2] - 1) \cap blocked = {}
               PROVE  \E h \in hits' : /\ h[1] <= w[1] /\ w[1] < h[2]
                                       /\ h[1] = w[1] => h[2] >= w[1] + w[2]
    BY <1>1, <1>2 DEF LeftmostLongest
  <2>1. CASE w[1] < pos
    BY <1>1, <2>1 DEF ScanInv, LeftmostLongest
  <2>2. CASE w[1] = pos
    <3>1. w[2] <= n
      BY <1>1, <1>4, <2>2
    <3>2. new \in hits' /\ new[1] = w[1] /\ w[1] < new[2] /\ new[2] >= w[1] + w[2]
      BY <1>1, <1>3, <1>4, <1>5, <2>2, <3>1
    <3> QED
      BY <1>4, <1>5, <3>2
  <2>3. CASE w[1] > pos
    BY <1>1, <1>3, <1>4, <1>5, <2>3
  <2> QED
    BY <1>4, <2>1, <2>2, <2>3
<1>8. Windows' = Windows
  BY DEF Windows
<1>9. new \in Int \X Int /\ pos + n \in 1 .. Len(question) + 1
  BY <1>3, <1>4
<1> QED
  BY <1>1, <1>2, <1>6, <1>7, <1>8, <1>9 DEF ScanInv

LEMMA SkipKeeps ==
    ASSUME ScanInv, Skip, question' = question
    PROVE  ScanInv'
<1>1. /\ table' = table /\ blocked' = blocked /\ hits' = hits /\ pos' = pos + 1
      /\ ~ScanOver /\ Lengths = {}
  BY DEF Skip
<1>2. /\ pos \in 1 .. Len(question) /\ Len(question) \in Nat
      /\ \A w \in table : w[1] \in Int /\ w[2] \in Int
      /\ \A w \in table :
            (w[1] = pos /\ (w[1] .. w[1] + w[2] - 1) \cap blocked = {}) => w[2] \in Lengths
  BY <1>1, RoundBegins DEF ScanInv
<1>3. HitsDisjoint'
  BY <1>1, <1>2 DEF ScanInv, HitsDisjoint, Span
<1>4. LeftmostLongest'
  <2> SUFFICES ASSUME NEW w \in table, w[1] < pos + 1,
                      (w[1] .. w[1] + w[2] - 1) \cap blocked = {}
               PROVE  \E h \in hits : /\ h[1] <= w[1] /\ w[1] < h[2]
                                      /\ h[1] = w[1] => h[2] >= w[1] + w[2]
    BY <1>1 DEF LeftmostLongest
  <2>1. w[1] < pos
    BY <1>1, <1>2
  <2> QED
    BY <2>1 DEF ScanInv, LeftmostLongest
<1>5. Windows' = Windows
  BY DEF Windows
<1> QED
  BY <1>1, <1>2, <1>3, <1>4, <1>5 DEF ScanInv

LEMMA ScanUntouched ==
    ASSUME ScanInv, UNCHANGED <<question, scanVars>>
    PROVE  ScanInv'
BY DEF ScanInv, scanVars, Windows, HitsDisjoint, LeftmostLongest, Span

-----------------------------------------------------------------------------
(* The evidence.                                                            *)

IsMatch(m) == m = [start |-> m.start, end |-> m.end,
                   discount |-> m.discount, weights |-> m.weights]

\* Between the extractors: what the phrases and the terms find of the tokens
\* that the time scope has claimed, and of each other.
ClsInv ==
    /\ ScanInv
    /\ stage \in {"time", "gate", "phrases"} => matches = {}
    /\ stage \in {"phrases", "terms"} => blocked = timed
    /\ stage = "terms" => \A m \in matches : MatchSpan(m) \subseteq Taken
    /\ \A m \in matches : IsMatch(m)
    /\ EvidenceCountedOnce

\* A token resolves to one term: its literal, or the longest stem.
LEMMA OneTermKey ==
    ASSUME NEW w, NEW j \in TermKeysFor(Terms, w), NEW k \in TermKeysFor(Terms, w)
    PROVE  j = k
<1>1. CASE <<Word(w)>> \in KeysOf(Terms)
  BY <1>1 DEF TermKeysFor
<1>2. CASE <<Word(w)>> \notin KeysOf(Terms)
  <2>1. /\ j \in KeysOf(Terms) /\ k \in KeysOf(Terms)
        /\ j[1].stem /\ k[1].stem
        /\ PatternMatches(j[1], w) /\ PatternMatches(k[1], w)
        /\ StemLength[j[1].text] >= StemLength[k[1].text]
        /\ StemLength[k[1].text] >= StemLength[j[1].text]
    BY <1>2 DEF TermKeysFor
  <2>2. PICK s \in DOMAIN Inflections : j = <<Stem(s)>>
    BY <2>1, ClassifierAssumption DEF Word
  <2>3. PICK t \in DOMAIN Inflections : k = <<Stem(t)>>
    BY <2>1, ClassifierAssumption DEF Word
  <2>4. w \in Inflections[s] /\ w \in Inflections[t]
    BY <2>1, <2>2, <2>3 DEF PatternMatches, Stem
  <2>5. StemLength[s] \in Int /\ StemLength[t] \in Int
    BY LexiconAssumption
  <2>6. StemLength[s] = StemLength[t]
    BY <2>1, <2>2, <2>3, <2>5 DEF Stem
  <2>7. s = t
    BY <2>4, <2>6, LexiconAssumption
  <2> QED
    BY <2>2, <2>3, <2>7
<1> QED
  BY <1>1, <1>2

LEMMA PhrasesOnce ==
    ASSUME ClsInv, MatchPhrases
    PROVE  ClsInv'
<1> DEFINE M(h) == [start |-> h[1], end |-> h[2], discount |-> 10,
                    weights |-> WeightsOf(Phrases, PhraseKey(Phrases, TextOf(h)))]
<1>1. /\ stage = "phrases" /\ stage' = "terms" /\ matches' = {M(h) : h \in hits}
      /\ timed' = timed /\ blocked' = blocked /\ hits' = hits /\ blocked = timed
      /\ UNCHANGED <<question, scanVars>>
  BY DEF MatchPhrases, scanVars, ClsInv
<1>2. ScanInv'
  BY <1>1, ScanUntouched DEF ClsInv
<1>3. \A h \in hits : MatchSpan(M(h)) = Span(h)
  BY DEF MatchSpan, Span
<1>4. Taken' = Taken /\ \A h \in hits : Span(h) \subseteq Taken
  BY <1>1 DEF Taken, Span
<1>5. /\ \A g, h \in hits : g # h => Span(g) \cap Span(h) = {}
      /\ \A h \in hits : Span(h) \cap timed = {}
  BY <1>1 DEF ClsInv, ScanInv, HitsDisjoint
<1>6. \A m \in matches' : IsMatch(m) /\ MatchSpan(m) \subseteq Taken /\ MatchSpan(m) \cap timed = {}
  BY <1>1, <1>3, <1>4, <1>5 DEF IsMatch
<1>7. ASSUME NEW m \in matches', NEW o \in matches', m # o
      PROVE  MatchSpan(m) \cap MatchSpan(o) = {}
  <2>1. PICK g \in hits : m = M(g)
    BY <1>1
  <2>2. PICK h \in hits : o = M(h)
    BY <1>1
  <2>3. g # h
    BY <1>7, <2>1, <2>2
  <2> QED
    BY <1>3, <1>5, <2>1, <2>2, <2>3
<1>8. EvidenceCountedOnce'
  BY <1>1, <1>6, <1>7 DEF EvidenceCountedOnce, MatchSpan
<1> QED
  BY <1>1, <1>2, <1>4, <1>6, <1>8 DEF ClsInv, IsMatch, MatchSpan

LEMMA TermsOnce ==
    ASSUME ClsInv, MatchTerms
    PROVE  ClsInv'
<1>1. /\ stage = "terms" /\ stage' = "negation" /\ matches' = matches \cup TermMatches
      /\ timed' = timed /\ UNCHANGED <<question, scanVars>>
  BY DEF MatchTerms
<1>2. ScanInv'
  BY <1>1, ScanUntouched DEF ClsInv
<1> DEFINE M(n, key) == [start |-> n, end |-> n + 1, discount |-> 10,
                         weights |-> WeightsOf(Terms, key)]
<1>3. ASSUME NEW m \in TermMatches
      PROVE  \E n \in Unclaimed : \E key \in TermKeysFor(Terms, question[n]) : m = M(n, key)
  BY DEF TermMatches
<1>4. \A n \in Unclaimed : n \in Int /\ n \notin timed /\ n \notin Taken
  BY DEF Unclaimed
<1>5. ASSUME NEW n \in Unclaimed, NEW key PROVE MatchSpan(M(n, key)) = {n}
  BY <1>4 DEF MatchSpan
<1>6. \A m \in TermMatches : IsMatch(m) /\ MatchSpan(m) \cap (timed \cup Taken) = {}
  BY <1>3, <1>4, <1>5 DEF IsMatch
<1>7. \A m \in matches : IsMatch(m) /\ MatchSpan(m) \cap timed = {} /\ MatchSpan(m) \subseteq Taken
  BY <1>1 DEF ClsInv, EvidenceCountedOnce
<1>8. ASSUME NEW m \in TermMatches, NEW o \in TermMatches, m # o
      PROVE  MatchSpan(m) \cap MatchSpan(o) = {}
  <2>1. PICK n \in Unclaimed : \E key \in TermKeysFor(Terms, question[n]) : m = M(n, key)
    BY <1>3
  <2>2. PICK p \in Unclaimed : \E key \in TermKeysFor(Terms, question[p]) : o = M(p, key)
    BY <1>3
  <2>3. n # p
    BY <1>8, <2>1, <2>2, OneTermKey
  <2> QED
    BY <1>5, <2>1, <2>2, <2>3
<1>9. \A m, o \in matches' : m # o => MatchSpan(m) \cap MatchSpan(o) = {}
  BY <1>1, <1>6, <1>7, <1>8 DEF ClsInv, EvidenceCountedOnce
<1>10. EvidenceCountedOnce'
  BY <1>1, <1>6, <1>7, <1>9 DEF EvidenceCountedOnce, MatchSpan
<1> QED
  BY <1>1, <1>2, <1>6, <1>7, <1>10 DEF ClsInv, IsMatch

LEMMA NegationOnce ==
    ASSUME ClsInv, Negate
    PROVE  ClsInv'
<1> DEFINE D(m) == [m EXCEPT !.discount = IF Negated(m) THEN NegationDiscount ELSE @]
<1>1. /\ stage = "negation" /\ stage' = "deciding" /\ matches' = {D(m) : m \in matches}
      /\ timed' = timed /\ UNCHANGED <<question, scanVars>>
  BY DEF Negate
<1>2. ScanInv'
  BY <1>1, ScanUntouched DEF ClsInv
<1>3. \A m \in matches : IsMatch(D(m)) /\ MatchSpan(D(m)) = MatchSpan(m)
  BY DEF ClsInv, IsMatch, MatchSpan
<1>4. ASSUME NEW m \in matches', NEW o \in matches', m # o
      PROVE  MatchSpan(m) \cap MatchSpan(o) = {}
  <2>1. PICK g \in matches : m = D(g)
    BY <1>1
  <2>2. PICK h \in matches : o = D(h)
    BY <1>1
  <2>3. g # h
    BY <1>4, <2>1, <2>2
  <2> QED
    BY <1>3, <2>1, <2>2, <2>3 DEF ClsInv, EvidenceCountedOnce
<1>5. \A m \in matches' : IsMatch(m) /\ MatchSpan(m) \cap timed = {}
  BY <1>1, <1>3 DEF ClsInv, EvidenceCountedOnce
<1>6. EvidenceCountedOnce'
  BY <1>1, <1>4, <1>5 DEF EvidenceCountedOnce, MatchSpan
<1> QED
  BY <1>1, <1>2, <1>5, <1>6 DEF ClsInv, IsMatch

LEMMA ClsInvStep ==
    ASSUME ClsInv, [ClsNext]_clsVars
    PROVE  ClsInv'
<1>1. CASE Scanning
  <2>1. /\ UNCHANGED <<stage, timed, matches, question>> /\ stage # "terms"
        /\ blocked' = blocked
    BY <1>1 DEF Scanning, ScanStep, Claim, Skip
  <2>2. ScanInv'
    BY <1>1, ClaimKeeps, SkipKeeps DEF Scanning, ScanStep, ClsInv
  <2> QED
    BY <2>1, <2>2 DEF ClsInv, EvidenceCountedOnce, MatchSpan, IsMatch
<1>2. CASE ReadHorizon
  <2>1. /\ stage = "time" /\ stage' = "gate" /\ UNCHANGED <<question, matches>>
        /\ Begin({w \in Windows : Text(w) \in GateKeys}, {})
    BY <1>2 DEF ReadHorizon
  <2>2. ScanInv'
    <3>1. {w \in Windows : Text(w) \in GateKeys} \subseteq Windows /\ Len(question) \in Nat
      BY DEF ClsInv, ScanInv
    <3> QED
      BY <2>1, <3>1, ScanBegins
  <2> QED
    BY <2>1, <2>2 DEF ClsInv, EvidenceCountedOnce
<1>3. CASE Refuse
  <2>1. stage' = "decided" /\ UNCHANGED <<question, scanVars, timed, matches>>
    BY <1>3 DEF Refuse
  <2>2. ScanInv'
    BY <2>1, ScanUntouched DEF ClsInv
  <2> QED
    BY <2>1, <2>2 DEF ClsInv, EvidenceCountedOnce, MatchSpan, IsMatch
<1>4. CASE Accept
  <2>1. /\ stage = "gate" /\ stage' = "phrases" /\ UNCHANGED <<question, timed, matches>>
        /\ Begin({w \in Windows : PhraseKeysFor(Phrases, Text(w)) # {}}, timed)
    BY <1>4 DEF Accept
  <2>2. ScanInv' /\ blocked' = timed'
    <3>1. /\ {w \in Windows : PhraseKeysFor(Phrases, Text(w)) # {}} \subseteq Windows
          /\ Len(question) \in Nat
      BY DEF ClsInv, ScanInv
    <3> QED
      BY <2>1, <3>1, ScanBegins DEF Begin
  <2> QED
    BY <2>1, <2>2 DEF ClsInv, EvidenceCountedOnce
<1>5. CASE MatchPhrases
  BY <1>5, PhrasesOnce
<1>6. CASE MatchTerms
  BY <1>6, TermsOnce
<1>7. CASE Negate
  BY <1>7, NegationOnce
<1>8. CASE Decide
  <2>1. stage' \in {"decided", "crashed"} /\ UNCHANGED <<question, scanVars, timed, matches>>
    BY <1>8 DEF Decide
  <2>2. ScanInv'
    BY <2>1, ScanUntouched DEF ClsInv
  <2> QED
    BY <2>1, <2>2 DEF ClsInv, EvidenceCountedOnce, MatchSpan, IsMatch
<1>9. CASE UNCHANGED clsVars
  <2>1. UNCHANGED <<question, scanVars, stage, timed, matches>>
    BY <1>9 DEF clsVars
  <2>2. ScanInv'
    BY <2>1, ScanUntouched DEF ClsInv
  <2> QED
    BY <2>1, <2>2 DEF ClsInv, EvidenceCountedOnce, MatchSpan, IsMatch, scanVars, Taken, Span
<1> QED
  BY <1>1, <1>2, <1>3, <1>4, <1>5, <1>6, <1>7, <1>8, <1>9 DEF ClsNext

LEMMA ClsStarts == ClsInit => ClsInv
<1> SUFFICES ASSUME ClsInit PROVE ClsInv
  OBVIOUS
<1>1. /\ Len(question) \in Nat /\ table \subseteq Windows /\ pos = 1 /\ hits = {}
      /\ stage = "time" /\ matches = {}
  BY ClassifierAssumption DEF ClsInit
<1>2. HitsDisjoint /\ LeftmostLongest
  <2>1. \A w \in table : ~(w[1] < 1)
    BY <1>1 DEF Windows
  <2> QED
    BY <1>1, <2>1 DEF HitsDisjoint, LeftmostLongest
<1> QED
  BY <1>1, <1>2 DEF ClsInv, ScanInv, EvidenceCountedOnce

LEMMA ClsInvariant == ClsSpec => []ClsInv
<1>1. ClsInv /\ [ClsNext]_clsVars => ClsInv'
  BY ClsInvStep
<1> QED
  BY <1>1, ClsStarts, PTL DEF ClsSpec

\* Every scan of every question claims the leftmost and longest phrasing that is
\* still free, whatever the phrasings are (scan_longest).
THEOREM LeftmostLongestTheorem == ClsSpec => []LeftmostLongest
<1>1. ClsInv => LeftmostLongest
  BY DEF ClsInv, ScanInv
<1> QED
  BY ClsInvariant, <1>1, PTL

\* No token of any question is counted twice, under any lexicon in which a word
\* has no two stems of one length.
THEOREM CountedOnceTheorem == ClsSpec => []EvidenceCountedOnce
<1>1. ClsInv => EvidenceCountedOnce
  BY DEF ClsInv
<1> QED
  BY ClsInvariant, <1>1, PTL

-----------------------------------------------------------------------------
(* What a hit and an entry say.                                             *)

IsSequence(q) == q \in Seq({q[n] : n \in DOMAIN q})

\* A hit is a window of the question whose tokens resolve to a key.
LEMMA HitIsWindow ==
    ASSUME ScanInv, IsSequence(question), NEW h \in hits
    PROVE  /\ h[1] \in 1 .. Len(question) /\ h[2] \in 2 .. Len(question) + 1 /\ h[1] < h[2]
           /\ h = <<h[1], h[2]>>
           /\ <<h[1], h[2] - h[1]>> \in table
           /\ <<h[1], h[2] - h[1]>> \in Windows
           /\ Text(<<h[1], h[2] - h[1]>>) = TextOf(h)
<1>1. /\ h[1] \in Int /\ h[2] \in Int /\ h = <<h[1], h[2]>> /\ Len(question) \in Nat
      /\ <<h[1], h[2] - h[1]>> \in table
  BY DEF ScanInv, HitsDisjoint
<1>2. <<h[1], h[2] - h[1]>> \in Windows
  BY <1>1 DEF ScanInv
<1>3. /\ h[1] \in 1 .. Len(question) /\ h[2] - h[1] \in 1 .. Len(question)
      /\ h[1] + (h[2] - h[1]) - 1 <= Len(question)
  BY <1>2 DEF Windows
<1>4. h[2] \in 2 .. Len(question) + 1 /\ h[1] < h[2] /\ h[1] + (h[2] - h[1]) - 1 = h[2] - 1
  BY <1>1, <1>3
<1>5. Text(<<h[1], h[2] - h[1]>>) = TextOf(h)
  BY <1>4 DEF Text, TextOf
<1> QED
  BY <1>1, <1>2, <1>3, <1>4, <1>5

LEMMA HitsFinite ==
    ASSUME ScanInv, IsSequence(question)
    PROVE  IsFiniteSet(hits)
<1> DEFINE A == 1 .. Len(question)
           B == 2 .. Len(question) + 1
<1>1. Len(question) \in Int
  BY DEF ScanInv
<1>2. IsFiniteSet(A) /\ IsFiniteSet(B)
  <2>1. Len(question) + 1 \in Int /\ 1 \in Int /\ 2 \in Int
    BY <1>1
  <2> QED
    BY <1>1, <2>1, FS_Interval
<1>3. hits \subseteq A \X B
  <2>1. \A h \in hits : h[1] \in A /\ h[2] \in B /\ h = <<h[1], h[2]>>
    BY HitIsWindow
  <2> HIDE DEF A, B
  <2> QED
    BY <2>1
<1> HIDE DEF A, B
<1>4. IsFiniteSet(A \X B)
  BY <1>2, FS_Product
<1> QED
  BY <1>3, <1>4, FS_Subset

\* The weights of a key are those of single entries; none is for general.
LEMMA WeightsConfigured ==
    ASSUME NEW entries \in {Terms, Phrases}, NEW key
    PROVE  LET weights == WeightsOf(entries, key)
           IN  /\ weights \in [Intents -> Nat] /\ weights[General] = 0
               /\ \A x \in Intents : weights[x] > 0 =>
                     \E n \in DOMAIN entries : /\ entries[n].key = key /\ entries[n].intent = x
                                               /\ entries[n].weight = weights[x]
<1> DEFINE weights  == WeightsOf(entries, key)
           under(x) == WeightsUnder(entries, key, x)
<1>1. /\ Len(entries) \in Nat /\ DOMAIN entries = 1 .. Len(entries)
      /\ \A n \in DOMAIN entries : /\ entries[n].intent \in Intents \ {General}
                                   /\ entries[n].weight \in Nat \ {0}
  BY ClassifierAssumption
<1>2. ASSUME NEW x \in Intents
      PROVE  /\ under(x) \in SUBSET Nat /\ IsFiniteSet({0} \cup under(x))
             /\ \A v \in under(x) : \E n \in DOMAIN entries :
                   entries[n].key = key /\ entries[n].intent = x /\ entries[n].weight = v
  <2> DEFINE places == {m \in DOMAIN entries : entries[m].key = key /\ entries[m].intent = x}
             weight == [n \in places |-> entries[n].weight]
  <2>1. under(x) = {weight[n] : n \in places}
    BY DEF WeightsUnder
  <2>2. IsFiniteSet(places)
    <3>1. IsFiniteSet(1 .. Len(entries))
      BY <1>1, FS_Interval
    <3>2. places \subseteq 1 .. Len(entries)
      BY <1>1
    <3> HIDE DEF places
    <3> QED
      BY <3>1, <3>2, FS_Subset
  <2>3. IsFiniteSet(under(x))
    <3> HIDE DEF places, weight, under
    <3> QED
      BY <2>1, <2>2, FiniteImage
  <2>4. IsFiniteSet({0} \cup under(x))
    <3>1. IsFiniteSet({0})
      BY FS_Singleton
    <3> QED
      BY <2>3, <3>1, FS_Union
  <2>5. under(x) \in SUBSET Nat
    BY <1>1 DEF WeightsUnder
  <2> QED
    BY <2>4, <2>5 DEF WeightsUnder
<1>3. ASSUME NEW x \in Intents
      PROVE  weights[x] \in Nat /\ weights[x] \in {0} \cup under(x)
  <2> DEFINE S == {0} \cup under(x)
  <2>1. S \in SUBSET Int /\ S \in SUBSET Nat /\ S # {} /\ IsFiniteSet(S)
    BY <1>2
  <2>2. weights[x] = Max(S)
    BY DEF WeightsOf
  <2> HIDE DEF S, weights
  <2>3. weights[x] \in S
    BY <2>1, <2>2, GreatestNumber
  <2>4. weights[x] \in Nat
    BY <2>1, <2>3
  <2> QED
    BY <2>3, <2>4 DEF S
<1>4. weights = [x \in Intents |-> weights[x]]
  BY DEF WeightsOf
<1> HIDE DEF weights, under
<1>5. weights \in [Intents -> Nat]
  BY <1>3, <1>4
<1>6. \A x \in Intents : weights[x] > 0 =>
          \E n \in DOMAIN entries : /\ entries[n].key = key /\ entries[n].intent = x
                                    /\ entries[n].weight = weights[x]
  <2>1. \A x \in Intents : weights[x] > 0 => weights[x] \in under(x)
    BY <1>3
  <2> QED
    BY <1>2, <2>1
<1>7. weights[General] = 0
  <2>1. General \in Intents
    BY LexiconAssumption
  <2>2. ~(weights[General] > 0)
    BY <1>1, <1>6, <2>1
  <2> QED
    BY <1>3, <2>1, <2>2
<1> QED
  BY <1>5, <1>6, <1>7 DEF weights

\* The key that a window resolves to is one whose patterns cover it.
LEMMA PhraseKeyFits ==
    ASSUME NEW window, PhraseKeysFor(Phrases, window) # {}
    PROVE  PhraseKey(Phrases, window) \in PhraseKeysFor(Phrases, window)
<1> DEFINE fits    == PhraseKeysFor(Phrases, window)
           literal == [n \in DOMAIN window |-> Word(window[n])]
           places  == {n \in DOMAIN Phrases : Phrases[n].key \in fits}
<1>1. places \in SUBSET Nat
  <2>1. DOMAIN Phrases = 1 .. Len(Phrases) /\ Len(Phrases) \in Nat
    BY ClassifierAssumption
  <2> QED
    BY <2>1
<1>2. places # {}
  BY DEF PhraseKeysFor, KeysOf
<1>3. Min(places) \in places
  <2> HIDE DEF places
  <2> QED
    BY <1>1, <1>2, LeastNumber
<1>4. Phrases[Min(places)].key \in fits
  BY <1>3
<1>5. PhraseKey(Phrases, window) = IF literal \in fits THEN literal ELSE Phrases[Min(places)].key
  BY DEF PhraseKey
<1> HIDE DEF fits, literal, places
<1>6. PhraseKey(Phrases, window) \in fits
  BY <1>4, <1>5
<1> QED
  BY <1>6 DEF fits

\* The term that a token resolves to covers that token.
LEMMA TermKeyFits ==
    ASSUME NEW w, NEW key \in TermKeysFor(Terms, w)
    PROVE  key \in KeysOf(Terms) /\ KeyMatches(key, <<w>>)
<1>1. CASE <<Word(w)>> \in KeysOf(Terms)
  <2>1. key = <<Word(w)>>
    BY <1>1 DEF TermKeysFor
  <2>2. Len(key) = 1 /\ Len(<<w>>) = 1 /\ DOMAIN key = {1}
    BY <2>1
  <2>3. PatternMatches(key[1], w)
    BY <2>1 DEF PatternMatches, Word
  <2> QED
    BY <1>1, <2>1, <2>2, <2>3 DEF KeyMatches
<1>2. CASE <<Word(w)>> \notin KeysOf(Terms)
  <2>1. key \in KeysOf(Terms) /\ key[1].stem /\ PatternMatches(key[1], w)
    BY <1>2 DEF TermKeysFor
  <2>2. key = <<Stem(key[1].text)>>
    BY <2>1, ClassifierAssumption DEF Word
  <2>3. \E s : key = <<s>>
    BY <2>2
  <2>4. Len(key) = 1 /\ Len(<<w>>) = 1 /\ DOMAIN key = {1}
    BY <2>3
  <2> QED
    BY <2>1, <2>4 DEF KeyMatches
<1> QED
  BY <1>1, <1>2

-----------------------------------------------------------------------------
(* Scores and their order.                                                  *)

\* What is known of a match: where it is, that its weights are the config's and
\* that at most one discount was applied.
Covered(m, x) ==
    \E entries \in {Terms, Phrases} : \E n \in DOMAIN entries :
        /\ entries[n].intent = x /\ entries[n].weight = m.weights[x]
        /\ KeyMatches(entries[n].key, TextOf(<<m.start, m.end>>))
GoodMatch(m) ==
    /\ m.start \in 1 .. Len(question) /\ m.end \in 2 .. Len(question) + 1 /\ m.start < m.end
    /\ m.discount \in {10, NegationDiscount}
    /\ m.weights \in [Intents -> Nat] /\ m.weights[General] = 0
    /\ \A x \in Intents : m.weights[x] > 0 => Covered(m, x)
GoodMatches ==
    /\ Len(question) \in Nat
    /\ EvidenceCountedOnce
    /\ \A m \in matches : GoodMatch(m)

\* Matches are disjoint, so there are no more of them than tokens.
LEMMA MatchesFinite ==
    ASSUME GoodMatches
    PROVE  IsFiniteSet(matches)
<1> DEFINE start == [m \in matches |-> m.start]
           A == 1 .. Len(question)
<1>1. \A m \in matches : m.start \in A /\ m.start \in MatchSpan(m)
  BY DEF GoodMatches, GoodMatch, MatchSpan
<1>2. \A m, o \in matches : start[m] = start[o] => m = o
  BY <1>1 DEF GoodMatches, EvidenceCountedOnce
<1>3. start \in [matches -> A]
  BY <1>1
<1>4. IsFiniteSet(A)
  BY FS_Interval DEF GoodMatches
<1> HIDE DEF start, A
<1>5. start \in Injection(matches, A)
  BY <1>2, <1>3 DEF Injection, IsInjective
<1> QED
  BY <1>4, <1>5, FS_Injection

LEMMA ScoreSum ==
    ASSUME GoodMatches, NEW x \in Intents
    PROVE  /\ Score(x) \in Nat
           /\ \A m \in matches : m.weights[x] \in Nat /\ m.discount \in Nat
           /\ \A m \in matches : m.weights[x] * m.discount <= Score(x)
<1> DEFINE f == [m \in matches |-> m.weights[x] * m.discount]
<1>1. \A m \in matches : m.weights[x] \in Nat /\ m.discount \in Nat
  BY ClassifierAssumption DEF GoodMatches, GoodMatch
<1>2. \A m \in matches : f[m] \in Nat
  BY <1>1
<1>3. Score(x) = SumFunctionOnSet(f, matches)
  BY DEF Score, SumFunction
<1>4. IsFiniteSet(matches)
  BY MatchesFinite
<1>5. \A m \in matches : f[m] = m.weights[x] * m.discount
  OBVIOUS
<1> HIDE DEF f
<1>6. Score(x) \in Nat
  BY <1>2, <1>3, <1>4, SumNumber
<1>7. \A m \in matches : f[m] <= Score(x)
  <2> SUFFICES ASSUME NEW m \in matches PROVE f[m] <= Score(x)
    OBVIOUS
  <2>1. SumFunctionOnSet(f, matches) >= f[m]
    BY <1>2, <1>4, SumAtLeast
  <2> QED
    BY <1>2, <1>3, <1>6, <2>1
<1> QED
  BY <1>1, <1>5, <1>6, <1>7

\* Every non-empty set of topics has a best one.
LEMMA BestExists ==
    ASSUME GoodMatches, NEW S \in SUBSET Topics, S # {}
    PROVE  Best(S) \in S /\ \A y \in S : RanksBefore(Best(S), y)
<1> DEFINE R == {p \in S \X S : RanksBefore(p[1], p[2])}
<1>1. \A x \in S : Score(x) \in Nat
  BY ScoreSum DEF Topics
<1>2. \A x \in S : Position(x) \in Int
  <2>1. \A x \in S : x \in {IntentOrder[n] : n \in DOMAIN IntentOrder}
    BY ClassifierAssumption DEF Topics
  <2>2. DOMAIN IntentOrder \subseteq Int
    BY ClassifierAssumption
  <2> QED
    BY <2>1, <2>2 DEF Position
<1>3. \A x, y \in S : <<x, y>> \in R <=> RanksBefore(x, y)
  OBVIOUS
<1>4. \A x, y \in S : RanksBefore(x, y) \/ RanksBefore(y, x)
  BY <1>1, <1>2 DEF RanksBefore
<1>5. \A x, y, z \in S : RanksBefore(x, y) /\ RanksBefore(y, z) => RanksBefore(x, z)
  <2> SUFFICES ASSUME NEW x \in S, NEW y \in S, NEW z \in S,
                      RanksBefore(x, y), RanksBefore(y, z)
               PROVE  RanksBefore(x, z)
    OBVIOUS
  <2>1. /\ Score(x) \in Nat /\ Score(y) \in Nat /\ Score(z) \in Nat
        /\ Position(x) \in Int /\ Position(y) \in Int /\ Position(z) \in Int
    BY <1>1, <1>2
  <2> QED
    BY <2>1 DEF RanksBefore
<1>6. IsFiniteSet(S)
  BY LexiconAssumption, FS_Subset DEF Topics
<1> HIDE DEF R
<1>7. \E x \in S : \A y \in S : <<x, y>> \in R
  <2>1. \A x, y \in S : <<x, y>> \in R \/ <<y, x>> \in R
    BY <1>3, <1>4
  <2>2. \A x, y, z \in S : <<x, y>> \in R /\ <<y, z>> \in R => <<x, z>> \in R
    BY <1>3, <1>5
  <2> QED
    BY <1>6, <2>1, <2>2, FirstOf
<1>8. \E x \in S : \A y \in S : RanksBefore(x, y)
  BY <1>3, <1>7
<1> QED
  BY <1>8 DEF Best

-----------------------------------------------------------------------------
(* The extractors.                                                          *)

TablesKnown ==
    /\ stage = "time" =>
          table = {w \in Windows : Text(w) \in DOMAIN TimePatterns} /\ blocked = {}
    /\ stage = "phrases" =>
          table = {w \in Windows : PhraseKeysFor(Phrases, Text(w)) # {}}

EvidenceInv ==
    /\ ClsInv
    /\ IsSequence(question)
    /\ ClsTypeOK
    /\ TablesKnown
    /\ \A m \in matches : GoodMatch(m)
    /\ stage # "time" => MostSpecific(scope)
    /\ stage = "decided" => verdict.scope = scope

\* The longest hit is the most specific phrasing: what is longer and was passed
\* over is cut by a hit that starts before it.
LEMMA HorizonRead ==
    ASSUME EvidenceInv, stage = "time", ScanOver
    PROVE  MostSpecific(Horizon(hits))
<1> DEFINE mentioned == {w \in Windows : Text(w) \in DOMAIN TimePatterns}
           Cut(o) == \E e \in mentioned : e[1] < o[1] /\ o[1] < e[1] + e[2]
           window(h) == <<h[1], h[2] - h[1]>>
<1>1. table = mentioned /\ blocked = {}
  BY DEF EvidenceInv, TablesKnown
<1>2. /\ ScanInv /\ IsSequence(question) /\ Len(question) \in Nat /\ pos \in Int
      /\ pos > Len(question)
  BY DEF EvidenceInv, ClsInv, ScanInv, ScanOver
<1>3. \A h \in hits : /\ h[1] \in Int /\ h[2] \in Int /\ h[1] < h[2]
                      /\ window(h) \in mentioned /\ Text(window(h)) = TextOf(h)
  <2> SUFFICES ASSUME NEW h \in hits
               PROVE  /\ h[1] \in Int /\ h[2] \in Int /\ h[1] < h[2]
                      /\ window(h) \in mentioned /\ Text(window(h)) = TextOf(h)
    OBVIOUS
  <2>1. /\ h[1] \in 1 .. Len(question) /\ h[2] \in 2 .. Len(question) + 1 /\ h[1] < h[2]
        /\ window(h) \in table /\ Text(window(h)) = TextOf(h)
    BY <1>2, HitIsWindow
  <2> HIDE DEF mentioned, window
  <2> QED
    BY <1>1, <1>2, <2>1
<1>4. \A o \in mentioned : o[1] \in Int /\ o[2] \in Int /\ o[1] < pos
  BY <1>2 DEF Windows
<1> HIDE DEF mentioned
<1>5. \A o \in mentioned : \E h \in hits : /\ h[1] <= o[1] /\ o[1] < h[2]
                                           /\ h[1] = o[1] => h[2] >= o[1] + o[2]
  BY <1>1, <1>2, <1>4 DEF ScanInv, LeftmostLongest
<1>6. CASE mentioned = {}
  <2>1. hits = {}
    BY <1>3, <1>6
  <2> QED
    BY <1>6, <2>1 DEF MostSpecific, Horizon, mentioned
<1>7. CASE mentioned # {}
  <2> DEFINE best == CHOOSE g \in hits : \A o \in hits : Specific(g, o)
             R == {p \in hits \X hits : Specific(p[1], p[2])}
  <2>1. hits # {}
    BY <1>5, <1>7
  <2>2. IsFiniteSet(hits)
    BY <1>2, HitsFinite
  <2>3. \A g, h \in hits : <<g, h>> \in R <=> Specific(g, h)
    OBVIOUS
  <2>4. \A g, h \in hits : Specific(g, h) \/ Specific(h, g)
    <3> SUFFICES ASSUME NEW g \in hits, NEW h \in hits
                 PROVE  Specific(g, h) \/ Specific(h, g)
      OBVIOUS
    <3>1. g[1] \in Int /\ g[2] \in Int /\ h[1] \in Int /\ h[2] \in Int
      BY <1>3
    <3> QED
      BY <3>1 DEF Specific
  <2>5. \A f, g, h \in hits : Specific(f, g) /\ Specific(g, h) => Specific(f, h)
    <3> SUFFICES ASSUME NEW f \in hits, NEW g \in hits, NEW h \in hits,
                        Specific(f, g), Specific(g, h)
                 PROVE  Specific(f, h)
      OBVIOUS
    <3>1. /\ f[1] \in Int /\ f[2] \in Int /\ g[1] \in Int /\ g[2] \in Int
          /\ h[1] \in Int /\ h[2] \in Int
      BY <1>3
    <3> QED
      BY <3>1 DEF Specific
  <2>6. \E g \in hits : \A h \in hits : Specific(g, h)
    <3> HIDE DEF R
    <3>1. \A g, h \in hits : <<g, h>> \in R \/ <<h, g>> \in R
      BY <2>3, <2>4
    <3>2. \A f, g, h \in hits : <<f, g>> \in R /\ <<g, h>> \in R => <<f, h>> \in R
      BY <2>3, <2>5
    <3>3. \E g \in hits : \A h \in hits : <<g, h>> \in R
      BY <2>1, <2>2, <3>1, <3>2, FirstOf
    <3> QED
      BY <2>3, <3>3
  <2>7. best \in hits /\ \A h \in hits : Specific(best, h)
    BY <2>6
  <2>8. Horizon(hits) = TimePatterns[TextOf(best)]
    BY <2>1 DEF Horizon
  <2> HIDE DEF best
  <2>9. /\ window(best) \in mentioned
        /\ Horizon(hits) = TimePatterns[Text(window(best))]
    BY <1>3, <2>7, <2>8
  <2>10. ASSUME NEW o \in mentioned
         PROVE  \/ Cut(o)
                \/ o[2] < window(best)[2]
                \/ o[2] = window(best)[2] /\ window(best)[1] <= o[1]
    <3>1. PICK h \in hits : /\ h[1] <= o[1] /\ o[1] < h[2]
                            /\ h[1] = o[1] => h[2] >= o[1] + o[2]
      BY <1>5
    <3>2. h[1] \in Int /\ h[2] \in Int /\ o[1] \in Int /\ o[2] \in Int
      BY <1>3, <1>4
    <3>3. CASE h[1] < o[1]
      <4>1. /\ window(h) \in mentioned /\ window(h)[1] = h[1] /\ window(h)[2] = h[2] - h[1]
        BY <1>3
      <4>2. h[1] + (h[2] - h[1]) = h[2]
        BY <3>2
      <4> QED
        BY <3>1, <3>3, <4>1, <4>2
    <3>4. CASE h[1] = o[1]
      <4>1. Specific(best, h) /\ best[1] \in Int /\ best[2] \in Int
        BY <1>3, <2>7
      <4>2. h[2] >= o[1] + o[2]
        BY <3>1, <3>4
      <4>3. o[2] < best[2] - best[1] \/ (o[2] = best[2] - best[1] /\ best[1] <= o[1])
        BY <3>2, <3>4, <4>1, <4>2 DEF Specific
      <4> QED
        BY <4>3
    <3> QED
      BY <3>1, <3>2, <3>3, <3>4
  <2> HIDE DEF window
  <2>11. \E w \in mentioned :
             /\ Horizon(hits) = TimePatterns[Text(w)]
             /\ \A o \in mentioned :
                   Cut(o) \/ o[2] < w[2] \/ (o[2] = w[2] /\ w[1] <= o[1])
    BY <2>9, <2>10
  <2> QED
    BY <1>7, <2>11 DEF MostSpecific, mentioned
<1> QED
  BY <1>6, <1>7

\* The parts of the type that only the control decides.
ControlOK ==
    /\ stage \in {"time", "gate", "phrases", "terms", "negation", "deciding",
                  "decided", "crashed"}
    /\ blocked \subseteq 1 .. Len(question) /\ timed \subseteq 1 .. Len(question)
    /\ verdict.top \in Intents \cup {None} /\ verdict.second \in Topics \cup {None}
    /\ verdict.top # None <=> stage = "decided"

AllGood == \A m \in matches : GoodMatch(m)

LEMMA TypesFollow == ScanInv /\ IsSequence(question) /\ ControlOK /\ AllGood => ClsTypeOK
<1> SUFFICES ASSUME ScanInv, IsSequence(question), ControlOK, AllGood
             PROVE  ClsTypeOK
  OBVIOUS
<1>1. hits \subseteq (1 .. Len(question)) \X (2 .. Len(question) + 1)
  <2>1. \A h \in hits : /\ h[1] \in 1 .. Len(question) /\ h[2] \in 2 .. Len(question) + 1
                        /\ h = <<h[1], h[2]>>
    BY HitIsWindow
  <2> QED
    BY <2>1
<1>2. \A m \in matches : MatchSpan(m) # {} /\ MatchSpan(m) \subseteq 1 .. Len(question)
  <2> SUFFICES ASSUME NEW m \in matches
               PROVE  MatchSpan(m) # {} /\ MatchSpan(m) \subseteq 1 .. Len(question)
    OBVIOUS
  <2>1. /\ m.start \in 1 .. Len(question) /\ m.end \in 2 .. Len(question) + 1
        /\ m.start < m.end /\ Len(question) \in Nat
    BY DEF AllGood, GoodMatch, ScanInv
  <2>2. m.start \in MatchSpan(m)
    BY <2>1 DEF MatchSpan
  <2> QED
    BY <2>1, <2>2 DEF MatchSpan
<1> QED
  BY <1>1, <1>2 DEF ClsTypeOK, ControlOK, ScanInv

\* What a step of the same question preserves.
LEMMA SameQuestion ==
    ASSUME question' = question
    PROVE  /\ Windows' = Windows
           /\ \A w : Text(w)' = Text(w)
           /\ \A h : TextOf(h)' = TextOf(h)
           /\ \A s : MostSpecific(s) => MostSpecific(s)'
           /\ \A m : GoodMatch(m) => GoodMatch(m)'
           /\ IsSequence(question) => IsSequence(question)'
<1>1. Windows' = Windows
  BY DEF Windows
<1>2. /\ \A w : Text(w)' = Text(w)
      /\ \A h : TextOf(h)' = TextOf(h)
  BY DEF Text, TextOf
<1>3. \A s : MostSpecific(s) => MostSpecific(s)'
  BY DEF MostSpecific, Windows, Text
<1>4. ASSUME NEW m, GoodMatch(m) PROVE GoodMatch(m)'
  BY <1>4 DEF GoodMatch, Covered, TextOf
<1>5. IsSequence(question) => IsSequence(question)'
  BY DEF IsSequence
<1> QED
  BY <1>1, <1>2, <1>3, <1>4, <1>5

LEMMA PhrasesConfigured ==
    ASSUME EvidenceInv, MatchPhrases
    PROVE  \A m \in matches' : GoodMatch(m)
<1> DEFINE K(h) == PhraseKey(Phrases, TextOf(h))
           M(h) == [start |-> h[1], end |-> h[2], discount |-> 10,
                    weights |-> WeightsOf(Phrases, K(h))]
<1>1. matches' = {M(h) : h \in hits}
  BY DEF MatchPhrases
<1>2. ASSUME NEW h \in hits PROVE GoodMatch(M(h))
  <2>1. stage = "phrases" /\ ScanInv /\ IsSequence(question)
    BY DEF MatchPhrases, EvidenceInv, ClsInv
  <2>2. table = {w \in Windows : PhraseKeysFor(Phrases, Text(w)) # {}}
    BY <2>1 DEF EvidenceInv, TablesKnown
  <2>3. /\ h[1] \in 1 .. Len(question) /\ h[2] \in 2 .. Len(question) + 1 /\ h[1] < h[2]
        /\ h = <<h[1], h[2]>>
        /\ <<h[1], h[2] - h[1]>> \in table
        /\ Text(<<h[1], h[2] - h[1]>>) = TextOf(h)
    BY <2>1, HitIsWindow
  <2>4. PhraseKeysFor(Phrases, TextOf(h)) # {}
    BY <2>2, <2>3
  <2>5. K(h) \in PhraseKeysFor(Phrases, TextOf(h))
    BY <2>4, PhraseKeyFits
  <2>6. KeyMatches(K(h), TextOf(h))
    BY <2>5 DEF PhraseKeysFor
  <2> HIDE DEF K
  <2> DEFINE weights == WeightsOf(Phrases, K(h))
  <2>7. /\ weights \in [Intents -> Nat] /\ weights[General] = 0
        /\ \A x \in Intents : weights[x] > 0 =>
              \E n \in DOMAIN Phrases : /\ Phrases[n].key = K(h) /\ Phrases[n].intent = x
                                        /\ Phrases[n].weight = weights[x]
    BY WeightsConfigured
  <2> HIDE DEF weights
  <2>8. M(h) = [start |-> h[1], end |-> h[2], discount |-> 10, weights |-> weights]
    BY DEF weights
  <2>9. TextOf(<<h[1], h[2]>>) = TextOf(h)
    BY <2>3
  <2>10. \A x \in Intents : weights[x] > 0 => Covered(M(h), x)
    <3> SUFFICES ASSUME NEW x \in Intents, weights[x] > 0 PROVE Covered(M(h), x)
      OBVIOUS
    <3>1. PICK n \in DOMAIN Phrases : /\ Phrases[n].key = K(h) /\ Phrases[n].intent = x
                                      /\ Phrases[n].weight = weights[x]
      BY <2>7
    <3>2. /\ M(h).weights = weights /\ M(h).start = h[1] /\ M(h).end = h[2]
      BY <2>8
    <3> HIDE DEF M
    <3> QED
      BY <2>6, <2>9, <3>1, <3>2 DEF Covered
  <2>11. /\ M(h).weights = weights /\ M(h).start = h[1] /\ M(h).end = h[2] /\ M(h).discount = 10
    BY <2>8
  <2> HIDE DEF M
  <2> QED
    BY <2>3, <2>7, <2>10, <2>11 DEF GoodMatch
<1> QED
  BY <1>1, <1>2

LEMMA TermsConfigured ==
    ASSUME EvidenceInv, NEW m \in TermMatches
    PROVE  GoodMatch(m)
<1>1. PICK n \in Unclaimed : \E key \in TermKeysFor(Terms, question[n]) :
          m = [start |-> n, end |-> n + 1, discount |-> 10, weights |-> WeightsOf(Terms, key)]
  BY DEF TermMatches
<1>2. PICK key \in TermKeysFor(Terms, question[n]) :
          m = [start |-> n, end |-> n + 1, discount |-> 10, weights |-> WeightsOf(Terms, key)]
  BY <1>1
<1>3. n \in 1 .. Len(question) /\ Len(question) \in Nat /\ IsSequence(question)
  BY DEF Unclaimed, EvidenceInv, ClsInv, ScanInv
<1>4. key \in KeysOf(Terms) /\ KeyMatches(key, <<question[n]>>)
  BY TermKeyFits
<1>5. TextOf(<<n, n + 1>>) = <<question[n]>>
  <2>1. PICK h : h = <<n, n + 1>>
    OBVIOUS
  <2>2. TextOf(h) = SubSeq(question, n, n)
    <3>1. h[1] = n /\ h[2] = n + 1
      BY <2>1
    <3>2. h[2] - 1 = n
      BY <1>3, <3>1
    <3> QED
      BY <3>1, <3>2, Zenon DEF TextOf
  <2> QED
    BY <1>3, <2>1, <2>2 DEF IsSequence
<1> DEFINE weights == WeightsOf(Terms, key)
<1>6. /\ weights \in [Intents -> Nat] /\ weights[General] = 0
      /\ \A x \in Intents : weights[x] > 0 =>
            \E j \in DOMAIN Terms : /\ Terms[j].key = key /\ Terms[j].intent = x
                                    /\ Terms[j].weight = weights[x]
  BY WeightsConfigured
<1> HIDE DEF weights
<1>7. m.start = n /\ m.end = n + 1 /\ m.discount = 10 /\ m.weights = weights
  BY <1>2 DEF weights
<1>8. \A x \in Intents : weights[x] > 0 => Covered(m, x)
  BY <1>4, <1>5, <1>6, <1>7 DEF Covered
<1> QED
  BY <1>3, <1>6, <1>7, <1>8 DEF GoodMatch

LEMMA NegationConfigured ==
    ASSUME EvidenceInv, Negate
    PROVE  \A m \in matches' : GoodMatch(m)
<1> DEFINE D(m) == [m EXCEPT !.discount = IF Negated(m) THEN NegationDiscount ELSE @]
<1>1. matches' = {D(m) : m \in matches}
  BY DEF Negate
<1>2. ASSUME NEW m \in matches PROVE GoodMatch(D(m))
  <2>1. IsMatch(m) /\ GoodMatch(m)
    BY DEF EvidenceInv, ClsInv
  <2>2. /\ D(m).start = m.start /\ D(m).end = m.end /\ D(m).weights = m.weights
        /\ D(m).discount \in {m.discount, NegationDiscount}
    BY <2>1 DEF IsMatch
  <2> HIDE DEF D
  <2>3. \A x \in Intents : Covered(m, x) => Covered(D(m), x)
    BY <2>2 DEF Covered
  <2> QED
    BY <2>1, <2>2, <2>3 DEF GoodMatch
<1> QED
  BY <1>1, <1>2

-----------------------------------------------------------------------------
(* The decision.                                                            *)

\* The four ways in which _decide can go.
LEMMA DecideCases ==
    ASSUME GoodMatches, Decide
    PROVE  \/ /\ AbsoluteEvidence < MinEvidence
              /\ verdict' = Generic /\ stage' = "decided"
           \/ /\ ~(AbsoluteEvidence < MinEvidence) /\ Missing
              /\ verdict' = verdict /\ stage' = "crashed"
           \/ \E top \in Ranked :
                 /\ ~(AbsoluteEvidence < MinEvidence)
                 /\ \A y \in Ranked : RanksBefore(top, y)
                 /\ stage' = "decided"
                 /\ \/ Dominates(top) /\ verdict' = Confident(top)
                    \/ /\ ~Dominates(top)
                       /\ \E second \in Ranked \ {top} :
                             /\ second = Best(Ranked \ {top})
                             /\ \A y \in Ranked \ {top} : RanksBefore(second, y)
                             /\ verdict' = Merged(top, second)
<1>1. CASE AbsoluteEvidence < MinEvidence
  BY <1>1 DEF Decide
<1>2. CASE ~(AbsoluteEvidence < MinEvidence) /\ Missing
  BY <1>2 DEF Decide
<1>3. CASE ~(AbsoluteEvidence < MinEvidence) /\ ~Missing
  <2>1. Ranked # {} /\ Ranked \in SUBSET Topics
    BY <1>3 DEF Missing, Ranked
  <2>2. Best(Ranked) \in Ranked /\ \A y \in Ranked : RanksBefore(Best(Ranked), y)
    BY <2>1, BestExists
  <2>3. PICK top \in Ranked : top = Best(Ranked) /\ \A y \in Ranked : RanksBefore(top, y)
    BY <2>2
  <2>4. /\ stage' = "decided"
        /\ verdict' = IF Dominates(top) THEN Confident(top)
                      ELSE Merged(top, Best(Ranked \ {top}))
    BY <1>3, <2>3 DEF Decide
  <2>5. CASE Dominates(top)
    BY <1>3, <2>3, <2>4, <2>5
  <2>6. CASE ~Dominates(top)
    <3>1. Ranked \ {top} # {} /\ Ranked \ {top} \in SUBSET Topics
      BY <1>3, <2>1, <2>3, <2>6 DEF Missing
    <3>2. /\ Best(Ranked \ {top}) \in Ranked \ {top}
          /\ \A y \in Ranked \ {top} : RanksBefore(Best(Ranked \ {top}), y)
      BY <3>1, BestExists
    <3>3. verdict' = Merged(top, Best(Ranked \ {top}))
      BY <2>4, <2>6
    <3> QED
      BY <1>3, <2>3, <2>4, <2>6, <3>2, <3>3
  <2> QED
    BY <2>5, <2>6
<1> QED
  BY <1>1, <1>2, <1>3

LEMMA GoodNow == EvidenceInv => GoodMatches
BY DEF EvidenceInv, GoodMatches, ClsInv, ScanInv

LEMMA DecideTypes ==
    ASSUME EvidenceInv, Decide
    PROVE  ControlOK' /\ (stage' = "decided" => verdict'.scope = scope')
<1>1. /\ stage = "deciding" /\ UNCHANGED <<question, blocked, scope, timed, matches>>
  BY DEF Decide, scanVars
<1>2. /\ blocked \subseteq 1 .. Len(question) /\ timed \subseteq 1 .. Len(question)
      /\ verdict.top \in Intents \cup {None} /\ verdict.second \in Topics \cup {None}
      /\ verdict.top = None
  BY <1>1 DEF EvidenceInv, ClsTypeOK
<1>3. Ranked \subseteq Topics /\ Topics \subseteq Intents /\ General \in Intents /\ None \notin Intents
  BY LexiconAssumption, ClassifierAssumption DEF Ranked, Topics
<1>4. \/ verdict' = Generic /\ stage' = "decided"
      \/ verdict' = verdict /\ stage' = "crashed"
      \/ /\ stage' = "decided"
         /\ \E top \in Ranked : \/ verdict' = Confident(top)
                                \/ \E second \in Ranked : verdict' = Merged(top, second)
  BY GoodNow, DecideCases
<1>5. CASE verdict' = Generic /\ stage' = "decided"
  BY <1>1, <1>2, <1>3, <1>5 DEF ControlOK, Generic, NoVerdict, Topics
<1>6. CASE verdict' = verdict /\ stage' = "crashed"
  BY <1>1, <1>2, <1>6 DEF ControlOK, Topics
<1>7. CASE stage' = "decided" /\ \E top \in Ranked : verdict' = Confident(top)
  BY <1>1, <1>2, <1>3, <1>7 DEF ControlOK, Confident, NoVerdict, Topics
<1>8. CASE stage' = "decided" /\ \E top, second \in Ranked : verdict' = Merged(top, second)
  BY <1>1, <1>2, <1>3, <1>8 DEF ControlOK, Merged, Topics
<1> QED
  BY <1>4, <1>5, <1>6, <1>7, <1>8

LEMMA EvidenceStep ==
    ASSUME EvidenceInv, [ClsNext]_clsVars
    PROVE  EvidenceInv'
<1> USE DEF EvidenceInv
<1>1. question' = question
  BY DEF ClsNext, clsVars, Scanning, ScanStep, ReadHorizon, Refuse, Accept, MatchPhrases,
         MatchTerms, Negate, Decide
<1>2. ClsInv' /\ ScanInv'
  <2>1. ClsInv'
    BY ClsInvStep
  <2> QED
    BY <2>1 DEF ClsInv
<1>3. /\ Windows' = Windows /\ \A w : Text(w)' = Text(w)
      /\ \A s : MostSpecific(s) => MostSpecific(s)'
      /\ \A m : GoodMatch(m) => GoodMatch(m)'
      /\ IsSequence(question)'
  BY <1>1, SameQuestion
\* A step has to show what it does to the control, the tables, the matches and
\* the scope.
<1> DEFINE Scoped == /\ stage' # "time" => \E s : s = scope' /\ MostSpecific(s)
                     /\ stage' = "decided" => verdict'.scope = scope'
           Good == \A m \in matches' : GoodMatch(m)
<1>4. ASSUME ControlOK', TablesKnown', Good, Scoped
      PROVE  EvidenceInv'
  <2>1. \A m \in matches' : GoodMatch(m)'
    BY <1>3, <1>4
  <2>2. ClsTypeOK'
    <3>1. AllGood'
      BY <2>1 DEF AllGood
    <3> QED
      BY <1>2, <1>3, <1>4, <3>1, TypesFollow, PTL
  <2>3. (stage # "time" => MostSpecific(scope))'
    <3> SUFFICES ASSUME stage' # "time" PROVE MostSpecific(scope)'
      OBVIOUS
    <3>1. PICK s : s = scope' /\ MostSpecific(s)
      BY <1>4
    <3>2. MostSpecific(s)'
      BY <1>3, <3>1
    <3> QED
      BY <3>1, <3>2 DEF MostSpecific
  <2> QED
    BY <1>2, <1>3, <1>4, <2>1, <2>2, <2>3
<1>5. CASE Scanning
  <2>1. /\ UNCHANGED <<stage, scope, timed, matches, verdict, table, blocked>>
    BY <1>5 DEF Scanning, ScanStep, Claim, Skip
  <2>2. ControlOK' /\ Good /\ Scoped
    BY <1>1, <2>1 DEF ControlOK, ClsTypeOK
  <2>3. TablesKnown'
    BY <1>3, <2>1 DEF TablesKnown
  <2> QED
    BY <1>4, <2>2, <2>3
<1>6. CASE ReadHorizon
  <2>1. /\ stage = "time" /\ stage' = "gate" /\ ScanOver
        /\ scope' = Horizon(hits) /\ timed' = Taken /\ blocked' = {}
        /\ UNCHANGED <<matches, verdict>>
    BY <1>6 DEF ReadHorizon, Begin
  <2>2. Taken \subseteq 1 .. Len(question)
    <3>1. \A h \in hits : /\ h[1] \in 1 .. Len(question) /\ h[2] \in 2 .. Len(question) + 1
      BY HitIsWindow DEF ClsInv
    <3>2. Len(question) \in Nat
      BY DEF ClsInv, ScanInv
    <3> QED
      BY <3>1, <3>2 DEF Taken, Span
  <2>3. MostSpecific(Horizon(hits))
    BY <2>1, HorizonRead
  <2>4. ControlOK' /\ TablesKnown'
    BY <1>1, <2>1, <2>2 DEF ControlOK, TablesKnown, ClsTypeOK
  <2>5. Good /\ Scoped
    BY <2>1, <2>3
  <2> QED
    BY <1>4, <2>4, <2>5
<1>7. CASE Refuse
  <2>1. /\ stage = "gate" /\ stage' = "decided"
        /\ verdict' = [NoVerdict EXCEPT !.reason = "OUT_OF_DOMAIN", !.top = General,
                                        !.scope = scope]
        /\ UNCHANGED <<blocked, scope, timed, matches>>
    BY <1>7 DEF Refuse, scanVars
  <2>2. verdict'.top = General /\ verdict'.second = None /\ verdict'.scope = scope
    BY <2>1 DEF NoVerdict
  <2>3. General \in Intents /\ None \notin Intents
    BY LexiconAssumption, ClassifierAssumption
  <2>4. ControlOK' /\ TablesKnown'
    BY <1>1, <2>1, <2>2, <2>3 DEF ControlOK, TablesKnown, ClsTypeOK, Topics
  <2>5. Good /\ Scoped
    BY <2>1, <2>2
  <2> QED
    BY <1>4, <2>4, <2>5
<1>8. CASE Accept
  <2>1. /\ stage = "gate" /\ stage' = "phrases" /\ UNCHANGED <<scope, timed, matches, verdict>>
        /\ table' = {w \in Windows : PhraseKeysFor(Phrases, Text(w)) # {}} /\ blocked' = timed
    BY <1>8 DEF Accept, Begin
  <2>2. ControlOK' /\ Good /\ Scoped
    BY <1>1, <2>1 DEF ControlOK, ClsTypeOK
  <2>3. TablesKnown'
    BY <1>3, <2>1 DEF TablesKnown
  <2> QED
    BY <1>4, <2>2, <2>3
<1>9. CASE MatchPhrases
  <2>1. /\ stage = "phrases" /\ stage' = "terms" /\ UNCHANGED <<blocked, scope, timed, verdict>>
    BY <1>9 DEF MatchPhrases, scanVars
  <2>2. Good
    BY <1>9, PhrasesConfigured
  <2>3. ControlOK' /\ TablesKnown' /\ Scoped
    BY <1>1, <2>1 DEF ControlOK, TablesKnown, ClsTypeOK
  <2> QED
    BY <1>4, <2>2, <2>3
<1>10. CASE MatchTerms
  <2>1. /\ stage = "terms" /\ stage' = "negation" /\ UNCHANGED <<blocked, scope, timed, verdict>>
        /\ matches' = matches \cup TermMatches
    BY <1>10 DEF MatchTerms, scanVars
  <2>2. Good
    BY <2>1, TermsConfigured
  <2>3. ControlOK' /\ TablesKnown' /\ Scoped
    BY <1>1, <2>1 DEF ControlOK, TablesKnown, ClsTypeOK
  <2> QED
    BY <1>4, <2>2, <2>3
<1>11. CASE Negate
  <2>1. /\ stage = "negation" /\ stage' = "deciding"
        /\ UNCHANGED <<blocked, scope, timed, verdict>>
    BY <1>11 DEF Negate, scanVars
  <2>2. Good
    BY <1>11, NegationConfigured
  <2>3. ControlOK' /\ TablesKnown' /\ Scoped
    BY <1>1, <2>1 DEF ControlOK, TablesKnown, ClsTypeOK
  <2> QED
    BY <1>4, <2>2, <2>3
<1>12. CASE Decide
  <2>1. /\ stage = "deciding" /\ stage' \in {"decided", "crashed"}
        /\ UNCHANGED <<scope, matches>>
    BY <1>12 DEF Decide
  <2>2. ControlOK' /\ (stage' = "decided" => verdict'.scope = scope')
    BY <1>12, DecideTypes
  <2>3. TablesKnown' /\ Good /\ Scoped
    BY <2>1, <2>2 DEF TablesKnown
  <2> QED
    BY <1>4, <2>2, <2>3
<1>13. CASE UNCHANGED clsVars
  <2>1. UNCHANGED <<stage, scope, timed, matches, verdict, table, blocked>>
    BY <1>13 DEF clsVars, scanVars
  <2>2. ControlOK' /\ Good /\ Scoped
    BY <1>1, <2>1 DEF ControlOK, ClsTypeOK
  <2>3. TablesKnown'
    BY <1>3, <2>1 DEF TablesKnown
  <2> QED
    BY <1>4, <2>2, <2>3
<1> HIDE DEF EvidenceInv
<1> QED
  BY <1>5, <1>6, <1>7, <1>8, <1>9, <1>10, <1>11, <1>12, <1>13 DEF ClsNext

-----------------------------------------------------------------------------
(* The verdict.                                                             *)

\* VerdictEarned, of a table of scores and a result.
Scores == [x \in Intents |-> Score(x)]
EarnedBy(s, v) ==
    CASE v.reason = "CONFIDENT_MATCH" ->
            /\ s[v.top] > 0 /\ v.second = None
            /\ \A y \in Topics \ {v.top} : 100 * s[v.top] >= Dominance * (s[v.top] + s[y])
      [] v.reason = "AMBIGUOUS_MERGED" ->
            /\ v.second # v.top
            /\ 0 < v.rival /\ v.rival <= v.lead
            /\ 100 * v.lead < Dominance * (v.lead + v.rival)
            /\ \A y \in Topics \ {v.top} : s[y] <= v.rival
      [] OTHER -> v.top = General /\ v.second = None

LEMMA EarnedFromScores ==
    EvidenceInv /\ (stage = "decided" => EarnedBy(Scores, verdict)) => VerdictEarned
<1> SUFFICES ASSUME EvidenceInv, stage = "decided", EarnedBy(Scores, verdict)
             PROVE  VerdictEarned
  BY DEF VerdictEarned
<1>1. \A x \in Intents : Scores[x] = Score(x)
  BY DEF Scores
<1>2. verdict.top \in Intents /\ Topics \subseteq Intents
  BY DEF EvidenceInv, ClsTypeOK, Topics
<1> QED
  BY <1>1, <1>2 DEF VerdictEarned, EarnedBy

\* A share that outweighs a rival outweighs every smaller one.
LEMMA ShareOfLess ==
    ASSUME NEW d \in Int, NEW s \in Nat, NEW a \in Nat, NEW b \in Nat, b <= a,
           100 * s >= d * (s + a)
    PROVE  100 * s >= d * (s + b)
<1>1. CASE d >= 0
  <2>1. d * (s + a) = d * (s + b) + d * (a - b)
    OBVIOUS
  <2>2. d * (a - b) >= 0
    BY <1>1
  <2>3. d * (s + b) \in Int /\ d * (a - b) \in Int
    OBVIOUS
  <2> QED
    BY <2>1, <2>2, <2>3
<1>2. CASE d < 0
  <2>1. d * (s + b) <= 0
    BY <1>2
  <2>2. d * (s + b) \in Int /\ 100 * s >= 0
    OBVIOUS
  <2> QED
    BY <2>1, <2>2
<1> QED
  BY <1>1, <1>2

\* The leader dominates each rival by dominating the best of them.
LEMMA ConfidentEarned ==
    ASSUME GoodMatches, NEW top \in Ranked, Dominates(top)
    PROVE  /\ Score(top) > 0
           /\ \A y \in Topics \ {top} :
                 100 * Score(top) >= Dominance * (Score(top) + Score(y))
<1> DEFINE rivals == Ranked \ {top}
           second == IF rivals = {} THEN 0 ELSE Score(Best(rivals))
<1>1. \A x \in Topics : Score(x) \in Nat
  BY ScoreSum DEF Topics
<1>2. top \in Topics /\ Score(top) > 0 /\ rivals \in SUBSET Topics
  BY DEF Ranked
<1>3. \A x \in Topics : x \notin Ranked => Score(x) = 0
  BY <1>1 DEF Ranked
<1>4. rivals # {} => Best(rivals) \in rivals /\ \A y \in rivals : RanksBefore(Best(rivals), y)
  <2> HIDE DEF rivals
  <2> QED
    BY <1>2, BestExists
<1>5. second \in Nat /\ \A y \in Topics \ {top} : Score(y) <= second
  <2>1. CASE rivals = {}
    BY <1>1, <1>3, <2>1
  <2>2. CASE rivals # {}
    <3>1. PICK b \in rivals : b = Best(rivals) /\ \A y \in rivals : RanksBefore(b, y)
      BY <1>4, <2>2
    <3>2. second = Score(b) /\ Score(b) \in Nat
      BY <1>1, <1>2, <2>2, <3>1
    <3>3. ASSUME NEW y \in Topics \ {top} PROVE Score(y) <= Score(b)
      <4>1. CASE y \in rivals
        BY <1>1, <1>2, <3>1, <3>2, <4>1 DEF RanksBefore
      <4>2. CASE y \notin rivals
        BY <1>3, <3>2, <4>2
      <4> QED
        BY <4>1, <4>2
    <3> QED
      BY <3>2, <3>3
  <2> QED
    BY <2>1, <2>2
<1>6. 100 * Score(top) >= Dominance * (Score(top) + second)
  BY DEF Dominates
<1> HIDE DEF second
<1>7. Dominance \in Int
  BY ClassifierAssumption
<1> QED
  BY <1>1, <1>2, <1>5, <1>6, <1>7, ShareOfLess

\* A merge is of the two best, of which the first does not dominate the second.
LEMMA MergeEarned ==
    ASSUME GoodMatches, NEW top \in Ranked, NEW second \in Ranked \ {top},
           ~Dominates(top), second = Best(Ranked \ {top}),
           \A y \in Ranked : RanksBefore(top, y),
           \A y \in Ranked \ {top} : RanksBefore(second, y)
    PROVE  /\ 0 < Score(second) /\ Score(second) <= Score(top)
           /\ 100 * Score(top) < Dominance * (Score(top) + Score(second))
           /\ \A y \in Topics \ {top} : Score(y) <= Score(second)
<1>1. \A x \in Topics : Score(x) \in Nat
  BY ScoreSum DEF Topics
<1>2. top \in Topics /\ second \in Topics /\ Score(second) > 0
  BY DEF Ranked
<1>3. \A x \in Topics : x \notin Ranked => Score(x) = 0
  BY <1>1 DEF Ranked
<1>4. Score(second) <= Score(top)
  BY <1>1, <1>2 DEF RanksBefore
<1>5. ~(100 * Score(top) >= Dominance * (Score(top) + Score(second)))
  <2>1. Ranked \ {top} # {}
    OBVIOUS
  <2> QED
    BY <2>1 DEF Dominates
<1>6. ASSUME NEW y \in Topics \ {top} PROVE Score(y) <= Score(second)
  <2>1. CASE y \in Ranked
    BY <1>1, <1>2, <2>1 DEF RanksBefore
  <2>2. CASE y \notin Ranked
    BY <1>1, <1>2, <1>3, <2>2
  <2> QED
    BY <2>1, <2>2
<1>7. 100 * Score(top) < Dominance * (Score(top) + Score(second))
  <2>1. Dominance \in Int /\ Score(top) \in Int /\ Score(second) \in Int
    BY <1>1, <1>2, ClassifierAssumption
  <2> DEFINE l == 100 * Score(top)
             r == Dominance * (Score(top) + Score(second))
  <2>2. l \in Int /\ r \in Int
    BY <2>1
  <2>3. ~(l >= r)
    BY <1>5
  <2> HIDE DEF l, r
  <2>4. l < r
    BY <2>2, <2>3
  <2> QED
    BY <2>4 DEF l, r
<1> QED
  BY <1>1, <1>2, <1>4, <1>6, <1>7

LEMMA EarnedStep ==
    ASSUME EvidenceInv, stage = "decided" => EarnedBy(Scores, verdict), [ClsNext]_clsVars
    PROVE  stage' = "decided" => EarnedBy(Scores, verdict)'
<1> SUFFICES ASSUME stage' = "decided" PROVE EarnedBy(Scores, verdict)'
  OBVIOUS
<1>1. CASE Refuse
  <2>1. /\ verdict'.reason = "OUT_OF_DOMAIN" /\ verdict'.top = General /\ verdict'.second = None
    BY <1>1 DEF Refuse, NoVerdict
  <2> QED
    BY <2>1 DEF EarnedBy
<1>2. CASE Decide
  <2>1. Scores' = Scores
    BY <1>2 DEF Decide, Scores, Score
  <2>2. GoodMatches
    BY GoodNow
  <2>3. Ranked \subseteq Topics /\ Topics \subseteq Intents
    BY DEF Ranked, Topics
  <2>4. \A x \in Intents : Scores[x] = Score(x)
    BY DEF Scores
  <2>5. CASE verdict' = Generic
    <3>1. /\ verdict'.reason = "NO_EVIDENCE_DEFAULT" /\ verdict'.top = General
          /\ verdict'.second = None
      BY <2>5 DEF Generic, NoVerdict
    <3> QED
      BY <3>1 DEF EarnedBy
  <2>6. ASSUME NEW top \in Ranked, Dominates(top), verdict' = Confident(top)
        PROVE  EarnedBy(Scores, verdict)'
    <3>1. verdict'.reason = "CONFIDENT_MATCH" /\ verdict'.top = top /\ verdict'.second = None
      BY <2>6 DEF Confident, NoVerdict
    <3>2. /\ Score(top) > 0
          /\ \A y \in Topics \ {top} :
                100 * Score(top) >= Dominance * (Score(top) + Score(y))
      BY <2>2, <2>6, ConfidentEarned
    <3>3. /\ Scores[top] > 0
          /\ \A y \in Topics \ {top} :
                100 * Scores[top] >= Dominance * (Scores[top] + Scores[y])
      BY <2>3, <2>4, <3>2
    <3> QED
      BY <2>1, <3>1, <3>3 DEF EarnedBy
  <2>7. ASSUME NEW top \in Ranked, NEW second \in Ranked \ {top},
               ~Dominates(top), second = Best(Ranked \ {top}),
               \A y \in Ranked : RanksBefore(top, y),
               \A y \in Ranked \ {top} : RanksBefore(second, y),
               verdict' = Merged(top, second)
        PROVE  EarnedBy(Scores, verdict)'
    <3>1. /\ verdict'.reason = "AMBIGUOUS_MERGED" /\ verdict'.top = top
          /\ verdict'.second = second
          /\ verdict'.lead = Score(top) /\ verdict'.rival = Score(second)
      BY <2>7 DEF Merged
    <3>2. /\ 0 < Score(second) /\ Score(second) <= Score(top)
          /\ 100 * Score(top) < Dominance * (Score(top) + Score(second))
          /\ \A y \in Topics \ {top} : Score(y) <= Score(second)
      BY <2>2, <2>7, MergeEarned
    <3>3. \A y \in Topics \ {top} : Scores[y] <= Score(second)
      BY <2>3, <2>4, <3>2
    <3> QED
      BY <2>1, <3>1, <3>2, <3>3 DEF EarnedBy
  <2> QED
    BY <1>2, <2>2, <2>5, <2>6, <2>7, DecideCases
<1>3. CASE UNCHANGED clsVars
  <2>1. stage = "decided" /\ verdict' = verdict /\ matches' = matches
    BY <1>3 DEF clsVars
  <2>2. Scores' = Scores
    BY <2>1 DEF Scores, Score
  <2> QED
    BY <2>1, <2>2 DEF EarnedBy
<1>4. CASE Scanning \/ ReadHorizon \/ Accept \/ MatchPhrases \/ MatchTerms \/ Negate
  <2>1. stage' # "decided"
    BY <1>4 DEF Scanning, ReadHorizon, Accept, MatchPhrases, MatchTerms, Negate
  <2> QED
    BY <2>1
<1> QED
  BY <1>1, <1>2, <1>3, <1>4 DEF ClsNext

\* When every match is about one topic, the evidence is the weight of that topic.
LEMMA OneTopicEvidence ==
    ASSUME GoodMatches, NEW x \in Topics,
           \A m \in matches : \A y \in Intents \ {x} : m.weights[y] = 0
    PROVE  /\ AbsoluteEvidence \in Nat
           /\ AbsoluteEvidence = SumFunction([m \in matches |-> m.weights[x]])
           /\ Ranked \subseteq {x}
<1> DEFINE peaks   == [m \in matches |-> Peak(m)]
           weights == [m \in matches |-> m.weights[x]]
<1>1. IsFiniteSet(matches) /\ x \in Intents
  BY MatchesFinite DEF Topics
<1>2. ASSUME NEW m \in matches PROVE m.weights[x] \in Nat /\ Peak(m) = m.weights[x]
  <2> DEFINE S == {m.weights[y] : y \in Intents}
  <2>1. m.weights \in [Intents -> Nat]
    BY DEF GoodMatches, GoodMatch
  <2>2. IsFiniteSet(S)
    BY LexiconAssumption, FiniteImage
  <2>3. S \in SUBSET Int /\ m.weights[x] \in S /\ m.weights[x] \in Nat
    BY <1>1, <2>1
  <2>4. \A v \in S : v = m.weights[x] \/ v = 0
    <3>1. \A y \in Intents : y # x => m.weights[y] = 0
      OBVIOUS
    <3> QED
      BY <3>1
  <2>5. Peak(m) = Max(S)
    BY DEF Peak
  <2> HIDE DEF S
  <2>6. Max(S) \in S /\ m.weights[x] <= Max(S)
    BY <2>2, <2>3, GreatestNumber
  <2>7. Max(S) = m.weights[x]
    <3>1. CASE Max(S) = 0
      BY <2>3, <2>6, <3>1
    <3> QED
      BY <2>4, <2>6, <3>1
  <2> QED
    BY <2>3, <2>5, <2>7
<1>3. AbsoluteEvidence = SumFunctionOnSet(peaks, matches)
  BY DEF AbsoluteEvidence, SumFunction
<1>4. SumFunction(weights) = SumFunctionOnSet(weights, matches)
  BY DEF SumFunction
<1>5. \A m \in matches : peaks[m] = weights[m] /\ peaks[m] \in Nat
  BY <1>2
<1>6. Ranked \subseteq {x}
  <2> SUFFICES ASSUME NEW y \in Topics, y # x PROVE ~(Score(y) > 0)
    BY DEF Ranked
  <2> DEFINE f == [m \in matches |-> m.weights[y] * m.discount]
  <2>1. \A m \in matches : m.weights[y] = 0 /\ m.discount \in Nat
    <3>1. y \in Intents \ {x}
      BY DEF Topics
    <3> QED
      BY <3>1, ScoreSum
  <2>2. \A m \in matches : f[m] = 0
    BY <2>1
  <2>3. Score(y) = SumFunctionOnSet(f, matches)
    BY DEF Score, SumFunction
  <2> HIDE DEF f
  <2>4. Score(y) = 0
    BY <1>1, <2>2, <2>3, SumOfZeros
  <2> QED
    BY <2>4
<1>7. AbsoluteEvidence \in Nat /\ AbsoluteEvidence = SumFunction(weights)
  <2> HIDE DEF peaks, weights
  <2>1. SumFunctionOnSet(peaks, matches) = SumFunctionOnSet(weights, matches)
    BY <1>1, <1>5, SumEqual
  <2>2. SumFunctionOnSet(peaks, matches) \in Nat
    BY <1>1, <1>5, SumNumber
  <2> QED
    BY <1>3, <1>4, <2>1, <2>2
<1> QED
  BY <1>6, <1>7

LEMMA OnlyTopicStep ==
    ASSUME EvidenceInv, OnlyTopicIsAnswered, [ClsNext]_clsVars
    PROVE  OnlyTopicIsAnswered'
<1>1. CASE Refuse
  <2>1. verdict'.reason = "OUT_OF_DOMAIN"
    BY <1>1 DEF Refuse, NoVerdict
  <2> QED
    BY <2>1 DEF OnlyTopicIsAnswered
<1>2. CASE Decide
  <2>1. matches' = matches
    BY <1>2 DEF Decide
  <2> SUFFICES ASSUME NEW x \in Topics, stage' = "decided",
                      \A m \in matches : \A y \in Intents \ {x} : m.weights[y] = 0,
                      SumFunction([m \in matches |-> m.weights[x]]) >= MinEvidence
               PROVE  verdict'.top = x /\ verdict'.reason = "CONFIDENT_MATCH"
    BY <2>1 DEF OnlyTopicIsAnswered, Topics
  <2>2. GoodMatches
    BY GoodNow
  <2>3. /\ AbsoluteEvidence \in Nat
        /\ AbsoluteEvidence = SumFunction([m \in matches |-> m.weights[x]])
        /\ Ranked \subseteq {x}
    BY <2>2, OneTopicEvidence
  <2>4. ~(AbsoluteEvidence < MinEvidence)
    <3>1. AbsoluteEvidence >= MinEvidence /\ MinEvidence \in Int
      BY <2>3, ClassifierAssumption
    <3> QED
      BY <2>3, <3>1
  <2>5. \E top \in Ranked : \/ verdict' = Confident(top)
                            \/ \E second \in Ranked \ {top} : TRUE
    BY <1>2, <2>2, <2>4, DecideCases
  <2>6. verdict' = Confident(x)
    BY <2>3, <2>5
  <2> QED
    BY <2>6 DEF Confident, NoVerdict
<1>3. CASE UNCHANGED clsVars
  BY <1>3 DEF clsVars, OnlyTopicIsAnswered
<1>4. CASE Scanning \/ ReadHorizon \/ Accept \/ MatchPhrases \/ MatchTerms \/ Negate
  <2>1. stage' # "decided"
    <3>1. stage # "decided" \/ ~Scanning
      BY DEF Scanning
    <3> QED
      BY <1>4, <3>1 DEF Scanning, ReadHorizon, Accept, MatchPhrases, MatchTerms, Negate
  <2> QED
    BY <2>1 DEF OnlyTopicIsAnswered
<1> QED
  BY <1>1, <1>2, <1>3, <1>4 DEF ClsNext

\* With thresholds that are sane, evidence enough means that some topic scores,
\* and a topic without a rival dominates.
LEMMA NeverMissing ==
    ASSUME GoodMatches, ThresholdsSane, ~(AbsoluteEvidence < MinEvidence)
    PROVE  ~Missing
<1> DEFINE peaks == [m \in matches |-> Peak(m)]
<1>1. IsFiniteSet(matches) /\ MinEvidence \in Int /\ NegationDiscount \in Nat /\ Dominance \in Int
  BY MatchesFinite, ClassifierAssumption
<1>2. AbsoluteEvidence = SumFunctionOnSet(peaks, matches)
  BY DEF AbsoluteEvidence, SumFunction
<1>3. PICK m \in matches : Peak(m) # 0
  <2> SUFFICES ASSUME \A m \in matches : Peak(m) = 0 PROVE FALSE
    OBVIOUS
  <2>1. \A m \in matches : peaks[m] = 0
    OBVIOUS
  <2> HIDE DEF peaks
  <2>2. AbsoluteEvidence = 0
    BY <1>1, <1>2, <2>1, SumOfZeros
  <2> QED
    BY <1>1, <2>2 DEF ThresholdsSane
<1>4. PICK x \in Intents : m.weights[x] # 0
  <2> DEFINE S == {m.weights[y] : y \in Intents}
  <2>1. m.weights \in [Intents -> Nat] /\ General \in Intents
    BY LexiconAssumption DEF GoodMatches, GoodMatch
  <2>2. IsFiniteSet(S) /\ S \in SUBSET Int /\ S # {}
    BY <2>1, LexiconAssumption, FiniteImage
  <2>3. Max(S) \in S
    <3> HIDE DEF S
    <3> QED
      BY <2>2, GreatestNumber
  <2> QED
    BY <1>3, <2>3 DEF Peak
<1>5. /\ m.weights[x] \in Nat /\ m.discount \in {10, NegationDiscount} /\ x \in Topics
  BY <1>4 DEF GoodMatches, GoodMatch, Topics
<1>6. m.weights[x] * m.discount <= Score(x) /\ Score(x) \in Nat
  BY ScoreSum
<1>7. m.weights[x] * m.discount > 0
  <2>1. m.weights[x] > 0 /\ m.discount > 0 /\ m.discount \in Nat
    BY <1>1, <1>4, <1>5 DEF ThresholdsSane
  <2> QED
    BY <1>5, <2>1
<1>8. m.weights[x] * m.discount \in Nat
  BY <1>1, <1>5
<1>9. x \in Ranked
  BY <1>5, <1>6, <1>7, <1>8 DEF Ranked
<1>10. Best(Ranked) \in Ranked
  BY <1>9, BestExists DEF Ranked
<1>11. ASSUME NEW top \in Ranked, Ranked \ {top} = {} PROVE Dominates(top)
  <2>1. Score(top) \in Nat
    BY ScoreSum DEF Ranked, Topics
  <2>2. 100 * Score(top) >= Dominance * (Score(top) + 0)
    <3>1. (100 - Dominance) * Score(top) >= 0
      BY <1>1, <2>1 DEF ThresholdsSane
    <3>2. (100 - Dominance) * Score(top) = 100 * Score(top) - Dominance * Score(top)
      BY <1>1, <2>1
    <3>3. Dominance * Score(top) \in Int
      BY <1>1, <2>1
    <3> QED
      BY <2>1, <3>1, <3>2, <3>3
  <2> QED
    BY <1>11, <2>2 DEF Dominates
<1> QED
  BY <1>9, <1>10, <1>11 DEF Missing

LEMMA ReturnsStep ==
    ASSUME EvidenceInv, ThresholdsSane, ClassifyReturns, [ClsNext]_clsVars
    PROVE  ClassifyReturns'
<1>1. CASE Decide
  <2>1. stage' \in {"decided", "crashed"} /\ GoodMatches
    BY <1>1, GoodNow DEF Decide
  <2>2. stage' # "crashed"
    BY <1>1, <2>1, DecideCases, NeverMissing
  <2> QED
    BY <2>2 DEF ClassifyReturns
<1>2. CASE ~Decide
  BY <1>2 DEF ClassifyReturns, ClsNext, clsVars, Scanning, ReadHorizon, Refuse, Accept,
              MatchPhrases, MatchTerms, Negate
<1> QED
  BY <1>1, <1>2

-----------------------------------------------------------------------------
(* The theorems.                                                            *)

LEMMA EvidenceInit == ClsInit => EvidenceInv
<1> SUFFICES ASSUME ClsInit PROVE EvidenceInv
  OBVIOUS
<1>1. ClsInv
  BY ClsStarts
<1>2. /\ question \in Questions /\ stage = "time"
      /\ table = {w \in Windows : Text(w) \in DOMAIN TimePatterns}
      /\ blocked = {} /\ timed = {} /\ matches = {} /\ verdict = NoVerdict
  BY DEF ClsInit
<1>3. IsSequence(question)
  BY <1>2, ClassifierAssumption DEF IsSequence
<1>4. ControlOK
  BY <1>2 DEF ControlOK, NoVerdict
<1>5. AllGood
  BY <1>2 DEF AllGood
<1>6. ClsTypeOK
  BY <1>1, <1>3, <1>4, <1>5, TypesFollow DEF ClsInv
<1> QED
  BY <1>1, <1>2, <1>3, <1>5, <1>6 DEF EvidenceInv, TablesKnown, AllGood

LEMMA EvidenceInvariant == ClsSpec => []EvidenceInv
<1>1. EvidenceInv /\ [ClsNext]_clsVars => EvidenceInv'
  BY EvidenceStep
<1> QED
  BY <1>1, EvidenceInit, PTL DEF ClsSpec

\* Classification keeps its types: the parts of the result are known exactly at
\* the stages at which the code has computed them (classify).
THEOREM ClsTypeTheorem == ClsSpec => []ClsTypeOK
<1>1. EvidenceInv => ClsTypeOK
  BY DEF EvidenceInv
<1> QED
  BY <1>1, EvidenceInvariant, PTL

\* No match says more of an intent than one entry of the config that covers its
\* tokens, for every lexicon (compile_lexicons, phrase_signal, lexicon_signal).
THEOREM EvidenceTheorem == ClsSpec => []EvidenceIsConfigured
<1>1. EvidenceInv => EvidenceIsConfigured
  BY DEF EvidenceInv, EvidenceIsConfigured, GoodMatch, Covered
<1> QED
  BY <1>1, EvidenceInvariant, PTL

\* Whatever the horizons of the config and the question, the verdict's is the
\* most specific that the scan could see (time_scope_signal).
THEOREM HorizonTheorem == ClsSpec => []HorizonIsMostSpecific
<1>1. EvidenceInv => HorizonIsMostSpecific
  BY DEF EvidenceInv, HorizonIsMostSpecific
<1> QED
  BY <1>1, EvidenceInvariant, PTL

\* Negation never takes the only topic of a question away, for every lexicon,
\* cue, window, discount and threshold (_decide).
THEOREM OnlyTopicTheorem == ClsSpec => []OnlyTopicIsAnswered
<1>1. ClsInit => OnlyTopicIsAnswered
  BY DEF ClsInit, OnlyTopicIsAnswered
<1>2. EvidenceInv /\ OnlyTopicIsAnswered /\ [ClsNext]_clsVars => OnlyTopicIsAnswered'
  BY OnlyTopicStep
<1> QED
  BY <1>1, <1>2, EvidenceInvariant, PTL DEF ClsSpec

\* A verdict is earned against each rival, for every lexicon and threshold.
THEOREM VerdictTheorem == ClsSpec => []VerdictEarned
<1> DEFINE Earned == stage = "decided" => EarnedBy(Scores, verdict)
<1>1. ClsInit => Earned
  BY DEF ClsInit
<1>2. EvidenceInv /\ Earned /\ [ClsNext]_clsVars => Earned'
  BY EarnedStep
<1>3. EvidenceInv /\ Earned => VerdictEarned
  BY EarnedFromScores
<1> HIDE DEF Earned
<1> QED
  BY <1>1, <1>2, <1>3, EvidenceInvariant, PTL DEF ClsSpec

\* Under thresholds that leave a topic its score and a lone topic its dominance,
\* no question makes classify index a list that is too short (_decide).
THEOREM ReturnsTheorem ==
    ASSUME ThresholdsSane
    PROVE  ClsSpec => []ClassifyReturns
<1>1. ClsInit => ClassifyReturns
  BY DEF ClsInit, ClassifyReturns
<1>2. EvidenceInv /\ ClassifyReturns /\ [ClsNext]_clsVars => ClassifyReturns'
  BY ReturnsStep
<1> QED
  BY <1>1, <1>2, EvidenceInvariant, PTL DEF ClsSpec
=============================================================================
