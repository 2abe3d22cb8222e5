-------------------------------- MODULE Scan --------------------------------
(***************************************************************************)
(* scan_longest of app/classifier/signals.py: the leftmost-longest scan    *)
(* over the tokens of a question that the time scope, the domain gate and  *)
(* the phrases share.  One step is one round of its while loop.            *)
(*                                                                         *)
(* A window is <<i, n>>: the n tokens from position i on.  `table' holds   *)
(* the windows whose tokens resolve to a key; which key is the business of *)
(* the caller.  A hit is <<start, end>>, the end exclusive.                *)
(***************************************************************************)
EXTENDS Integers, Sequences

VARIABLES
    question, \* the tokens
    table,    \* the windows that resolve to a key
    blocked,  \* positions consumed by an earlier extractor
    pos,      \* i
    hits      \* the hits so far

scanVars == <<table, blocked, pos, hits>>

Span(h)  == h[1] .. h[2] - 1
Taken    == UNION {Span(h) : h \in hits}
ScanOver == pos > Len(question)

\* The scan starts afresh with another table.
Begin(windows, consumed) ==
    /\ table' = windows
    /\ blocked' = consumed
    /\ pos' = 1
    /\ hits' = {}

\* The lengths that match at the current position and touch no position that
\* is spoken for.
Lengths ==
    {n \in 1 .. Len(question) + 1 - pos :
        <<pos, n>> \in table /\ (pos .. pos + n - 1) \cap (blocked \cup Taken) = {}}

\* Mutant of Claim: the shortest match wins.
ClaimShortest ==
    /\ ~ScanOver
    /\ \E n \in Lengths :
          /\ \A m \in Lengths : m >= n
          /\ hits' = hits \cup {<<pos, pos + n>>}
          /\ pos' = pos + n
    /\ UNCHANGED <<table, blocked>>

\* Mutant of Claim: the scan goes on one token too far.
ClaimOvershooting ==
    /\ ~ScanOver
    /\ \E n \in Lengths :
          /\ \A m \in Lengths : m <= n
          /\ hits' = hits \cup {<<pos, pos + n>>}
          /\ pos' = pos + n + 1
    /\ UNCHANGED <<table, blocked>>

\* The longest match is taken, and the scan goes on behind it.
Claim ==
    /\ ~ScanOver
    /\ \E n \in Lengths :
          /\ \A m \in Lengths : m <= n
          /\ hits' = hits \cup {<<pos, pos + n>>}
          /\ pos' = pos + n
    /\ UNCHANGED <<table, blocked>>

\* Mutant of Skip: a blocked token is not stepped over.
SkipStuck ==
    /\ ~ScanOver
    /\ Lengths = {}
    /\ pos' = IF pos \in blocked THEN pos ELSE pos + 1
    /\ UNCHANGED <<table, blocked, hits>>

Skip ==
    /\ ~ScanOver
    /\ Lengths = {}
    /\ pos' = pos + 1
    /\ UNCHANGED <<table, blocked, hits>>

ScanStep == (Claim \/ Skip) /\ UNCHANGED question

-----------------------------------------------------------------------------
\* Hits never overlap, never touch a blocked position, and lie behind the scan.
HitsDisjoint ==
    /\ \A g, h \in hits : g # h => Span(g) \cap Span(h) = {}
    /\ \A h \in hits :
          /\ <<h[1], h[2] - h[1]>> \in table
          /\ Span(h) \cap blocked = {}
          /\ h[2] <= pos

\* A matching window that was passed over lost to a hit that covers its start:
\* one that starts earlier, or starts there too and is at least as long.
LeftmostLongest ==
    \A w \in table :
        (w[1] < pos /\ (w[1] .. w[1] + w[2] - 1) \cap blocked = {}) =>
            \E h \in hits : /\ h[1] <= w[1] /\ w[1] < h[2]
                            /\ h[1] = w[1] => h[2] >= w[1] + w[2]
=============================================================================
