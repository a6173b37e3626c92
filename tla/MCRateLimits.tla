----------------------------- MODULE MCRateLimits -----------------------------
(* Two callers whose calls overlap; one clientId, and messages without.  The *)
(* requests have the bounds with which three windows overlap.                *)
EXTENDS RateLimits, TLC

CONSTANTS c1, c2, i1, none, k1, k2

MCLimit == [message |-> 2, http |-> 3]
MCWindow == [message |-> 2, http |-> 3]
MCMaxLag == [message |-> 1, http |-> 3]
MCMaxClock == [message |-> 11, http |-> 5]
MCSymmetry == Permutations({c1, c2}) \cup Permutations({k1, k2})
=============================================================================
