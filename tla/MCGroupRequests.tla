--------------------------- MODULE MCGroupRequests ---------------------------
(* The founder and one account that comes and goes, two handlers.          *)
EXTENDS GroupRequests, TLC

CONSTANTS ann, bob, h1, h2

MCSymmetry == Permutations({h1, h2})

\* Nothing here reads the history raced, which is GroupMembership's.
MCView == <<role, cache, op, outdated, stale, requests, ask, answerHistory>>
=============================================================================
