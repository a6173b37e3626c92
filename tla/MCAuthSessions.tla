---------------------------- MODULE MCAuthSessions ----------------------------
(* Two requests at a time, one sign-up and one login.                      *)
EXTENDS AuthSessions, TLC

CONSTANTS h1, h2, s1, s2, s3

MCSymmetry == Permutations({h1, h2}) \cup Permutations({s1, s2, s3})

\* No step asks whether a challenge was consumed or expired, or a session revoked or
\* expired, but only whether it is either.
Shut(c) == challenge[c].consumed \/ challenge[c].expired
Ended(s) == session[s].revoked \/ session[s].expired
MCView ==
  <<accounts, made, known, op, history,
    [c \in Challenges |-> [challenge[c] EXCEPT !.consumed = Shut(c), !.expired = FALSE]],
    [s \in Sessions |-> [session[s] EXCEPT !.revoked = Ended(s), !.expired = FALSE]]>>
=============================================================================
