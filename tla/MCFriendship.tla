----------------------------- MODULE MCFriendship -----------------------------
(* Two requests at a time, and three friend requests in all.               *)
EXTENDS Friendship, TLC

CONSTANTS a, b, h1, h2, r1, r2, r3

MCSymmetry ==
  Permutations({a, b}) \cup Permutations({h1, h2}) \cup Permutations({r1, r2, r3})
=============================================================================
