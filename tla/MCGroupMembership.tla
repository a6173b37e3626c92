-------------------------- MODULE MCGroupMembership --------------------------
(* Three accounts, one of them the founder, and two requests at a time.    *)
EXTENDS GroupMembership, TLC

CONSTANTS ann, bob, cid, h1, h2

MCSymmetry == Permutations({bob, cid}) \cup Permutations({h1, h2})
=============================================================================
