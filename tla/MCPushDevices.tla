---------------------------- MODULE MCPushDevices ---------------------------
(* Two accounts on one telephone.                                          *)
EXTENDS PushDevices, TLC

CONSTANTS ann, bob, h1, h2

MCSymmetry == Permutations({h1, h2}) \cup Permutations({ann, bob})
=============================================================================
