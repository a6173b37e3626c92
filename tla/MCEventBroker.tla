--------------------------- MODULE MCEventBroker ---------------------------
(* Two accounts, one of them with three connections, and two conversations. *)
EXTENDS EventBroker, TLC

CONSTANTS ann, bob, ann1, ann2, ann3, bob1, v1, v2

MCAccountOf == ann1 :> ann @@ ann2 :> ann @@ ann3 :> ann @@ bob1 :> bob
MCSymmetry == Permutations({v1, v2}) \cup Permutations({ann1, ann2, ann3})
=============================================================================
