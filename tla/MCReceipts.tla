----------------------------- MODULE MCReceipts -----------------------------
(* One recipient with two devices.                                         *)
EXTENDS Receipts, TLC

CONSTANTS bob, r1, r2

MCSymmetry == Permutations({r1, r2})
=============================================================================
