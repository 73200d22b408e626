----------------------------- MODULE MCBridge -----------------------------
EXTENDS Bridge, TLC

(* Messages differ in nothing but their place.                              *)
MCSymmetry == Permutations(Msgs) \cup Permutations(Ids)
=============================================================================
