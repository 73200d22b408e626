--------------------------- MODULE MCDedupeCache ---------------------------
(* DedupeCache on two threads and two ids.  The history is bounded by the   *)
(* clock: between two ticks an id is accepted once.                         *)
EXTENDS DedupeCache, TLC

CONSTANTS t1, t2, a, b

MCThreads == {t1, t2}
MCIds == {a, b}
MCSymmetry == Permutations(MCThreads) \cup Permutations(MCIds)
=============================================================================
