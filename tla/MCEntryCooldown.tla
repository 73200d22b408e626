-------------------------- MODULE MCEntryCooldown --------------------------
(* EntryCooldown on two threads; four entries leave room for two reversals. *)
EXTENDS EntryCooldown, TLC

CONSTANTS t1, t2,
          MaxEntries   \* bound on the history, which alternating sides fill
                       \* without the clock moving

MCThreads == {t1, t2}
MCBound == Len(entries) <= MaxEntries
MCSymmetry == Permutations(MCThreads)
=============================================================================
