-------------------------- MODULE MCListenerDedupe --------------------------
(* ListenerDedupe on two threads, two ids and two windows.                  *)
EXTENDS ListenerDedupe, TLC

CONSTANTS t1, t2, a, b

MCThreads == {t1, t2}
MCKeys == {a, b}
MCSymmetry == Permutations(MCThreads) \cup Permutations(MCKeys)
=============================================================================
