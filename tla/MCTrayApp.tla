----------------------------- MODULE MCTrayApp -----------------------------
(* TrayApp with three servers - two restarts - and two ports, so that a     *)
(* restart keeps the port or changes it.                                    *)
EXTENDS TrayApp
=============================================================================
