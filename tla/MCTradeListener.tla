-------------------------- MODULE MCTradeListener --------------------------
(* TradeListener with two connections: two commands, copies of each other   *)
(* or not, for an account that is one contract long and a panel set to two, *)
(* so that a command can close, reverse, double or leave the position.      *)
EXTENDS TradeListener
=============================================================================
