----------------------------- MODULE MCReceiver -----------------------------
(* Receiver with one chosen id next to fresh ones, and five configurations: *)
(* each choice of targets with options and cooldown on, NinjaTrader alone   *)
(* without either, and a dry run.                                           *)
EXTENDS Receiver

Live(targets) == [targets |-> targets, dryRun |-> FALSE, options |-> TRUE,
                  cooldown |-> TRUE]

MCConfigs ==
    { Live({"nt"}), Live({"sc"}), Live({"nt", "sc"}),
      [Live({"nt"}) EXCEPT !.options = FALSE, !.cooldown = FALSE],
      [Live({"nt"}) EXCEPT !.dryRun = TRUE] }
=============================================================================
