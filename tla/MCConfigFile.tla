--------------------------- MODULE MCConfigFile ---------------------------
EXTENDS ConfigFile

(* A first install; the file of a version before the options and the        *)
(* trading hours; one with a section that lacks its URL; a complete one.    *)
MCOldFiles ==
    {Missing,
     [dry_run |-> TRUE, target |-> "nt"],
     [dry_run |-> TRUE, hours |-> FALSE, options |-> FALSE],
     [Defaults EXCEPT !.dry_run = TRUE, !.target = "both"]}
=============================================================================
