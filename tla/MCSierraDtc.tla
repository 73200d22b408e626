---------------------------- MODULE MCSierraDtc ----------------------------
(* SierraDtc with waits of a few ticks and room for two messages about      *)
(* other things: enough for an update to be late, alone, grouped with       *)
(* others or cut in two, while the chatter goes on for ever.                *)
EXTENDS SierraDtc
=============================================================================
