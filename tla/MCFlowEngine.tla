---------------------------- MODULE MCFlowEngine ----------------------------
(* FlowEngine with the default FlowConfig thresholds.  The signals bring    *)
(* each rule but Rule 16 to a decision and have each color, side and kind;  *)
(* the minutes cover ETH, the mute window, RTH before and after the last    *)
(* entry hour, and after hours.                                             *)
EXTENDS FlowEngine

Sig(d, k, i, r) == [dir |-> d, kind |-> k, inst |-> i, retail |-> r]

MCSignals ==
    { Sig("long", "cross", -15, 10),     \* passes at an open with INST <= 0
      Sig("short", "cross", 15, -4),     \* passes on red, small retail
      Sig("long", "extreme", 15, -5),    \* counter-trend on red, small retail
      Sig("long", "extreme", -25, -25),  \* deeply aligned
      Sig("short", "cross", -30, -10),   \* Rule 8
      Sig("long", "other", 5, 10),       \* Rule 9
      Sig("long", "cross", -15, 3),      \* yellow, at the threshold
      Sig("none", "other", -15, -10),    \* no direction
      Sig("long", "cross", -46, 10) }    \* PM-2 at the open

MCRedMax == -3
MCMinutes == {569, 584, 600, 780, 960}
=============================================================================
