--------------------------- MODULE MCProbeBattery ---------------------------
(***************************************************************************)
(* An instance of ProbeBattery for TLC: a battery long enough for one probe*)
(* to fail in good health, or two short ones, the second without probes.   *)
(***************************************************************************)
EXTENDS ProbeBattery

CONSTANTS u1, u2

TwoUsers == {u1, u2}
OneLongOrTwoShort == {<<5>>, <<1, 0>>}
SevereProbes == {1}
============================================================================
