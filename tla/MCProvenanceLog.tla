-------------------------- MODULE MCProvenanceLog --------------------------
(***************************************************************************)
(* Instances of ProvenanceLog for TLC.                                     *)
(***************************************************************************)
EXTENDS ProvenanceLog

CONSTANTS agentA, agentB, log1, log2

TwoAgents == {agentA, agentB}
OneLog == {log1}

StrictClock == {1}
============================================================================
