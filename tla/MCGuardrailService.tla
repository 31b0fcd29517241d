------------------------ MODULE MCGuardrailService -------------------------
(***************************************************************************)
(* An instance of GuardrailService for TLC: an execution with two items and*)
(* one with a single item.                                                 *)
(***************************************************************************)
EXTENDS GuardrailService

CONSTANTS x1, x2

TwoExecutions == {x1, x2}
TwoItemsAndOne == [x \in TwoExecutions |-> IF x = x1 THEN 2 ELSE 1]
============================================================================
