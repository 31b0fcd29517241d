--------------------------- MODULE MCProjectFiles ---------------------------
(***************************************************************************)
(* An instance of ProjectFiles for TLC: two wrappers of one project, the   *)
(* first with a thread that chats and one of the background, and one secret*)
(* that a start may find in its environment.                               *)
(***************************************************************************)
EXTENDS ProjectFiles

CONSTANTS p1, p2, t1, t2, t3, s1

TwoWrappers == {p1, p2}
ThreeThreads == {t1, t2, t3}
SecondThread == {t2}
OneSecret == {s1}
TwoOfOne == [t \in ThreeThreads |-> IF t = t3 THEN p2 ELSE p1]
============================================================================
