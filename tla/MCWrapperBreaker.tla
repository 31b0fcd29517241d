-------------------------- MODULE MCWrapperBreaker --------------------------
(***************************************************************************)
(* Instances of WrapperBreaker for TLC.  The runs check liveness, so none  *)
(* of them uses the symmetry of chats and tasks.                           *)
(***************************************************************************)
EXTENDS WrapperBreaker

CONSTANTS c1, c2, w1, w2

OneChat == {c1}
TwoChats == {c1, c2}
OneTask == {w1}
TwoTasks == {w1, w2}
============================================================================
