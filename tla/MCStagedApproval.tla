-------------------------- MODULE MCStagedApproval --------------------------
(***************************************************************************)
(* Instances of StagedApproval for TLC.                                    *)
(***************************************************************************)
EXTENDS StagedApproval, TLC

CONSTANTS t1, t2, w1, harm, tone

OneChat == {t1}
TwoChats == {t1, t2}
NoWorker == {}
OneWorker == {w1}
OneCommitment == {harm}
TwoCommitments == {harm, tone}
ShortOrLong == {1, 2}
Short == {1}

Symmetry == Permutations(Chat) \cup Permutations(Commitment)
============================================================================
