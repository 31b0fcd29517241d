------------------------- MODULE MCDivergenceEngine -------------------------
(***************************************************************************)
(* An instance of DivergenceEngine for TLC: the thresholds documented for  *)
(* critical systems, growing to the scheduler's maxima, one chat that      *)
(* corrects its answer once and one that streams.  For an agent with tools *)
(* the tiers are separated; a plain one gains experience faster, and its   *)
(* first threshold after an interaction (22) is past its second before it  *)
(* (20).                                                                   *)
(***************************************************************************)
EXTENDS DivergenceEngine

CONSTANTS c1, c2

StrictBase == [l1 |-> 10, l2 |-> 20, l3 |-> 40]
DefaultMaxima == [l1 |-> 25, l2 |-> 45, l3 |-> 70]
Plain == [hasToolCalling |-> FALSE, hasVisionAudio |-> FALSE, mcpServerCount |-> 0]
Tools == [hasToolCalling |-> TRUE, hasVisionAudio |-> FALSE, mcpServerCount |-> 1]
TwoProfiles == {Plain, Tools}
Saturating == [x \in Experience |-> (100 * x) \div (x + 20000)]

TwoChats == {c1, c2}
OneCorrects == [c \in TwoChats |-> IF c = c1 THEN 1 ELSE 0]

\* Above every threshold, and between its base and its later value for each tier;
\* a failed L1 is below all.
SomeScores == {12, 21, 45, 70}
SomeJudgements == {[verdict |-> "uncertain", confidence |-> 0],
                   [verdict |-> "misaligned", confidence |-> 50],
                   [verdict |-> "misaligned", confidence |-> 90]}
SomeReports == {[health |-> 100, critical |-> FALSE], [health |-> 90, critical |-> TRUE]}
\* Without a judge there are no probes, and nothing is left to the background.
\* The plain agent is one in standard mode: in enterprise mode one threshold decides.
SomeModes ==
    {m \in [enterprise : BOOLEAN, judge : BOOLEAN, background : BOOLEAN, profile : TwoProfiles] :
        /\ m.background => m.judge
        /\ m.profile = Plain => ~m.enterprise /\ ~m.background}
============================================================================
