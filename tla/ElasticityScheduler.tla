------------------------ MODULE ElasticityScheduler ------------------------
(***************************************************************************)
(* The thresholds of the divergence engine as the agent gains experience   *)
(* (divergence/scheduler.py).  Thresholds and scores are in hundredths, the*)
(* penalty multiplier in units of 1/100000, the cap reduction in tenths;   *)
(* rounding is integer division.  The curve 1 - e^(-rate * t) is a constant*)
(* of which only what the code relies on is assumed: it grows with its     *)
(* argument and stays within 0 to 100 per cent.                            *)
(***************************************************************************)
EXTENDS Integers

CONSTANTS
    Base, Maxima,  \* base_thresholds and max_thresholds
    Profiles,      \* risk profiles considered
    MaxCount,      \* bound: interactions recorded
    Growth         \* growth, in per cent, at each multiplier times count

Tier == {"l1", "l2", "l3"}

RiskProfile == [hasToolCalling : BOOLEAN, hasVisionAudio : BOOLEAN, mcpServerCount : Nat]

ComputePenaltyMultiplier(p) ==
    LET tools  == IF p.hasToolCalling THEN 7 ELSE 10
        vision == IF p.hasVisionAudio THEN 9 ELSE 10
        mcp    == CASE p.mcpServerCount = 0 -> 1000
                    [] p.mcpServerCount = 1 -> 500
                    [] p.mcpServerCount = 2 -> 250
                    [] OTHER                -> 200
        product == tools * vision * mcp
    IN  IF product < 10000 THEN 10000 ELSE product

ComputeCapReduction(p) ==
    LET reduction == 10 - (IF p.hasToolCalling THEN 1 ELSE 0)
                        - (IF p.mcpServerCount > 0 THEN 2 ELSE 0)
    IN  IF reduction < 5 THEN 5 ELSE reduction

Experience == {ComputePenaltyMultiplier(p) * n : p \in Profiles, n \in 0 .. MaxCount}

ASSUME SchedulerAssumption ==
    /\ MaxCount \in Nat
    /\ Profiles \subseteq RiskProfile
    /\ Base \in [Tier -> Nat] /\ Maxima \in [Tier -> Nat]
    /\ Growth \in [Experience -> 0 .. 100]
    /\ \A x, y \in Experience : x <= y => Growth[x] <= Growth[y]

EffectiveFactor(p, n) ==
    Growth[ComputePenaltyMultiplier(p) * n] * ComputeCapReduction(p)

\* calculate_thresholds after n interactions of an agent with risk profile p.
CalculateThresholds == [p \in Profiles |-> [n \in 0 .. MaxCount |->
    IF n <= 0 THEN Base
    ELSE [t \in Tier |-> Base[t] + ((Maxima[t] - Base[t]) * EffectiveFactor(p, n)) \div 1000]]]
============================================================================
