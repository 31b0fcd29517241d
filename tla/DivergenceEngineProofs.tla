----------------------- MODULE DivergenceEngineProofs -----------------------
(***************************************************************************)
(* Theorems about the thresholds of ElasticityScheduler and the analyses of*)
(* DivergenceEngine, for any number of chats and any configuration.        *)
(***************************************************************************)
EXTENDS DivergenceEngine, TLAPS

----------------------------------------------------------------------------
(* The thresholds                                                          *)

\* Multiplication by a natural number is monotone.
LEMMA TimesMonotone ==
    ASSUME NEW a \in Nat, NEW b \in Nat, NEW d \in Nat, b <= d
    PROVE  a * b \in Nat /\ a * d \in Nat /\ a * b <= a * d
<1>1. PICK k \in Nat : d = b + k
  <2>1. d - b \in Nat /\ d = b + (d - b)
    OBVIOUS
  <2> QED BY <2>1
<1>2. a * d = a * b + a * k
  BY <1>1
<1>3. a * b \in Nat /\ a * k \in Nat
  OBVIOUS
<1> QED BY <1>2, <1>3

\* So is integer division, here by 1000.
LEMMA DivMonotone ==
    ASSUME NEW x \in Nat, NEW y \in Nat, x <= y
    PROVE  x \div 1000 \in Nat /\ y \div 1000 \in Nat /\ x \div 1000 <= y \div 1000
  OBVIOUS

\* The multiplier of a profile is a number, its cap reduction a proportion.
LEMMA ProfileRange ==
    ASSUME NEW p \in Profiles
    PROVE  /\ ComputePenaltyMultiplier(p) \in Nat
           /\ ComputeCapReduction(p) \in 5 .. 10
<1>1. p.hasToolCalling \in BOOLEAN /\ p.hasVisionAudio \in BOOLEAN /\ p.mcpServerCount \in Nat
  BY SchedulerAssumption DEF RiskProfile
<1>2. ComputeCapReduction(p) \in 5 .. 10
  BY <1>1 DEF ComputeCapReduction
<1>3. ComputePenaltyMultiplier(p) \in Nat
  <2> DEFINE tools  == IF p.hasToolCalling THEN 7 ELSE 10
             vision == IF p.hasVisionAudio THEN 9 ELSE 10
             mcp    == CASE p.mcpServerCount = 0 -> 1000
                         [] p.mcpServerCount = 1 -> 500
                         [] p.mcpServerCount = 2 -> 250
                         [] OTHER                -> 200
  <2>1. tools \in {7, 10} /\ vision \in {9, 10} /\ mcp \in {1000, 500, 250, 200}
    BY <1>1
  <2> HIDE DEF tools, vision, mcp
  <2>2. tools * vision * mcp \in Nat
    BY <2>1
  <2> QED BY <2>2 DEF ComputePenaltyMultiplier, tools, vision, mcp
<1> QED BY <1>2, <1>3

\* Experience raises the factor, from nothing to the whole span at most.
LEMMA FactorGrows ==
    ASSUME NEW p \in Profiles, NEW m \in 0 .. MaxCount, NEW n \in 0 .. MaxCount, m <= n
    PROVE  /\ EffectiveFactor(p, m) \in 0 .. 1000
           /\ EffectiveFactor(p, n) \in 0 .. 1000
           /\ EffectiveFactor(p, m) <= EffectiveFactor(p, n)
<1> DEFINE r == ComputePenaltyMultiplier(p)
           cap == ComputeCapReduction(p)
<1>1. r \in Nat /\ cap \in 5 .. 10
  BY ProfileRange
<1>2. r * m \in Experience /\ r * n \in Experience
  BY DEF Experience
<1>3. m \in Nat /\ n \in Nat
  BY SchedulerAssumption
<1> HIDE DEF r, cap
<1>4. r * m \in Nat /\ r * n \in Nat /\ r * m <= r * n
  BY <1>1, <1>3, TimesMonotone
<1>5. Growth[r * m] \in 0 .. 100 /\ Growth[r * n] \in 0 .. 100 /\ Growth[r * m] <= Growth[r * n]
  BY <1>2, <1>4, SchedulerAssumption
<1>6. Growth[r * m] * cap <= Growth[r * n] * cap
  <2> DEFINE g == Growth[r * m]
             h == Growth[r * n]
  <2>1. cap \in Nat /\ g \in Nat /\ h \in Nat /\ g <= h
    BY <1>1, <1>5
  <2> HIDE DEF g, h
  <2>2. cap * g <= cap * h
    BY <2>1, TimesMonotone
  <2>3. g * cap <= h * cap
    BY <2>1, <2>2
  <2> QED BY <2>3 DEF g, h
<1>7. /\ EffectiveFactor(p, m) = Growth[r * m] * cap
      /\ EffectiveFactor(p, n) = Growth[r * n] * cap
  BY DEF EffectiveFactor, r, cap
<1>8. Growth[r * m] * cap \in 0 .. 1000 /\ Growth[r * n] * cap \in 0 .. 1000
  <2> DEFINE g == Growth[r * m]
             h == Growth[r * n]
  <2>1. g \in 0 .. 100 /\ h \in 0 .. 100
    BY <1>5
  <2> HIDE DEF g, h
  <2>2. g * cap \in 0 .. 1000
    BY <1>1, <2>1
  <2>3. h * cap \in 0 .. 1000
    BY <1>1, <2>1
  <2> QED BY <2>2, <2>3 DEF g, h
<1> QED BY <1>6, <1>7, <1>8

\* Where a maximum is not below its base, more recorded interactions never lower
\* the threshold, and it stays in the span from its base to its maximum.
THEOREM ThresholdsGrow ==
    ASSUME NEW p \in Profiles, NEW m \in 0 .. MaxCount, NEW n \in 0 .. MaxCount, m <= n,
           NEW t \in Tier, Base[t] <= Maxima[t]
    PROVE  /\ CalculateThresholds[p][m][t] \in Nat
           /\ CalculateThresholds[p][n][t] \in Nat
           /\ Base[t] <= CalculateThresholds[p][m][t]
           /\ CalculateThresholds[p][m][t] <= CalculateThresholds[p][n][t]
           /\ CalculateThresholds[p][n][t] <= Maxima[t]
<1> DEFINE span == Maxima[t] - Base[t]
           low  == EffectiveFactor(p, m)
           high == EffectiveFactor(p, n)
<1>1. /\ m \in Nat /\ n \in Nat
      /\ Base[t] \in Nat /\ Maxima[t] \in Nat /\ Base[t] <= Maxima[t]
  BY SchedulerAssumption
<1>2. /\ low \in Nat /\ high \in Nat /\ low <= high /\ high <= 1000
  <2>1. low \in 0 .. 1000 /\ high \in 0 .. 1000 /\ low <= high
    BY FactorGrows
  <2> HIDE DEF low, high
  <2> QED BY <2>1
<1>3. span \in Nat /\ Maxima[t] = Base[t] + span
  BY <1>1
<1>4. /\ CalculateThresholds[p][m][t] = (IF m = 0 THEN Base[t] ELSE Base[t] + (span * low) \div 1000)
      /\ CalculateThresholds[p][n][t] = (IF n = 0 THEN Base[t] ELSE Base[t] + (span * high) \div 1000)
  BY <1>1 DEF CalculateThresholds
<1> HIDE DEF span, low, high
<1>5. span * low \in Nat /\ span * high \in Nat /\ span * low <= span * high
      /\ span * high <= span * 1000
  BY <1>2, <1>3, TimesMonotone
<1>6. /\ (span * low) \div 1000 \in Nat
      /\ (span * low) \div 1000 <= (span * high) \div 1000
      /\ (span * high) \div 1000 \in Nat
  BY <1>5, DivMonotone
<1>7. (span * high) \div 1000 <= span
  <2>1. (span * 1000) \div 1000 = span
    BY <1>3
  <2> QED BY <1>3, <1>5, <2>1, DivMonotone
<1> QED BY <1>1, <1>3, <1>4, <1>6, <1>7

\* Whatever the configuration, a threshold is a natural number.
LEMMA Thresholds ==
    ASSUME NEW p \in Profiles, NEW n \in 0 .. MaxCount, NEW t \in Tier
    PROVE  CalculateThresholds[p][n][t] \in Nat
<1>1. Base[t] \in Nat /\ Maxima[t] \in Nat /\ n \in Nat
  BY SchedulerAssumption
<1>2. CASE Base[t] <= Maxima[t]
  BY <1>1, <1>2, ThresholdsGrow
<1>3. CASE Maxima[t] < Base[t]
  <2> DEFINE drop   == Base[t] - Maxima[t]
             factor == EffectiveFactor(p, n)
  <2>1. factor \in 0 .. 1000
    BY <1>1, FactorGrows
  <2>2. drop \in Nat /\ drop <= Base[t] /\ Maxima[t] - Base[t] = -drop
    BY <1>1, <1>3
  <2>3. CalculateThresholds[p][n][t]
            = IF n = 0 THEN Base[t] ELSE Base[t] + ((Maxima[t] - Base[t]) * factor) \div 1000
    BY <1>1 DEF CalculateThresholds
  <2> HIDE DEF drop, factor
  <2>4. drop * factor \in Nat /\ drop * factor <= drop * 1000
    BY <2>1, <2>2, TimesMonotone
  <2>5. (-drop) * factor = -(drop * factor)
    BY <2>1, <2>2
  <2>6. /\ (-(drop * factor)) \div 1000 \in Int
        /\ (-(drop * factor)) \div 1000 >= -drop
    <3> DEFINE x == drop * factor
    <3>1. x \in Nat /\ x <= drop * 1000
      BY <2>4
    <3> HIDE DEF x
    <3> QED BY <2>2, <3>1 DEF x
  <2> QED BY <1>1, <2>2, <2>3, <2>5, <2>6
<1> QED BY <1>1, <1>2, <1>3

----------------------------------------------------------------------------
(* The invariant                                                           *)

\* What the comparison with one threshold has shown: the score reaches that
\* threshold as it was for some count the agent has had.
Reached(c, t) == \E n \in 0 .. peak : evidence[c].score >= T(n)[t]

\* Where a chat can be, by configuration, and what it has found out by then.
Progress(c) ==
    /\ chat[c].counted <= peak
    /\ chat[c].step \in {"warning", "unjudged", "reported"} => ~mode.enterprise
    /\ At(c, "weighing") => mode.enterprise
    /\ At(c, "unjudged") => ~mode.judge
    /\ chat[c].step \in {"judging", "probing", "reported"} => mode.judge
    /\ ~mode.enterprise
          /\ chat[c].step \in {"warning", "unjudged", "judging", "probing", "reported"}
           => Reached(c, "l1")
    /\ ~mode.enterprise /\ chat[c].step \in {"unjudged", "judging", "probing", "reported"}
           => Reached(c, "l2")
    /\ ~mode.enterprise /\ chat[c].step \in {"probing", "reported"}
           => IsProblematic(evidence[c].judge) \/ Reached(c, "l3")

\* Which evidence there is, and how it relates to the batteries started.
Batteries(c) ==
    /\ chat[c].step \in {"warning", "unjudged"} => ~IsProblematic(evidence[c].judge)
    /\ chat[c].step \in {"probing", "reported"} => ~Skips(c) /\ chat[c].batteries = 1
    /\ chat[c].step \in {"weighing", "analyzed"} /\ IsProblematic(evidence[c].judge)
           => Skips(c) \/ chat[c].batteries = 1
    /\ chat[c].batteries \in {0, 1}
    /\ chat[c].batteries = 1 =>
           /\ ~Skips(c)
           /\ chat[c].step \in {"probing", "reported", "weighing", "analyzed", "failed"}

\* The result of a completed analysis.
Justified(c) ==
    At(c, "analyzed") =>
        \E i, j, k \in 0 .. peak :
            /\ DecidedBy(c, Mixed(i, j, k))
            /\ Separated => i = j /\ j = k

Blocking(c) == At(c, "analyzed") /\ AboveAll(evidence[c].score) => result[c].blocked

\* The thresholds stored in the engine come each from a count the agent has had,
\* not necessarily the same.
ThresholdsHad == \A t \in Tier : \E n \in 0 .. peak : thresholds[t] = T(n)[t]

ChatInv(c) == Progress(c) /\ Batteries(c) /\ Justified(c) /\ Blocking(c)

Inv == TypeOK /\ ThresholdsHad /\ \A c \in Chat : ChatInv(c)

----------------------------------------------------------------------------
(* What the thresholds of different counts have in common                  *)

\* The comparisons of an analysis see thresholds of different counts; a decision
\* reads each tier's alone.
LEMMA Numbers ==
    ASSUME TypeOK
    PROVE  /\ \A n \in 0 .. peak, t \in Tier : T(n)[t] \in Nat
           /\ \A n \in 0 .. peak :
                 T(n)["l1"] \in Nat /\ T(n)["l2"] \in Nat /\ T(n)["l3"] \in Nat
<1>1. mode.profile \in Profiles
  BY EngineAssumption DEF TypeOK, Mode
<1>2. 0 .. peak \subseteq 0 .. MaxCount
  BY SchedulerAssumption DEF TypeOK
<1>3. \A n \in 0 .. peak, t \in Tier : T(n)[t] \in Nat
  BY <1>1, <1>2, Thresholds DEF T
<1> QED BY <1>3 DEF Tier

LEMMA MixedTiers ==
    ASSUME NEW i, NEW j, NEW k
    PROVE  /\ Mixed(i, j, k)["l1"] = T(i)["l1"]
           /\ Mixed(i, j, k)["l2"] = T(j)["l2"]
           /\ Mixed(i, j, k)["l3"] = T(k)["l3"]
  BY DEF Mixed

\* A score that reached one count's first threshold and stayed below another's
\* second lies, if the tiers are separated, between the two of a single count.
LEMMA BetweenL1AndL2 ==
    ASSUME TypeOK, NEW s \in 0 .. 100, NEW i \in 0 .. peak, NEW j \in 0 .. peak,
           s >= T(i)["l1"], s < T(j)["l2"]
    PROVE  \E a, b, d \in 0 .. peak :
              /\ s >= T(a)["l1"] /\ s < T(b)["l2"]
              /\ Separated => a = b /\ b = d
<1>1. \A n \in 0 .. peak : T(n)["l1"] \in Nat /\ T(n)["l2"] \in Nat
  BY Numbers
<1>2. CASE ~Separated
  BY <1>2
<1>3. CASE s < T(i)["l2"]
  BY <1>3
<1>4. CASE Separated /\ s >= T(i)["l2"]
  <2>1. T(j)["l1"] <= T(i)["l2"]
    BY <1>4 DEF Separated
  <2>2. s >= T(j)["l1"]
    BY <1>1, <1>4, <2>1
  <2> QED BY <2>2
<1> QED BY <1>1, <1>2, <1>3, <1>4

\* Likewise for the second threshold and the third.
LEMMA BetweenL2AndL3 ==
    ASSUME TypeOK, NEW s \in 0 .. 100,
           NEW h \in 0 .. peak, NEW i \in 0 .. peak, NEW j \in 0 .. peak,
           s >= T(h)["l1"], s >= T(i)["l2"], s < T(j)["l3"]
    PROVE  \E a, b, d \in 0 .. peak :
              /\ s >= T(a)["l1"] /\ s >= T(b)["l2"] /\ s < T(d)["l3"]
              /\ Separated => a = b /\ b = d
<1>1. \A n \in 0 .. peak : T(n)["l1"] \in Nat /\ T(n)["l2"] \in Nat /\ T(n)["l3"] \in Nat
  BY Numbers
<1>2. CASE ~Separated
  BY <1>2
<1>3. CASE Separated /\ s < T(i)["l3"]
  <2>1. T(i)["l1"] <= T(i)["l2"]
    BY <1>3 DEF Separated
  <2>2. s >= T(i)["l1"]
    BY <1>1, <2>1
  <2> QED BY <1>3, <2>2
<1>4. CASE Separated /\ s >= T(i)["l3"]
  <2>1. T(j)["l1"] <= T(j)["l2"] /\ T(j)["l2"] <= T(i)["l3"]
    BY <1>4 DEF Separated
  <2>2. s >= T(j)["l1"] /\ s >= T(j)["l2"]
    BY <1>1, <1>4, <2>1
  <2> QED BY <2>2
<1> QED BY <1>1, <1>2, <1>3, <1>4

\* A score that reached a second threshold is one that, if the tiers are
\* separated, a single count sends to the judge.
LEMMA ReachesL2 ==
    ASSUME TypeOK, NEW s \in 0 .. 100, NEW h \in 0 .. peak, NEW i \in 0 .. peak,
           s >= T(h)["l1"], s >= T(i)["l2"]
    PROVE  \E a, b, d \in 0 .. peak :
              /\ s >= T(a)["l1"] /\ s >= T(b)["l2"]
              /\ Separated => a = b /\ b = d
<1>1. CASE ~Separated
  BY <1>1
<1>2. CASE Separated
  <2>1. T(i)["l1"] <= T(i)["l2"]
    BY <1>2 DEF Separated
  <2>2. s >= T(i)["l1"]
    BY <2>1, Numbers
  <2> QED BY <2>2
<1> QED BY <1>1, <1>2

\* And if it reached a third, one that a single count escalates.
LEMMA ReachesL3 ==
    ASSUME TypeOK, NEW s \in 0 .. 100,
           NEW h \in 0 .. peak, NEW i \in 0 .. peak, NEW j \in 0 .. peak,
           s >= T(h)["l1"], s >= T(i)["l2"], s >= T(j)["l3"]
    PROVE  \E a, b, d \in 0 .. peak :
              /\ s >= T(a)["l1"] /\ s >= T(b)["l2"] /\ s >= T(d)["l3"]
              /\ Separated => a = b /\ b = d
<1>1. CASE ~Separated
  BY <1>1
<1>2. CASE Separated
  <2>1. T(j)["l1"] <= T(j)["l2"] /\ T(j)["l2"] <= T(j)["l3"]
    BY <1>2 DEF Separated
  <2>2. s >= T(j)["l1"] /\ s >= T(j)["l2"]
    BY <2>1, Numbers
  <2> QED BY <2>2
<1> QED BY <1>1, <1>2

----------------------------------------------------------------------------
(* Frames                                                                  *)

\* As the agent gains experience, what was had stays had.
LEMMA PeakGrows ==
    ASSUME TypeOK, TypeOK', mode' = mode, peak <= peak'
    PROVE  /\ 0 .. peak \subseteq 0 .. peak'
           /\ \A n : T(n)' = T(n)
           /\ \A i, j, k : Mixed(i, j, k)' = Mixed(i, j, k)
           /\ Separated' => Separated
<1>1. peak \in Nat /\ peak' \in Nat
  BY SchedulerAssumption DEF TypeOK
<1>2. 0 .. peak \subseteq 0 .. peak'
  BY <1>1
<1>3. \A n : T(n)' = T(n)
  BY DEF T
<1>4. \A i, j, k : Mixed(i, j, k)' = Mixed(i, j, k)
  BY <1>3 DEF Mixed
<1> QED BY <1>2, <1>3, <1>4 DEF Separated

\* A step keeps the invariant of the chats that take no part in it.
LEMMA Bystander ==
    ASSUME TypeOK, TypeOK', mode' = mode, peak <= peak',
           NEW d \in Chat, ChatInv(d),
           chat'[d] = chat[d], evidence'[d] = evidence[d], result'[d] = result[d]
    PROVE  ChatInv(d)'
<1>1. /\ 0 .. peak \subseteq 0 .. peak'
      /\ \A n : T(n)' = T(n)
      /\ \A i, j, k : Mixed(i, j, k)' = Mixed(i, j, k)
      /\ Separated' => Separated
      /\ AboveAll(evidence[d].score)' => AboveAll(evidence[d].score)
  <2>1. AboveAll(evidence[d].score)' = (\A n \in 0 .. peak', t \in Tier :
                                           evidence[d].score >= T(n)'[t])
    BY DEF AboveAll
  <2> QED BY <2>1, PeakGrows DEF AboveAll
<1>2. \A step : At(d, step)' = At(d, step)
  BY DEF At
<1>3. Skips(d)' = Skips(d)
  BY DEF Skips
<1>4. \A t : Reached(d, t) => Reached(d, t)'
  BY <1>1 DEF Reached
<1>5. Progress(d)'
  <2>1. chat[d].counted <= peak'
    BY SchedulerAssumption DEF ChatInv, Progress, TypeOK, ChatState
  <2> QED BY <1>2, <1>4, <2>1 DEF ChatInv, Progress
<1>6. Batteries(d)'
  BY <1>2, <1>3 DEF ChatInv, Batteries
<1>7. Justified(d)'
  <2>1. \A t : DecidedBy(d, t) => /\ result'[d].tier = Decision(evidence[d], t, Skips(d)).tier
                                 /\ result'[d].action = Decision(evidence[d], t, Skips(d)).action
    BY DEF DecidedBy
  <2>2. \A i, j, k : Decision(evidence[d], Mixed(i, j, k), Skips(d))'
                       = Decision(evidence[d], Mixed(i, j, k), Skips(d))
    <3> SUFFICES ASSUME NEW i, NEW j, NEW k
                 PROVE  Decision(evidence[d], Mixed(i, j, k), Skips(d))'
                            = Decision(evidence[d], Mixed(i, j, k), Skips(d))
      OBVIOUS
    <3>1. Mixed(i, j, k)' = Mixed(i, j, k)
      BY <1>1
    <3> QED BY <1>3, <3>1 DEF Decision
  <2>3. \A i, j, k : DecidedBy(d, Mixed(i, j, k)) => DecidedBy(d, Mixed(i, j, k))'
    BY <2>1, <2>2 DEF DecidedBy
  <2> QED BY <1>1, <1>2, <2>3 DEF ChatInv, Justified
<1>8. Blocking(d)'
  BY <1>1, <1>2 DEF ChatInv, Blocking
<1> QED BY <1>5, <1>6, <1>7, <1>8 DEF ChatInv

\* Thresholds that are left alone stay ones the agent has had.
LEMMA HadKept ==
    ASSUME TypeOK, TypeOK', mode' = mode, peak <= peak', ThresholdsHad, thresholds' = thresholds
    PROVE  ThresholdsHad'
<1>1. /\ 0 .. peak \subseteq 0 .. peak'
      /\ \A n : T(n)' = T(n)
  BY PeakGrows
<1> QED BY <1>1 DEF ThresholdsHad

\* A step of chat c that leaves the thresholds and the experience alone keeps
\* the invariant if it keeps that of c.
LEMMA StepOf ==
    ASSUME Inv, TypeOK', NEW c \in Chat,
           mode' = mode, thresholds' = thresholds, peak' = peak,
           \A d \in Chat \ {c} : /\ chat'[d] = chat[d]
                                 /\ evidence'[d] = evidence[d]
                                 /\ result'[d] = result[d],
           ChatInv(c)'
    PROVE  Inv'
<1>1. peak <= peak'
  BY SchedulerAssumption DEF Inv, TypeOK
<1>2. ThresholdsHad'
  BY <1>1, HadKept DEF Inv
<1>3. ASSUME NEW d \in Chat PROVE ChatInv(d)'
  <2>1. CASE d = c
    BY <2>1
  <2>2. CASE d # c
    BY <1>1, <2>2, Bystander DEF Inv
  <2> QED BY <2>1, <2>2
<1> QED BY <1>2, <1>3 DEF Inv

\* What Init's chats satisfy, and every chat that is not in an analysis.
LEMMA Outside ==
    ASSUME NEW c \in Chat,
           chat[c].step \in {"idle", "calling", "setL1", "setL2", "setL3", "measuring"},
           chat[c].batteries = 0, chat[c].counted <= peak
    PROVE  ChatInv(c)
  BY DEF ChatInv, Progress, Batteries, Justified, Blocking, At

LEMMA InitInv == Init => Inv
<1> SUFFICES ASSUME Init PROVE Inv
  OBVIOUS
<1>1. TypeOK
  <2>1. NoEvidence \in Evidence
    BY DEF NoEvidence, Evidence, Unjudged, NoReport, Judgement, Verdict, Report
  <2>2. NewChat \in ChatState /\ NewChat.retries = 0
    BY SchedulerAssumption DEF NewChat, ChatState, Step
  <2>3. Harmless("ok") \in DivergenceResult
    BY DEF Harmless, Result, DivergenceResult, DivergenceTier
  <2>4. \A c \in Chat : chat[c].retries <= MaxRetries[c]
    BY <2>2, EngineAssumption DEF Init
  <2>5. mode \in Modes /\ thresholds \in [Tier -> Nat] /\ count \in 0 .. MaxCount
        /\ peak \in count .. MaxCount
    BY SchedulerAssumption DEF Init
  <2> QED BY <2>1, <2>2, <2>3, <2>4, <2>5 DEF Init, TypeOK
<1>2. ThresholdsHad
  <2>1. 0 \in 0 .. peak /\ mode.profile \in Profiles /\ 0 \in 0 .. MaxCount
    BY SchedulerAssumption, EngineAssumption DEF Init, Mode
  <2>2. T(0) = Base
    BY <2>1 DEF T, CalculateThresholds
  <2> QED BY <2>1, <2>2 DEF Init, ThresholdsHad
<1>3. \A c \in Chat : ChatInv(c)
  BY Outside DEF Init, NewChat
<1> QED BY <1>1, <1>2, <1>3 DEF Inv

----------------------------------------------------------------------------
(* How a step moves its chat                                               *)

\* GoTo changes where the chat is and nothing else.
LEMMA Moved ==
    ASSUME TypeOK, NEW c \in Chat, NEW step \in Step, GoTo(c, step)
    PROVE  /\ chat' \in [Chat -> ChatState]
           /\ \A d \in Chat : chat'[d].retries <= MaxRetries[d]
           /\ \A d \in Chat \ {c} : chat'[d] = chat[d]
           /\ chat'[c].step = step
           /\ chat'[c].counted = chat[c].counted
           /\ chat'[c].batteries = chat[c].batteries
           /\ Skips(c)' = Skips(c)
           /\ \A s : At(c, s)' = (s = step)
<1>1. chat[c] \in ChatState
  BY DEF TypeOK
<1>2. chat'[c] = [chat[c] EXCEPT !.step = step]
  BY <1>1 DEF GoTo, TypeOK, ChatState
<1>3. \A d \in Chat \ {c} : chat'[d] = chat[d]
  BY DEF GoTo, TypeOK
<1>8. chat'[c] \in ChatState
  BY <1>1, <1>2 DEF ChatState
<1>4. chat' \in [Chat -> ChatState]
  BY <1>8 DEF GoTo, TypeOK
<1>5. chat'[c].step = step /\ chat'[c].retries = chat[c].retries
      /\ chat'[c].counted = chat[c].counted /\ chat'[c].batteries = chat[c].batteries
  BY <1>1, <1>2 DEF ChatState
<1>6. \A d \in Chat : chat'[d].retries <= MaxRetries[d]
  BY <1>3, <1>5 DEF TypeOK
<1>7. Skips(c)' = Skips(c) /\ \A s : At(c, s)' = (s = step)
  BY <1>5 DEF Skips, At
<1> QED BY <1>3, <1>4, <1>5, <1>6, <1>7

\* Scheduling a battery also counts it.
LEMMA Scheduled ==
    ASSUME TypeOK, NEW c \in Chat, NEW step \in Step, Schedule(c, step)
    PROVE  /\ chat' \in [Chat -> ChatState]
           /\ \A d \in Chat : chat'[d].retries <= MaxRetries[d]
           /\ \A d \in Chat \ {c} : chat'[d] = chat[d]
           /\ chat'[c].step = step
           /\ chat'[c].counted = chat[c].counted
           /\ chat'[c].batteries = chat[c].batteries + 1
           /\ Skips(c)' = Skips(c)
           /\ \A s : At(c, s)' = (s = step)
<1>1. chat[c] \in ChatState
  BY DEF TypeOK
<1>2. chat'[c] = [chat[c] EXCEPT !.step = step, !.batteries = chat[c].batteries + 1]
  BY <1>1 DEF Schedule, TypeOK, ChatState
<1>3. \A d \in Chat \ {c} : chat'[d] = chat[d]
  BY DEF Schedule, TypeOK
<1>4. chat'[c].step = step /\ chat'[c].retries = chat[c].retries
      /\ chat'[c].counted = chat[c].counted
      /\ chat'[c].batteries = chat[c].batteries + 1
  BY <1>1, <1>2 DEF ChatState
<1>5. chat'[c] \in ChatState
  <2> DEFINE more == chat[c].batteries + 1
  <2>1. more \in Nat
    BY <1>1 DEF ChatState
  <2>2. chat'[c] = [chat[c] EXCEPT !.step = step, !.batteries = more]
    BY <1>2
  <2> HIDE DEF more
  <2> QED BY <1>1, <2>1, <2>2 DEF ChatState
<1>6. chat' \in [Chat -> ChatState]
  BY <1>5 DEF Schedule, TypeOK
<1>7. \A d \in Chat : chat'[d].retries <= MaxRetries[d]
  BY <1>3, <1>4 DEF TypeOK
<1>8. Skips(c)' = Skips(c) /\ \A s : At(c, s)' = (s = step)
  BY <1>4 DEF Skips, At
<1> QED BY <1>3, <1>4, <1>6, <1>7, <1>8

\* An update of the evidence of one chat.
LEMMA Found ==
    ASSUME TypeOK, NEW c \in Chat, NEW e \in Evidence, Find(c, e)
    PROVE  /\ evidence' \in [Chat -> Evidence]
           /\ evidence'[c] = e
           /\ \A d \in Chat \ {c} : evidence'[d] = evidence[d]
  BY DEF Find, TypeOK

\* A conclusion keeps the invariant if it is the decision by thresholds the agent
\* has had, of one count if need be, blocks high scores, and leaves no finding without a battery.
LEMMA Concluded ==
    ASSUME Inv, NEW c \in Chat, NEW r \in DivergenceResult, Conclude(c, r),
           UNCHANGED <<mode, thresholds, count, peak>>,
           evidence' \in [Chat -> Evidence],
           \A d \in Chat \ {c} : evidence'[d] = evidence[d],
           IsProblematic(evidence'[c].judge) => Skips(c) \/ chat[c].batteries = 1,
           \E i, j, k \in 0 .. peak :
              /\ Decision(evidence'[c], Mixed(i, j, k), Skips(c)).tier = r.tier
              /\ Decision(evidence'[c], Mixed(i, j, k), Skips(c)).action = r.action
              /\ Separated => i = j /\ j = k,
           AboveAll(evidence'[c].score) => r.blocked
    PROVE  Inv'
<1> USE DEF Inv
<1>0. "analyzed" \in Step /\ GoTo(c, "analyzed") /\ result' = [result EXCEPT ![c] = r]
  BY DEF Conclude, Step
<1>1. /\ chat' \in [Chat -> ChatState]
      /\ \A d \in Chat : chat'[d].retries <= MaxRetries[d]
      /\ \A d \in Chat \ {c} : chat'[d] = chat[d]
      /\ chat'[c].step = "analyzed"
      /\ chat'[c].counted = chat[c].counted
      /\ chat'[c].batteries = chat[c].batteries
      /\ Skips(c)' = Skips(c)
      /\ \A s : At(c, s)' = (s = "analyzed")
  BY <1>0, Moved
<1>2. result' \in [Chat -> DivergenceResult] /\ result'[c] = r
      /\ \A d \in Chat \ {c} : result'[d] = result[d]
  BY <1>0 DEF TypeOK
<1>3. TypeOK'
  BY <1>1, <1>2 DEF TypeOK
<1>4. /\ \A i, j, k : Mixed(i, j, k)' = Mixed(i, j, k)
      /\ Separated' = Separated
      /\ AboveAll(evidence[c].score)' = AboveAll(evidence'[c].score)
  BY DEF T, Mixed, Separated, AboveAll
<1>5. Progress(c)'
  BY <1>1 DEF ChatInv, Progress
<1>6. Batteries(c)'
  BY <1>1 DEF ChatInv, Batteries, Skips
<1>7. Justified(c)'
  <2>1. \A i, j, k : Decision(evidence[c], Mixed(i, j, k), Skips(c))'
                       = Decision(evidence'[c], Mixed(i, j, k), Skips(c))
    <3> SUFFICES ASSUME NEW i, NEW j, NEW k
                 PROVE  Decision(evidence[c], Mixed(i, j, k), Skips(c))'
                            = Decision(evidence'[c], Mixed(i, j, k), Skips(c))
      OBVIOUS
    <3>1. Mixed(i, j, k)' = Mixed(i, j, k)
      BY <1>4
    <3> QED BY <1>1, <3>1 DEF Decision
  <2>2. PICK i \in 0 .. peak, j \in 0 .. peak, k \in 0 .. peak :
          /\ Decision(evidence'[c], Mixed(i, j, k), Skips(c)).tier = r.tier
          /\ Decision(evidence'[c], Mixed(i, j, k), Skips(c)).action = r.action
          /\ Separated => i = j /\ j = k
    OBVIOUS
  <2>3. DecidedBy(c, Mixed(i, j, k))'
    BY <1>2, <2>1, <2>2 DEF DecidedBy
  <2> QED BY <1>4, <2>2, <2>3 DEF Justified
<1>8. Blocking(c)'
  BY <1>2, <1>4 DEF Blocking
<1>9. ChatInv(c)'
  BY <1>5, <1>6, <1>7, <1>8 DEF ChatInv
<1> QED BY <1>1, <1>2, <1>3, <1>9, StepOf

----------------------------------------------------------------------------
(* A chat outside its analysis                                             *)

LEMMA BeginStep ==
    ASSUME Inv, NEW c \in Chat, Begin(c)
    PROVE  Inv'
<1>1. GoTo(c, "calling") /\ "calling" \in Step /\ At(c, "idle")
      /\ UNCHANGED <<mode, thresholds, count, peak, evidence, result>>
  BY DEF Begin, Step
<1>2. /\ chat' \in [Chat -> ChatState]
      /\ \A d \in Chat : chat'[d].retries <= MaxRetries[d]
      /\ \A d \in Chat \ {c} : chat'[d] = chat[d]
      /\ chat'[c].step = "calling" /\ chat'[c].counted = chat[c].counted
      /\ chat'[c].batteries = chat[c].batteries
  BY <1>1, Moved DEF Inv
<1>3. TypeOK'
  BY <1>1, <1>2 DEF Inv, TypeOK
<1>4. chat[c].batteries = 0 /\ chat[c].counted <= peak
  BY <1>1 DEF Inv, ChatInv, Progress, Batteries, At
<1>5. ChatInv(c)'
  BY <1>1, <1>2, <1>4 DEF ChatInv, Progress, Batteries, Justified, Blocking, At
<1> QED BY <1>1, <1>2, <1>3, <1>5, StepOf

LEMMA ProviderFailsStep ==
    ASSUME Inv, NEW c \in Chat, ProviderFails(c)
    PROVE  Inv'
<1>1. chat' = [chat EXCEPT ![c] = NewChat]
      /\ UNCHANGED <<mode, thresholds, count, peak, evidence, result>>
  BY DEF ProviderFails
<1>2. NewChat \in ChatState /\ NewChat.retries = 0 /\ NewChat.step = "idle"
      /\ NewChat.batteries = 0 /\ NewChat.counted = 0
  BY SchedulerAssumption DEF NewChat, ChatState, Step
<1>3. chat'[c] = NewChat /\ \A d \in Chat \ {c} : chat'[d] = chat[d]
  BY <1>1 DEF Inv, TypeOK
<1>4. TypeOK'
  <2>1. chat' \in [Chat -> ChatState]
    BY <1>1, <1>2 DEF Inv, TypeOK
  <2>2. NewChat.retries <= MaxRetries[c]
    BY <1>2, EngineAssumption
  <2>3. \A d \in Chat : chat'[d].retries <= MaxRetries[d]
    BY <1>3, <2>2 DEF Inv, TypeOK
  <2> QED BY <1>1, <2>1, <2>3 DEF Inv, TypeOK
<1>5. ChatInv(c)'
  <2>1. 0 <= peak'
    BY SchedulerAssumption, <1>1 DEF Inv, TypeOK
  <2> QED
    BY <1>2, <1>3, <2>1 DEF ChatInv, Progress, Batteries, Justified, Blocking, At
<1> QED BY <1>1, <1>3, <1>4, <1>5, StepOf

LEMMA AnswerStep ==
    ASSUME Inv, NEW c \in Chat, Answer(c)
    PROVE  Inv'
<1>1. At(c, "calling") /\ UNCHANGED <<mode, thresholds, count, peak, evidence, result>>
  BY DEF Answer
<1>2. PICK n \in {0, count} : chat' = [chat EXCEPT ![c].step = "setL1", ![c].counted = n]
  BY DEF Answer
<1>3. chat[c] \in ChatState /\ n \in 0 .. MaxCount /\ n <= peak
  BY SchedulerAssumption DEF Inv, TypeOK
<1>4. chat'[c] = [chat[c] EXCEPT !.step = "setL1", !.counted = n]
      /\ \A d \in Chat \ {c} : chat'[d] = chat[d]
  BY <1>2 DEF Inv, TypeOK, ChatState
<1>5. /\ chat'[c] \in ChatState
      /\ chat'[c].step = "setL1" /\ chat'[c].counted = n
      /\ chat'[c].retries = chat[c].retries /\ chat'[c].batteries = chat[c].batteries
  BY <1>3, <1>4 DEF ChatState, Step
<1>6. TypeOK'
  BY <1>1, <1>2, <1>4, <1>5 DEF Inv, TypeOK
<1>7. chat[c].batteries = 0
  BY <1>1 DEF Inv, ChatInv, Batteries, At
<1>8. ChatInv(c)'
  BY <1>1, <1>3, <1>5, <1>7 DEF ChatInv, Progress, Batteries, Justified, Blocking, At
<1> QED BY <1>1, <1>4, <1>6, <1>8, StepOf

\* The stored thresholds are ones the agent has had: the count was, and the log
\* has only grown since, or been rolled back.
LEMMA AssignStep ==
    ASSUME Inv, NEW c \in Chat, NEW t \in Tier,
           NEW here \in {"setL1", "setL2", "setL3"},
           NEW there \in {"setL2", "setL3", "measuring"},
           Assign(c, here, t, there)
    PROVE  Inv'
<1> DEFINE next == IF t = "l3" THEN 0 ELSE chat[c].counted
<1>1. /\ At(c, here)
      /\ thresholds' = [thresholds EXCEPT
             ![t] = CalculateThresholds[mode.profile][chat[c].counted][t]]
      /\ chat' = [chat EXCEPT ![c].step = there, ![c].counted = next]
      /\ UNCHANGED <<mode, count, peak, evidence, result>>
  BY DEF Assign, Inv, TypeOK, ChatState
<1>2. chat[c] \in ChatState /\ chat[c].counted \in 0 .. MaxCount /\ chat[c].counted <= peak
      /\ mode.profile \in Profiles /\ peak \in 0 .. MaxCount
  BY EngineAssumption, SchedulerAssumption DEF Inv, TypeOK, ChatState, ChatInv, Progress, Mode
<1>3. next \in 0 .. MaxCount /\ next <= peak
  BY <1>2, SchedulerAssumption
<1> HIDE DEF next
<1>4. chat'[c] = [chat[c] EXCEPT !.step = there, !.counted = next]
      /\ \A d \in Chat \ {c} : chat'[d] = chat[d]
  BY <1>1 DEF Inv, TypeOK, ChatState
<1>5. /\ chat'[c] \in ChatState
      /\ chat'[c].step = there /\ chat'[c].counted = next
      /\ chat'[c].retries = chat[c].retries /\ chat'[c].batteries = chat[c].batteries
  BY <1>2, <1>3, <1>4 DEF ChatState, Step
<1>6. thresholds \in [Tier -> Nat] /\ T(chat[c].counted)[t] \in Nat
      /\ thresholds' = [thresholds EXCEPT ![t] = T(chat[c].counted)[t]]
  BY <1>1, <1>2, Thresholds DEF Inv, TypeOK, T
<1>7. TypeOK'
  BY <1>1, <1>4, <1>5, <1>6 DEF Inv, TypeOK
<1>8. ThresholdsHad'
  <2>1. \A n : T(n)' = T(n)
    BY <1>1 DEF T
  <2>2. chat[c].counted \in 0 .. peak
    BY <1>2
  <2>3. SUFFICES ASSUME NEW u \in Tier
                 PROVE  \E n \in 0 .. peak : thresholds'[u] = T(n)[u]
    BY <1>1, <2>1 DEF ThresholdsHad
  <2>4. CASE u = t
    BY <1>6, <2>2, <2>4
  <2>5. CASE u # t
    BY <1>6, <2>5 DEF Inv, ThresholdsHad
  <2> QED BY <2>4, <2>5
<1>9. chat[c].batteries = 0
  BY <1>1 DEF Inv, ChatInv, Batteries, At
<1>10. ChatInv(c)'
  BY <1>1, <1>3, <1>5, <1>9 DEF ChatInv, Progress, Batteries, Justified, Blocking, At
<1>11. ASSUME NEW d \in Chat, d # c PROVE ChatInv(d)'
  <2>1. peak <= peak'
    BY <1>1, <1>2
  <2> QED BY <1>1, <1>4, <1>7, <1>11, <2>1, Bystander DEF Inv
<1> QED BY <1>7, <1>8, <1>10, <1>11 DEF Inv

LEMMA SetThresholdStep ==
    ASSUME Inv, NEW c \in Chat, SetThreshold(c)
    PROVE  Inv'
  BY AssignStep DEF SetThreshold, Tier

----------------------------------------------------------------------------
(* The analysis                                                            *)

\* The evidence an analysis starts with is well formed.
LEMMA Fresh ==
    ASSUME NEW score \in 0 .. 100
    PROVE  /\ [NoEvidence EXCEPT !.score = score] \in Evidence
           /\ [NoEvidence EXCEPT !.score = score].score = score
           /\ ~IsProblematic([NoEvidence EXCEPT !.score = score].judge)
           /\ NoEvidence \in Evidence
           /\ NoEvidence.score = 0
           /\ ~IsProblematic(NoEvidence.judge)
<1> DEFINE e == [NoEvidence EXCEPT !.score = score]
<1>1. NoEvidence = [score |-> 0, judge |-> Unjudged, report |-> NoReport]
  BY DEF NoEvidence
<1>2. e = [score |-> score, judge |-> Unjudged, report |-> NoReport]
  BY <1>1
<1>3. Unjudged \in Judgement /\ ~IsProblematic(Unjudged)
  BY DEF Unjudged, Judgement, Verdict, IsProblematic
<1>4. NoReport \in Report
  BY DEF NoReport, Report
<1>5. e \in Evidence /\ NoEvidence \in Evidence
  BY <1>1, <1>2, <1>3, <1>4 DEF Evidence
<1>6. e.score = score /\ e.judge = Unjudged
  BY <1>2
<1>7. NoEvidence.score = 0 /\ NoEvidence.judge = Unjudged
  BY <1>1
<1> QED BY <1>3, <1>5, <1>6, <1>7

\* Every result the analysis concludes with is one.
LEMMA Results ==
    /\ \A tier \in DivergenceTier : Harmless(tier) \in DivergenceResult
    /\ \A tier \in DivergenceTier, a, b \in BOOLEAN :
          /\ Result(tier, a, b) \in DivergenceResult
          /\ Result(tier, a, b).tier = tier
          /\ Result(tier, a, b).action = a
          /\ Result(tier, a, b).blocked = b
    /\ \A tier : Harmless(tier).tier = tier /\ Harmless(tier).action = FALSE
                 /\ Harmless(tier).blocked = FALSE
    /\ {"ok", "l1_warning", "l2_judge", "l3_icm", "critical"} = DivergenceTier
  BY DEF Harmless, Result, DivergenceResult, DivergenceTier

\* A stored threshold, as that of a count.
LEMMA Stored ==
    ASSUME Inv, NEW t \in Tier
    PROVE  /\ \E n \in 0 .. peak : thresholds[t] = T(n)[t]
           /\ thresholds[t] \in Nat
  BY DEF Inv, TypeOK, ThresholdsHad

\* A score above all thresholds reaches those that are stored.
LEMMA HighScores ==
    ASSUME Inv, NEW score, AboveAll(score), NEW t \in Tier
    PROVE  score >= thresholds[t]
  BY Stored DEF AboveAll

\* A step that only moves the chat on, within its analysis.
LEMMA MovedOn ==
    ASSUME Inv, NEW c \in Chat, NEW step \in Step \ {"analyzed"}, GoTo(c, step),
           UNCHANGED <<mode, thresholds, count, peak, result>>,
           evidence' \in [Chat -> Evidence],
           \A d \in Chat \ {c} : evidence'[d] = evidence[d],
           Progress(c)', Batteries(c)'
    PROVE  Inv'
<1>1. /\ chat' \in [Chat -> ChatState]
      /\ \A d \in Chat : chat'[d].retries <= MaxRetries[d]
      /\ \A d \in Chat \ {c} : chat'[d] = chat[d]
      /\ \A s : At(c, s)' = (s = step)
  BY Moved DEF Inv
<1>2. TypeOK'
  BY <1>1 DEF Inv, TypeOK
<1>3. ChatInv(c)'
  BY <1>1 DEF ChatInv, Justified, Blocking
<1> QED BY <1>1, <1>2, <1>3, StepOf

\* _run_l1 in standard mode: a low score is OK, a higher one goes on.
LEMMA MeasureStep ==
    ASSUME Inv, NEW c \in Chat, Measure(c)
    PROVE  Inv'
<1>1. PICK score \in Scores \cup {0} :
        /\ Find(c, [NoEvidence EXCEPT !.score = score])
        /\ \/ /\ ~mode.enterprise /\ score < thresholds["l1"]
              /\ Conclude(c, Harmless("ok"))
           \/ /\ ~mode.enterprise /\ score >= thresholds["l1"]
              /\ GoTo(c, "warning") /\ UNCHANGED result
           \/ /\ mode.enterprise
              /\ GoTo(c, IF mode.judge THEN "judging" ELSE "weighing")
              /\ UNCHANGED result
  BY DEF Measure
<1> DEFINE e == [NoEvidence EXCEPT !.score = score]
<1>2. score \in 0 .. 100
  BY EngineAssumption
<1>3. e \in Evidence /\ e.score = score /\ ~IsProblematic(e.judge)
  BY <1>2, Fresh
<1>4. Find(c, e)
  BY <1>1
<1> HIDE DEF e
<1>5. /\ evidence' \in [Chat -> Evidence] /\ evidence'[c] = e
      /\ \A d \in Chat \ {c} : evidence'[d] = evidence[d]
  BY <1>3, <1>4, Found DEF Inv
<1>6. UNCHANGED <<mode, thresholds, count, peak>> /\ At(c, "measuring")
  BY DEF Measure
<1>7. PICK n \in 0 .. peak : thresholds["l1"] = T(n)["l1"]
  BY Stored DEF Tier
<1>8. chat[c].batteries = 0 /\ chat[c].counted <= peak
  BY <1>6 DEF Inv, ChatInv, Progress, Batteries, At
<1>9. CASE ~mode.enterprise /\ score < thresholds["l1"] /\ Conclude(c, Harmless("ok"))
  <2>1. Decision(e, Mixed(n, n, n), Skips(c)) = Harmless("ok")
    BY <1>3, <1>7, <1>9, MixedTiers DEF Decision
  <2>2. ~AboveAll(score)
    <3>1. thresholds["l1"] \in Nat
      BY Stored DEF Tier
    <3> QED BY <1>2, <1>9, <3>1, HighScores DEF Tier
  <2>3. Harmless("ok") \in DivergenceResult
    BY Results
  <2> QED
    BY <1>3, <1>5, <1>6, <1>9, <2>1, <2>2, <2>3, Concluded
<1>10. CASE ~mode.enterprise /\ score >= thresholds["l1"]
            /\ GoTo(c, "warning") /\ UNCHANGED result
  <2>1. /\ chat'[c].step = "warning" /\ chat'[c].counted = chat[c].counted
        /\ chat'[c].batteries = chat[c].batteries
    BY <1>10, Moved DEF Inv, Step
  <2>2. Reached(c, "l1")'
    <3>1. T(n)' = T(n)
      BY <1>6 DEF T
    <3> QED BY <1>3, <1>5, <1>6, <1>7, <1>10, <3>1 DEF Reached
  <2>3. Progress(c)'
    BY <1>6, <1>8, <1>10, <2>1, <2>2 DEF Progress, At
  <2>4. Batteries(c)'
    BY <1>3, <1>5, <1>8, <2>1 DEF Batteries
  <2> QED BY <1>5, <1>6, <1>10, <2>3, <2>4, MovedOn DEF Step
<1>11. CASE mode.enterprise /\ GoTo(c, IF mode.judge THEN "judging" ELSE "weighing")
            /\ UNCHANGED result
  <2> DEFINE step == IF mode.judge THEN "judging" ELSE "weighing"
  <2>1. step \in {"judging", "weighing"} /\ (step = "judging" => mode.judge) /\ GoTo(c, step)
    BY <1>11
  <2> HIDE DEF step
  <2>2. /\ chat'[c].step = step /\ chat'[c].counted = chat[c].counted
        /\ chat'[c].batteries = chat[c].batteries
    BY <2>1, Moved DEF Inv, Step
  <2>3. Progress(c)'
    BY <1>6, <1>8, <1>11, <2>1, <2>2 DEF Progress, At
  <2>4. Batteries(c)'
    BY <1>3, <1>5, <1>8, <2>1, <2>2 DEF Batteries
  <2> QED BY <1>5, <1>6, <1>11, <2>1, <2>3, <2>4, MovedOn DEF Step
<1> QED BY <1>1, <1>9, <1>10, <1>11

\* Facts that hold of the evidence of every chat.
LEMMA EvidenceRange ==
    ASSUME Inv, NEW c \in Chat
    PROVE  /\ evidence[c] \in Evidence /\ evidence[c].score \in 0 .. 100
           /\ evidence[c].judge \in Judgement /\ evidence[c].report \in Report
           /\ evidence \in [Chat -> Evidence]
           /\ chat[c].batteries \in {0, 1} /\ chat[c].counted <= peak
           /\ mode.profile \in Profiles
           /\ mode.enterprise \in BOOLEAN /\ mode.judge \in BOOLEAN
  BY SchedulerAssumption, EngineAssumption
     DEF Inv, TypeOK, Evidence, ChatInv, Progress, Batteries, Mode, Tier

\* The comparison with the second threshold.
LEMMA WarnStep ==
    ASSUME Inv, NEW c \in Chat, Warn(c)
    PROVE  Inv'
<1> DEFINE e == evidence[c]
<1>1. /\ At(c, "warning") /\ UNCHANGED <<mode, thresholds, count, peak, evidence>>
      /\ \/ e.score < thresholds["l2"] /\ Conclude(c, Harmless("l1_warning"))
         \/ /\ e.score >= thresholds["l2"]
            /\ GoTo(c, IF mode.judge THEN "judging" ELSE "unjudged")
            /\ UNCHANGED result
  BY DEF Warn
<1>2. e.score \in 0 .. 100 /\ ~IsProblematic(e.judge) /\ ~mode.enterprise
      /\ Reached(c, "l1") /\ chat[c].batteries = 0 /\ chat[c].counted <= peak
  BY <1>1, EvidenceRange DEF Inv, ChatInv, Progress, Batteries, At
<1>3. PICK i \in 0 .. peak : e.score >= T(i)["l1"]
  BY <1>2 DEF Reached
<1>4. PICK j \in 0 .. peak : thresholds["l2"] = T(j)["l2"]
  BY Stored DEF Tier
<1>5. evidence' \in [Chat -> Evidence] /\ evidence'[c] = e
      /\ \A d \in Chat \ {c} : evidence'[d] = evidence[d]
  BY <1>1, EvidenceRange
<1> HIDE DEF e
<1>6. CASE e.score < thresholds["l2"] /\ Conclude(c, Harmless("l1_warning"))
  <2>1. PICK a \in 0 .. peak, b \in 0 .. peak, d \in 0 .. peak :
          /\ e.score >= T(a)["l1"] /\ e.score < T(b)["l2"]
          /\ Separated => a = b /\ b = d
    BY <1>2, <1>3, <1>4, <1>6, BetweenL1AndL2 DEF Inv
  <2>2. T(a)["l1"] \in Nat
    BY Numbers DEF Inv
  <2>3. Decision(e, Mixed(a, b, d), Skips(c)) = Harmless("l1_warning")
    <3>1. ~(e.score < Mixed(a, b, d)["l1"]) /\ e.score < Mixed(a, b, d)["l2"]
      BY <1>2, <2>1, <2>2, MixedTiers
    <3> QED BY <1>2, <3>1 DEF Decision
  <2>4. ~AboveAll(e.score)
    <3>1. thresholds["l2"] \in Nat
      BY Stored DEF Tier
    <3> QED BY <1>2, <1>6, <3>1, HighScores DEF Tier
  <2>5. Harmless("l1_warning") \in DivergenceResult
    BY Results
  <2> QED BY <1>1, <1>2, <1>5, <1>6, <2>1, <2>3, <2>4, <2>5, Concluded
<1>7. CASE e.score >= thresholds["l2"] /\ UNCHANGED result
           /\ GoTo(c, IF mode.judge THEN "judging" ELSE "unjudged")
  <2> DEFINE step == IF mode.judge THEN "judging" ELSE "unjudged"
  <2>1. step \in {"judging", "unjudged"} /\ GoTo(c, step)
        /\ (step = "judging" <=> mode.judge)
    BY <1>7
  <2> HIDE DEF step
  <2>2. /\ chat'[c].step = step /\ chat'[c].counted = chat[c].counted
        /\ chat'[c].batteries = chat[c].batteries
    BY <2>1, Moved DEF Inv, Step
  <2>3. Reached(c, "l1")' /\ Reached(c, "l2")'
    <3>1. T(i)' = T(i) /\ T(j)' = T(j)
      BY <1>1 DEF T
    <3> QED BY <1>1, <1>3, <1>4, <1>5, <1>7, <3>1 DEF Reached
  <2>4. Progress(c)'
    BY <1>1, <1>2, <2>1, <2>2, <2>3 DEF Progress, At
  <2>5. Batteries(c)'
    BY <1>2, <1>5, <2>1, <2>2 DEF Batteries
  <2> QED BY <1>1, <1>5, <1>7, <2>1, <2>4, <2>5, MovedOn DEF Step
<1> QED BY <1>1, <1>6, <1>7

\* Without a judge the third threshold decides.
LEMMA ConcludeUnjudgedStep ==
    ASSUME Inv, NEW c \in Chat, ConcludeUnjudged(c)
    PROVE  Inv'
<1> DEFINE e == evidence[c]
           r == DecideUnjudged(e.score, thresholds["l3"])
<1>1. At(c, "unjudged") /\ Conclude(c, r)
      /\ UNCHANGED <<mode, thresholds, count, peak, evidence>>
  BY DEF ConcludeUnjudged
<1>2. e.score \in 0 .. 100 /\ ~IsProblematic(e.judge) /\ ~mode.enterprise /\ ~mode.judge
      /\ Reached(c, "l1") /\ Reached(c, "l2")
  BY <1>1, EvidenceRange DEF Inv, ChatInv, Progress, Batteries, At
<1>3. PICK h \in 0 .. peak, i \in 0 .. peak : e.score >= T(h)["l1"] /\ e.score >= T(i)["l2"]
  BY <1>2 DEF Reached
<1>4. PICK j \in 0 .. peak : thresholds["l3"] = T(j)["l3"]
  BY Stored DEF Tier
<1>5. evidence' \in [Chat -> Evidence] /\ evidence'[c] = e
      /\ \A d \in Chat \ {c} : evidence'[d] = evidence[d]
  BY <1>1, EvidenceRange
<1>6. r \in DivergenceResult
  BY Results DEF DecideUnjudged
<1>7. AboveAll(e.score) => r.blocked
  BY HighScores, Results DEF DecideUnjudged, Tier
<1>8. \E a, b, d \in 0 .. peak :
        /\ Decision(e, Mixed(a, b, d), Skips(c)) = r
        /\ Separated => a = b /\ b = d
  <2> HIDE DEF e
  <2>1. CASE e.score < thresholds["l3"]
    <3>1. PICK a \in 0 .. peak, b \in 0 .. peak, d \in 0 .. peak :
            /\ e.score >= T(a)["l1"] /\ e.score >= T(b)["l2"] /\ e.score < T(d)["l3"]
            /\ Separated => a = b /\ b = d
      BY <1>2, <1>3, <1>4, <2>1, BetweenL2AndL3 DEF Inv
    <3>2. T(a)["l1"] \in Nat /\ T(b)["l2"] \in Nat /\ T(d)["l3"] \in Nat
          /\ thresholds["l3"] \in Nat
      BY Numbers, Stored DEF Inv, Tier
    <3>3. Decision(e, Mixed(a, b, d), Skips(c)) = DecideUnjudged(e.score, T(d)["l3"])
      BY <1>2, <3>1, <3>2, MixedTiers DEF Decision
    <3>4. ~(e.score >= T(d)["l3"]) /\ ~(e.score >= thresholds["l3"])
      BY <1>2, <2>1, <3>1, <3>2
    <3>5. DecideUnjudged(e.score, T(d)["l3"]) = r
      BY <3>4 DEF DecideUnjudged
    <3> QED BY <3>1, <3>3, <3>5
  <2>2. CASE e.score >= thresholds["l3"]
    <3>1. PICK a \in 0 .. peak, b \in 0 .. peak, d \in 0 .. peak :
            /\ e.score >= T(a)["l1"] /\ e.score >= T(b)["l2"]
            /\ e.score >= T(d)["l3"]
            /\ Separated => a = b /\ b = d
      BY <1>2, <1>3, <1>4, <2>2, ReachesL3 DEF Inv
    <3>2. T(a)["l1"] \in Nat /\ T(b)["l2"] \in Nat /\ T(d)["l3"] \in Nat
      BY Numbers DEF Inv
    <3>3. Decision(e, Mixed(a, b, d), Skips(c)) = DecideUnjudged(e.score, T(d)["l3"])
      BY <1>2, <3>1, <3>2, MixedTiers DEF Decision
    <3>4. DecideUnjudged(e.score, T(d)["l3"]) = r
      BY <2>2, <3>1 DEF DecideUnjudged
    <3> QED BY <3>1, <3>3, <3>4
  <2>3. thresholds["l3"] \in Nat
    BY Stored DEF Tier
  <2> QED BY <1>2, <2>1, <2>2, <2>3
<1> HIDE DEF e, r
<1> QED BY <1>1, <1>2, <1>5, <1>6, <1>7, <1>8, Concluded

\* What the judge says of an answer whose score reached the second threshold.
LEMMA JudgeConcludes ==
    ASSUME Inv, NEW c \in Chat, NEW j \in Judgements, At(c, "judging"),
           UNCHANGED <<mode, thresholds, count, peak>>,
           Find(c, [evidence[c] EXCEPT !.judge = j]),
           NEW r, Conclude(c, r), ~mode.enterprise,
           \/ IsClear([evidence[c] EXCEPT !.judge = j], thresholds["l3"])
                /\ r = Harmless("l2_judge")
           \/ /\ ~IsClear([evidence[c] EXCEPT !.judge = j], thresholds["l3"])
              /\ Skips(c) /\ r = Result("l2_judge", TRUE, TRUE)
    PROVE  Inv'
<1> DEFINE e == [evidence[c] EXCEPT !.judge = j]
           s == evidence[c].score
<1>1. e \in Evidence /\ e.score = s /\ e.judge = j /\ s \in 0 .. 100
  BY EvidenceRange, EngineAssumption DEF Evidence
<1>2. /\ evidence' \in [Chat -> Evidence] /\ evidence'[c] = e
      /\ \A d \in Chat \ {c} : evidence'[d] = evidence[d]
  BY <1>1, Found DEF Inv
<1>3. mode.judge /\ Reached(c, "l1") /\ Reached(c, "l2")
  BY DEF Inv, ChatInv, Progress, At
<1>4. PICK h \in 0 .. peak, i \in 0 .. peak : s >= T(h)["l1"] /\ s >= T(i)["l2"]
  BY <1>3 DEF Reached
<1>5. PICK k \in 0 .. peak : thresholds["l3"] = T(k)["l3"]
  BY Stored DEF Tier
<1>6. \/ IsClear(e, thresholds["l3"]) /\ r = Harmless("l2_judge")
      \/ ~IsClear(e, thresholds["l3"]) /\ Skips(c) /\ r = Result("l2_judge", TRUE, TRUE)
  OBVIOUS
<1> HIDE DEF e, s
<1>7. thresholds["l3"] \in Nat
  BY Stored DEF Tier
<1>8. CASE IsClear(e, thresholds["l3"]) /\ r = Harmless("l2_judge")
  <2>1. ~IsProblematic(e.judge) /\ s < thresholds["l3"]
    BY <1>1, <1>8 DEF IsClear
  <2>2. PICK a \in 0 .. peak, b \in 0 .. peak, d \in 0 .. peak :
          /\ s >= T(a)["l1"] /\ s >= T(b)["l2"] /\ s < T(d)["l3"]
          /\ Separated => a = b /\ b = d
    BY <1>1, <1>4, <1>5, <2>1, BetweenL2AndL3 DEF Inv
  <2>3. T(a)["l1"] \in Nat /\ T(b)["l2"] \in Nat
    BY Numbers DEF Inv
  <2>4. Decision(e, Mixed(a, b, d), Skips(c)) = r
    <3>1. /\ ~(s < Mixed(a, b, d)["l1"]) /\ ~(s < Mixed(a, b, d)["l2"])
          /\ s < Mixed(a, b, d)["l3"]
      BY <1>1, <2>2, <2>3, MixedTiers
    <3> QED BY <1>1, <1>3, <1>8, <2>1, <3>1 DEF Decision, IsClear
  <2>5. ~AboveAll(s)
    BY <1>1, <1>7, <2>1, HighScores DEF Tier
  <2>6. r \in DivergenceResult
    BY <1>8, Results
  <2> QED BY <1>1, <1>2, <2>1, <2>2, <2>4, <2>5, <2>6, Concluded
<1>9. CASE ~IsClear(e, thresholds["l3"]) /\ Skips(c) /\ r = Result("l2_judge", TRUE, TRUE)
  <2>1. IsProblematic(e.judge) \/ s >= thresholds["l3"]
    BY <1>1, <1>7, <1>9 DEF IsClear
  <2>2. PICK a \in 0 .. peak, b \in 0 .. peak, d \in 0 .. peak :
          /\ s >= T(a)["l1"] /\ s >= T(b)["l2"]
          /\ IsProblematic(e.judge) \/ s >= T(d)["l3"]
          /\ Separated => a = b /\ b = d
    <3>1. CASE IsProblematic(e.judge)
      BY <1>1, <1>4, <3>1, ReachesL2 DEF Inv
    <3>2. CASE s >= thresholds["l3"]
      BY <1>1, <1>4, <1>5, <3>2, ReachesL3 DEF Inv
    <3> QED BY <2>1, <3>1, <3>2
  <2>3. T(a)["l1"] \in Nat /\ T(b)["l2"] \in Nat /\ T(d)["l3"] \in Nat
    BY Numbers DEF Inv
  <2>4. ~(s < T(a)["l1"]) /\ ~(s < T(b)["l2"]) /\ ~IsClear(e, T(d)["l3"])
    BY <1>1, <2>2, <2>3 DEF IsClear
  <2>5. Decision(e, Mixed(a, b, d), Skips(c)) = r
    BY <1>1, <1>3, <1>9, <2>4, MixedTiers DEF Decision
  <2>6. r \in DivergenceResult /\ r.blocked
    BY <1>9, Results
  <2> QED BY <1>2, <1>9, <2>2, <2>5, <2>6, Concluded
<1> QED BY <1>6, <1>8, <1>9

\* A finding, or a score at the third threshold, goes on to the probes.
LEMMA JudgeEscalates ==
    ASSUME Inv, NEW c \in Chat, NEW j \in Judgements, At(c, "judging"),
           UNCHANGED <<mode, thresholds, count, peak, result>>,
           Find(c, [evidence[c] EXCEPT !.judge = j]),
           mode.enterprise \/ ~IsClear([evidence[c] EXCEPT !.judge = j], thresholds["l3"]),
           NEW step \in {"weighing", "reported", "probing"},
           step = "weighing" => mode.enterprise, step = "reported" => ~mode.enterprise,
           \/ Skips(c) /\ step = "weighing" /\ GoTo(c, step)
           \/ ~Skips(c) /\ Schedule(c, step)
    PROVE  Inv'
<1> DEFINE e == [evidence[c] EXCEPT !.judge = j]
           s == evidence[c].score
<1>1. e \in Evidence /\ e.score = s /\ e.judge = j /\ s \in 0 .. 100
  BY EvidenceRange, EngineAssumption DEF Evidence
<1>2. /\ evidence' \in [Chat -> Evidence] /\ evidence'[c] = e
      /\ \A d \in Chat \ {c} : evidence'[d] = evidence[d]
  BY <1>1, Found DEF Inv
<1>3. mode.judge /\ chat[c].batteries = 0 /\ chat[c].counted <= peak
      /\ (~mode.enterprise => Reached(c, "l1") /\ Reached(c, "l2"))
  BY DEF Inv, ChatInv, Progress, Batteries, At
<1>4. /\ chat' \in [Chat -> ChatState]
      /\ \A d \in Chat : chat'[d].retries <= MaxRetries[d]
      /\ \A d \in Chat \ {c} : chat'[d] = chat[d]
      /\ chat'[c].step = step /\ chat'[c].counted = chat[c].counted
      /\ Skips(c)' = Skips(c)
      /\ IF Skips(c) THEN chat'[c].batteries = 0 ELSE chat'[c].batteries = 1
  BY <1>3, Moved, Scheduled DEF Inv, Step
<1>5. mode.enterprise \/ ~IsClear(e, thresholds["l3"])
  OBVIOUS
<1> HIDE DEF e, s
<1>6. PICK k \in 0 .. peak : thresholds["l3"] = T(k)["l3"]
  BY Stored DEF Tier
<1>7. TypeOK'
  BY <1>2, <1>4 DEF Inv, TypeOK
<1>8. ~mode.enterprise => Reached(c, "l1")' /\ Reached(c, "l2")'
  <2>1. \A n : T(n)' = T(n)
    BY DEF T
  <2> QED BY <1>1, <1>2, <1>3, <2>1 DEF Reached, s
<1>9. ~mode.enterprise => IsProblematic(e.judge) \/ Reached(c, "l3")'
  <2>1. \A n : T(n)' = T(n)
    BY DEF T
  <2>2. thresholds["l3"] \in Nat
    BY Stored DEF Tier
  <2> QED BY <1>1, <1>2, <1>5, <1>6, <2>1, <2>2 DEF Reached, IsClear
<1>10. Progress(c)'
  BY <1>2, <1>3, <1>4, <1>8, <1>9 DEF Progress, At
<1>11. Batteries(c)'
  BY <1>2, <1>4 DEF Batteries
<1>12. ChatInv(c)'
  BY <1>4, <1>10, <1>11 DEF ChatInv, Justified, Blocking, At
<1> QED BY <1>2, <1>4, <1>7, <1>12, StepOf

LEMMA JudgeStep ==
    ASSUME Inv, NEW c \in Chat, Judge(c)
    PROVE  Inv'
<1>1. At(c, "judging") /\ UNCHANGED <<mode, thresholds, count, peak>>
  BY DEF Judge
<1>2. PICK j \in Judgements :
        LET found == [evidence[c] EXCEPT !.judge = j]
            clear == ~mode.enterprise /\ IsClear(found, thresholds["l3"])
        IN  /\ Find(c, found)
            /\ \/ clear /\ Conclude(c, Harmless("l2_judge"))
               \/ ~clear /\ Escalate(c)
  BY DEF Judge
<1> DEFINE found == [evidence[c] EXCEPT !.judge = j]
           clear == ~mode.enterprise /\ IsClear(found, thresholds["l3"])
<1>3. Find(c, found)
  BY <1>2
<1>4. CASE clear /\ Conclude(c, Harmless("l2_judge"))
  BY <1>1, <1>3, <1>4, JudgeConcludes
<1>5. CASE ~clear /\ Escalate(c)
  <2>1. mode.enterprise \/ ~IsClear(found, thresholds["l3"])
    BY <1>5
  <2>2. CASE Skips(c) /\ mode.enterprise /\ GoTo(c, "weighing") /\ UNCHANGED result
    BY <1>1, <1>3, <2>1, <2>2, JudgeEscalates
  <2>3. CASE Skips(c) /\ ~mode.enterprise /\ Conclude(c, Result("l2_judge", TRUE, TRUE))
    BY <1>1, <1>3, <2>1, <2>3, JudgeConcludes
  <2>4. CASE ~Skips(c) /\ UNCHANGED result
             /\ Schedule(c, IF mode.enterprise THEN "weighing" ELSE "reported")
    <3>1. CASE mode.enterprise
      BY <1>1, <1>3, <2>1, <2>4, <3>1, JudgeEscalates
    <3>2. CASE ~mode.enterprise
      BY <1>1, <1>3, <2>1, <2>4, <3>2, JudgeEscalates
    <3> QED BY <3>1, <3>2
  <2>5. CASE ~Skips(c) /\ UNCHANGED result /\ Schedule(c, "probing")
    BY <1>1, <1>3, <2>1, <2>5, JudgeEscalates
  <2> QED BY <1>5, <2>2, <2>3, <2>4, <2>5 DEF Escalate
<1> QED BY <1>2, <1>4, <1>5

\* The probes ran in the thread of the chat.
LEMMA ProbeStep ==
    ASSUME Inv, NEW c \in Chat, Probe(c)
    PROVE  Inv'
<1>1. /\ At(c, "probing") /\ UNCHANGED <<mode, thresholds, count, peak, result>>
      /\ GoTo(c, IF mode.enterprise THEN "weighing" ELSE "reported")
  BY DEF Probe
<1>2. PICK r \in Reports : Find(c, [evidence[c] EXCEPT !.report = r])
  BY DEF Probe
<1> DEFINE e == [evidence[c] EXCEPT !.report = r]
           step == IF mode.enterprise THEN "weighing" ELSE "reported"
<1>3. e \in Evidence /\ e.score = evidence[c].score /\ e.judge = evidence[c].judge
  BY EvidenceRange, EngineAssumption DEF Evidence
<1>4. /\ evidence' \in [Chat -> Evidence] /\ evidence'[c] = e
      /\ \A d \in Chat \ {c} : evidence'[d] = evidence[d]
  BY <1>2, <1>3, Found DEF Inv
<1>5. step \in {"weighing", "reported"} /\ (step = "weighing" <=> mode.enterprise)
      /\ GoTo(c, step)
  BY <1>1
<1> HIDE DEF e, step
<1>6. /\ chat'[c].step = step /\ chat'[c].counted = chat[c].counted
      /\ chat'[c].batteries = chat[c].batteries
      /\ Skips(c)' = Skips(c)
  BY <1>5, Moved DEF Inv, Step
<1>7. /\ mode.judge /\ chat[c].counted <= peak /\ chat[c].batteries = 1 /\ ~Skips(c)
      /\ ~mode.enterprise =>
            /\ Reached(c, "l1") /\ Reached(c, "l2")
            /\ IsProblematic(evidence[c].judge) \/ Reached(c, "l3")
  BY <1>1 DEF Inv, ChatInv, Progress, Batteries, At
<1>8. \A t : Reached(c, t)' = Reached(c, t)
  <2>1. \A n : T(n)' = T(n)
    BY <1>1 DEF T
  <2> QED BY <1>1, <1>3, <1>4, <2>1 DEF Reached
<1>9. Progress(c)'
  BY <1>1, <1>3, <1>4, <1>5, <1>6, <1>7, <1>8 DEF Progress, At
<1>10. Batteries(c)'
  BY <1>5, <1>6, <1>7 DEF Batteries
<1> QED BY <1>1, <1>4, <1>5, <1>9, <1>10, MovedOn DEF Step

\* The chat goes back to where it holds no evidence.
LEMMA Emptied ==
    ASSUME Inv, NEW c \in Chat, NEW s \in ChatState,
           chat' = [chat EXCEPT ![c] = s], s.retries <= MaxRetries[c],
           s.step \in {"idle", "calling"}, s.counted <= peak', s.batteries = 0,
           Find(c, NoEvidence), result' = [result EXCEPT ![c] = Harmless("ok")],
           mode' = mode, thresholds' = thresholds,
           count' \in 0 .. MaxCount, peak' \in count' .. MaxCount, peak <= peak'
    PROVE  Inv'
<1>1. chat' \in [Chat -> ChatState] /\ chat'[c] = s
      /\ \A d \in Chat \ {c} : chat'[d] = chat[d]
  BY DEF Inv, TypeOK
<1>2. NoEvidence \in Evidence /\ Harmless("ok") \in DivergenceResult
  BY Fresh, Results
<1>3. evidence' \in [Chat -> Evidence] /\ \A d \in Chat \ {c} : evidence'[d] = evidence[d]
  BY <1>2, Found DEF Inv
<1>4. result' \in [Chat -> DivergenceResult] /\ \A d \in Chat \ {c} : result'[d] = result[d]
  BY <1>2 DEF Inv, TypeOK
<1>5. TypeOK'
  BY <1>1, <1>3, <1>4 DEF Inv, TypeOK
<1>6. ThresholdsHad'
  BY <1>5, HadKept DEF Inv
<1>7. ASSUME NEW d \in Chat PROVE ChatInv(d)'
  <2>1. CASE d = c
    BY <1>1, <2>1 DEF ChatInv, Progress, Batteries, Justified, Blocking, At
  <2>2. CASE d # c
    BY <1>1, <1>3, <1>4, <1>5, <2>2, Bystander DEF Inv
  <2> QED BY <2>1, <2>2
<1> QED BY <1>5, <1>6, <1>7 DEF Inv

LEMMA ProbeFailsStep ==
    ASSUME Inv, NEW c \in Chat, ProbeFails(c)
    PROVE  Inv'
<1>1. /\ At(c, "probing") /\ GoTo(c, "failed") /\ "failed" \in Step
      /\ Find(c, NoEvidence) /\ result' = [result EXCEPT ![c] = Harmless("ok")]
      /\ UNCHANGED <<mode, thresholds, count, peak>>
  BY DEF ProbeFails, Step
<1>2. /\ chat' \in [Chat -> ChatState]
      /\ \A d \in Chat : chat'[d].retries <= MaxRetries[d]
      /\ \A d \in Chat \ {c} : chat'[d] = chat[d]
      /\ chat'[c].step = "failed" /\ chat'[c].counted = chat[c].counted
      /\ chat'[c].batteries = chat[c].batteries /\ Skips(c)' = Skips(c)
  BY <1>1, Moved DEF Inv
<1>3. NoEvidence \in Evidence /\ Harmless("ok") \in DivergenceResult
  BY Fresh, Results
<1>4. evidence' \in [Chat -> Evidence] /\ \A d \in Chat \ {c} : evidence'[d] = evidence[d]
  BY <1>1, <1>3, Found DEF Inv
<1>5. result' \in [Chat -> DivergenceResult] /\ \A d \in Chat \ {c} : result'[d] = result[d]
  BY <1>1, <1>3 DEF Inv, TypeOK
<1>6. TypeOK'
  BY <1>1, <1>2, <1>4, <1>5 DEF Inv, TypeOK
<1>7. chat[c].counted <= peak /\ chat[c].batteries = 1 /\ ~Skips(c)
  BY <1>1 DEF Inv, ChatInv, Progress, Batteries, At
<1>8. ChatInv(c)'
  BY <1>1, <1>2, <1>7 DEF ChatInv, Progress, Batteries, Justified, Blocking, At
<1> QED BY <1>1, <1>2, <1>4, <1>5, <1>6, <1>8, StepOf

\* The tier and the action of a reported battery do not depend on a threshold.
LEMMA ReportedAlike ==
    ASSUME NEW e, NEW x, NEW y
    PROVE  /\ DecideReported(e, x).tier = DecideReported(e, y).tier
           /\ DecideReported(e, x).action = DecideReported(e, y).action
  BY DEF DecideReported, Result

LEMMA ConcludeReportedStep ==
    ASSUME Inv, NEW c \in Chat, ConcludeReported(c)
    PROVE  Inv'
<1> DEFINE e == evidence[c]
           r == DecideReported(e, thresholds["l3"])
<1>1. At(c, "reported") /\ Conclude(c, r)
      /\ UNCHANGED <<mode, thresholds, count, peak, evidence>>
  BY DEF ConcludeReported
<1>2. /\ e.score \in 0 .. 100 /\ ~mode.enterprise /\ mode.judge /\ ~Skips(c)
      /\ chat[c].batteries = 1 /\ Reached(c, "l1") /\ Reached(c, "l2")
      /\ IsProblematic(e.judge) \/ Reached(c, "l3")
  BY <1>1, EvidenceRange DEF Inv, ChatInv, Progress, Batteries, At
<1>3. /\ evidence' \in [Chat -> Evidence] /\ evidence'[c] = e
      /\ \A d \in Chat \ {c} : evidence'[d] = evidence[d]
  BY <1>1, EvidenceRange
<1>4. r \in DivergenceResult
  <2>1. (e.score >= thresholds["l3"]) \in BOOLEAN
    OBVIOUS
  <2>2. {"l3_icm", "critical"} \subseteq DivergenceTier
    BY DEF DivergenceTier
  <2> QED BY <2>1, <2>2, Results DEF DecideReported
<1>5. AboveAll(e.score) => r.blocked
  BY HighScores, Results DEF DecideReported, Tier
<1>6. \E a, b, d \in 0 .. peak :
        /\ Decision(e, Mixed(a, b, d), Skips(c)).tier = r.tier
        /\ Decision(e, Mixed(a, b, d), Skips(c)).action = r.action
        /\ Separated => a = b /\ b = d
  <2>1. PICK h \in 0 .. peak, i \in 0 .. peak : e.score >= T(h)["l1"] /\ e.score >= T(i)["l2"]
    BY <1>2 DEF Reached
  <2>2. IsProblematic(e.judge) \/ \E k \in 0 .. peak : e.score >= T(k)["l3"]
    BY <1>2 DEF Reached
  <2> HIDE DEF e
  <2>3. PICK a \in 0 .. peak, b \in 0 .. peak, d \in 0 .. peak :
          /\ e.score >= T(a)["l1"] /\ e.score >= T(b)["l2"]
          /\ IsProblematic(e.judge) \/ e.score >= T(d)["l3"]
          /\ Separated => a = b /\ b = d
    <3>1. CASE IsProblematic(e.judge)
      BY <1>2, <2>1, <3>1, ReachesL2 DEF Inv
    <3>2. CASE \E k \in 0 .. peak : e.score >= T(k)["l3"]
      BY <1>2, <2>1, <3>2, ReachesL3 DEF Inv
    <3> QED BY <2>2, <3>1, <3>2
  <2>4. T(a)["l1"] \in Nat /\ T(b)["l2"] \in Nat /\ T(d)["l3"] \in Nat
    BY Numbers DEF Inv
  <2>5. ~(e.score < T(a)["l1"]) /\ ~(e.score < T(b)["l2"]) /\ ~IsClear(e, T(d)["l3"])
    BY <1>2, <2>3, <2>4 DEF IsClear
  <2>8. Decision(e, Mixed(a, b, d), Skips(c)) = DecideReported(e, T(d)["l3"])
    BY <1>2, <2>5, MixedTiers DEF Decision
  <2> QED BY <2>3, <2>8, ReportedAlike
<1> HIDE DEF e, r
<1> QED BY <1>1, <1>2, <1>3, <1>4, <1>5, <1>6, Concluded

\* The risk of an answer is its score at least.
LEMMA RiskAtLeastScore ==
    ASSUME NEW e \in Evidence
    PROVE  RiskScore(e) \in Nat /\ e.score \in Nat /\ RiskScore(e) >= e.score
<1>1. /\ e.score \in 0 .. 100 /\ e.judge.confidence \in 0 .. 100 /\ e.report.health \in 0 .. 100
  BY DEF Evidence, Judgement, Report
<1> DEFINE a == IF e.judge.verdict = "misaligned" THEN (e.judge.confidence * 4) \div 10 ELSE 0
           b == ((100 - e.report.health) * 4) \div 10
<1>2. a \in Nat /\ b \in Nat
  BY <1>1
<1>3. RiskScore(e) = e.score + a + b
  BY DEF RiskScore
<1> HIDE DEF a, b
<1> QED BY <1>1, <1>2, <1>3

\* Enterprise mode weighs all the evidence against the third threshold.
LEMMA ConcludeEnterpriseStep ==
    ASSUME Inv, NEW c \in Chat, ConcludeEnterprise(c)
    PROVE  Inv'
<1> DEFINE e == evidence[c]
           r == DecideEnterprise(e, thresholds["l3"])
<1>1. At(c, "weighing") /\ Conclude(c, r)
      /\ UNCHANGED <<mode, thresholds, count, peak, evidence>>
  BY DEF ConcludeEnterprise
<1>2. /\ e \in Evidence /\ e.score \in 0 .. 100 /\ mode.enterprise
      /\ IsProblematic(e.judge) => Skips(c) \/ chat[c].batteries = 1
  BY <1>1, EvidenceRange DEF Inv, ChatInv, Progress, Batteries, At
<1>3. /\ evidence' \in [Chat -> Evidence] /\ evidence'[c] = e
      /\ \A d \in Chat \ {c} : evidence'[d] = evidence[d]
  BY <1>1, EvidenceRange
<1>4. PICK k \in 0 .. peak : thresholds["l3"] = T(k)["l3"]
  BY Stored DEF Tier
<1>5. Decision(e, Mixed(k, k, k), Skips(c)) = r
  BY <1>2, <1>4, MixedTiers DEF Decision
<1> DEFINE action == RiskScore(e) >= thresholds["l3"] \/ ~IsHealthy(e.report)
<1>6. r \in DivergenceResult /\ r.blocked = action
  <2>1. action \in BOOLEAN
    BY DEF IsHealthy
  <2>2. r = Result(IF action THEN "critical" ELSE "l2_judge", action, action)
    BY DEF DecideEnterprise
  <2> HIDE DEF action, r
  <2>3. {"critical", "l2_judge"} \subseteq DivergenceTier
    BY DEF DivergenceTier
  <2> QED BY <2>1, <2>2, <2>3, Results
<1>7. AboveAll(e.score) => r.blocked
  <2>1. SUFFICES ASSUME AboveAll(e.score) PROVE action
    BY <1>6
  <2> HIDE DEF e
  <2>2. e.score >= thresholds["l3"]
    BY <2>1, HighScores DEF e, Tier
  <2>3. RiskScore(e) \in Nat /\ e.score \in Nat /\ RiskScore(e) >= e.score
    BY <1>2, RiskAtLeastScore
  <2>4. thresholds["l3"] \in Nat
    BY Stored DEF Tier
  <2> QED BY <2>2, <2>3, <2>4
<1> HIDE DEF e, r, action
<1> QED BY <1>1, <1>2, <1>3, <1>5, <1>6, <1>7, Concluded

----------------------------------------------------------------------------
(* After the analysis                                                      *)

\* A chat that corrects its answer has not started a battery.
LEMMA CorrectStep ==
    ASSUME Inv, NEW c \in Chat, Correct(c)
    PROVE  Inv'
<1> DEFINE s == [chat[c] EXCEPT !.step = "calling", !.retries = chat[c].retries + 1]
<1>1. /\ CorrectionDue(c) /\ chat' = [chat EXCEPT ![c] = s]
      /\ Find(c, NoEvidence) /\ result' = [result EXCEPT ![c] = Harmless("ok")]
      /\ UNCHANGED <<mode, thresholds, count, peak>>
  BY DEF Correct, Inv, TypeOK
<1>2. /\ chat[c] \in ChatState /\ MaxRetries[c] \in Nat
      /\ count \in 0 .. MaxCount /\ peak \in count .. MaxCount
  BY EngineAssumption DEF Inv, TypeOK
<1>3. chat[c].batteries = 0 /\ chat[c].counted <= peak
  BY <1>1 DEF CorrectionDue, Inv, ChatInv, Progress, Batteries, Skips
<1>4. chat[c].retries \in Nat /\ chat[c].retries < MaxRetries[c]
  BY <1>1, <1>2 DEF CorrectionDue, ChatState
<1>5. chat[c].retries + 1 \in Nat /\ chat[c].retries + 1 <= MaxRetries[c]
  BY <1>2, <1>4
<1>6. /\ s \in ChatState /\ s.retries <= MaxRetries[c] /\ s.step = "calling"
      /\ s.counted = chat[c].counted /\ s.batteries = chat[c].batteries
  <2> DEFINE more == chat[c].retries + 1
  <2> HIDE DEF more
  <2>1. more \in Nat /\ more <= MaxRetries[c] /\ "calling" \in Step
        /\ s = [chat[c] EXCEPT !.step = "calling", !.retries = more]
    BY <1>5 DEF Step, more
  <2> HIDE DEF s
  <2> QED BY <1>2, <2>1 DEF ChatState
<1> HIDE DEF s
<1>7. peak <= peak'
  BY <1>1, <1>2, SchedulerAssumption
<1> QED BY <1>1, <1>2, <1>3, <1>6, <1>7, Emptied

\* An interaction recorded is experience gained.
LEMMA RecordStep ==
    ASSUME Inv, NEW c \in Chat, Record(c)
    PROVE  Inv'
<1>1. /\ chat' = [chat EXCEPT ![c] = NewChat]
      /\ Find(c, NoEvidence) /\ result' = [result EXCEPT ![c] = Harmless("ok")]
      /\ UNCHANGED <<mode, thresholds>>
      /\ count' = IF count < MaxCount THEN count + 1 ELSE count
      /\ peak' = IF count' > peak THEN count' ELSE peak
  BY DEF Record
<1>2. count \in 0 .. MaxCount /\ peak \in count .. MaxCount /\ MaxCount \in Nat
      /\ MaxRetries[c] \in Nat
  BY SchedulerAssumption, EngineAssumption DEF Inv, TypeOK
<1>3. count' \in 0 .. MaxCount /\ peak' \in count' .. MaxCount /\ peak <= peak'
      /\ 0 <= peak'
  BY <1>1, <1>2
<1>4. /\ NewChat \in ChatState /\ NewChat.retries <= MaxRetries[c]
      /\ NewChat.step = "idle" /\ NewChat.counted = 0 /\ NewChat.batteries = 0
  BY <1>2 DEF NewChat, ChatState, Step
<1> QED BY <1>1, <1>3, <1>4, Emptied

\* A rollback takes interactions out of the log, not what was had.
LEMMA RollbackStep ==
    ASSUME Inv, Rollback
    PROVE  Inv'
<1>1. PICK n \in 0 .. count : n < count /\ count' = n
  BY DEF Rollback
<1>2. UNCHANGED <<mode, thresholds, peak, chat, evidence, result>>
  BY DEF Rollback
<1>3. count' \in 0 .. MaxCount /\ peak' \in count' .. MaxCount /\ peak <= peak'
  BY <1>1, <1>2, SchedulerAssumption DEF Inv, TypeOK
<1>4. TypeOK'
  BY <1>2, <1>3 DEF Inv, TypeOK
<1>5. ThresholdsHad'
  BY <1>2, <1>3, <1>4, HadKept DEF Inv
<1>6. ASSUME NEW d \in Chat PROVE ChatInv(d)'
  BY <1>2, <1>3, <1>4, Bystander DEF Inv
<1> QED BY <1>4, <1>5, <1>6 DEF Inv

----------------------------------------------------------------------------
(* The theorems                                                            *)

LEMMA StepInv == Inv /\ [Next]_vars => Inv'
<1> SUFFICES ASSUME Inv, [Next]_vars PROVE Inv'
  OBVIOUS
<1>1. CASE Rollback
  BY <1>1, RollbackStep
<1>2. ASSUME NEW c \in Chat, Begin(c) \/ Serve(c) PROVE Inv'
  <2>1. CASE Begin(c)
    BY <2>1, BeginStep
  <2>2. CASE Answer(c) \/ ProviderFails(c)
    BY <2>2, AnswerStep, ProviderFailsStep
  <2>3. CASE Analyze(c)
    <3>1. CASE SetThreshold(c) \/ Measure(c) \/ Warn(c)
      BY <3>1, SetThresholdStep, MeasureStep, WarnStep
    <3>2. CASE Judge(c) \/ Probe(c) \/ ProbeFails(c)
      BY <3>2, JudgeStep, ProbeStep, ProbeFailsStep
    <3>3. CASE ConcludeUnjudged(c) \/ ConcludeReported(c) \/ ConcludeEnterprise(c)
      BY <3>3, ConcludeUnjudgedStep, ConcludeReportedStep, ConcludeEnterpriseStep
    <3> QED BY <2>3, <3>1, <3>2, <3>3 DEF Analyze
  <2>4. CASE Correct(c) \/ Record(c)
    BY <2>4, CorrectStep, RecordStep
  <2> QED BY <1>2, <2>1, <2>2, <2>3, <2>4 DEF Serve
<1>3. CASE UNCHANGED vars
  <2>1. UNCHANGED <<mode, thresholds, count, peak, chat, evidence, result>>
    BY <1>3 DEF vars
  <2>2. TypeOK' /\ peak <= peak'
    BY <2>1, SchedulerAssumption DEF Inv, TypeOK
  <2>3. ThresholdsHad'
    BY <2>1, <2>2, HadKept DEF Inv
  <2>4. ASSUME NEW d \in Chat PROVE ChatInv(d)'
    BY <2>1, <2>2, Bystander DEF Inv
  <2> QED BY <2>2, <2>3, <2>4 DEF Inv
<1> QED BY <1>1, <1>2, <1>3 DEF Next

LEMMA Invariance == Spec => []Inv
  BY InitInv, StepInv, PTL DEF Spec

\* Every chat of every configuration stays within its types: counters, evidence
\* and results, and corrections within the budget of the chat.
THEOREM TypeCorrect == Spec => []TypeOK
<1>1. Inv => TypeOK
  BY DEF Inv
<1> QED BY <1>1, Invariance, PTL

\* Whatever the configuration, and whatever other chats do to the thresholds during
\* an analysis, its tier and its action follow from thresholds the agent has had,
\* and from those of one count unless a tier reaches into the next.
THEOREM TierIsJustified == Spec => []TierJustified
<1>1. Inv => TierJustified
  BY DEF Inv, ChatInv, Justified, TierJustified
<1> QED BY <1>1, Invariance, PTL

\* A score at every threshold the agent has had is blocked.
THEOREM HighScoresBlock == Spec => []HighScoreBlocks
<1>1. Inv => HighScoreBlocks
  BY DEF Inv, ChatInv, Blocking, HighScoreBlocks
<1> QED BY <1>1, Invariance, PTL

\* A convincing finding is corrected or probed: a chat that skips the battery
\* has a correction left, and the finding makes it due.
THEOREM FindingsAreProbed == Spec => []FindingIsProbed
<1>1. Inv => FindingIsProbed
  BY DEF Inv, ChatInv, Batteries, FindingIsProbed, IsProblematic, CorrectionDue, Skips, At
<1> QED BY <1>1, Invariance, PTL

\* However many corrections a chat makes, it starts one battery at most.
THEOREM ProbedOnce == Spec => []ProbedAtMostOnce
<1>1. Inv => ProbedAtMostOnce
  BY DEF Inv, ChatInv, Batteries, ProbedAtMostOnce
<1> QED BY <1>1, Invariance, PTL

----------------------------------------------------------------------------
(* The correction loop                                                     *)

\* The steps a chat still has to take after a step of its, in this attempt.
Rank == [s \in Step |->
    CASE s \in {"idle"}                                -> 0
      [] s \in {"analyzed", "failed"}                  -> 1
      [] s \in {"unjudged", "reported", "weighing"}    -> 2
      [] s = "probing"                                 -> 3
      [] s = "judging"                                 -> 4
      [] s = "warning"                                 -> 5
      [] s = "measuring"                               -> 6
      [] s = "setL3"                                   -> 7
      [] s = "setL2"                                   -> 8
      [] s = "setL1"                                   -> 9
      [] s = "calling"                                 -> 10]

\* How far a chat is from its end at most: an attempt takes ten steps.
Distance(c) ==
    IF At(c, "idle") THEN 0
    ELSE 10 * (MaxRetries[c] - chat[c].retries) + Rank[chat[c].step]

LEMMA DistanceType ==
    ASSUME TypeOK, NEW c \in Chat
    PROVE  /\ Distance(c) \in 0 .. 10 * (MaxRetries[c] + 1)
           /\ ~At(c, "idle") => Distance(c) > 0
<1>1. /\ MaxRetries[c] \in Nat /\ chat[c].step \in Step
      /\ chat[c].retries \in Nat /\ chat[c].retries <= MaxRetries[c]
  BY EngineAssumption DEF TypeOK, ChatState
<1>2. ~At(c, "idle") => Rank[chat[c].step] \in 1 .. 10
  BY <1>1 DEF Rank, Step, At
<1> QED
  BY <1>1, <1>2 DEF Distance

\* A step forward in the same attempt.
LEMMA Forward ==
    ASSUME TypeOK, NEW c \in Chat, ~At(c, "idle"),
           NEW there \in Step, there # "idle", Rank[there] < Rank[chat[c].step],
           chat'[c].step = there, chat'[c].retries = chat[c].retries
    PROVE  Distance(c)' < Distance(c)
<1>1. /\ MaxRetries[c] \in Nat /\ chat[c].step \in Step
      /\ chat[c].retries \in Nat /\ chat[c].retries <= MaxRetries[c]
  BY EngineAssumption DEF TypeOK, ChatState
<1>2. Rank[there] \in Nat /\ Rank[chat[c].step] \in Nat
  BY <1>1 DEF Rank, Step
<1> QED
  BY <1>1, <1>2 DEF Distance, At

\* The ranks of the steps, one by one.
LEMMA Ranks ==
    /\ Rank["analyzed"] = 1 /\ Rank["failed"] = 1
    /\ Rank["unjudged"] = 2 /\ Rank["reported"] = 2 /\ Rank["weighing"] = 2
    /\ Rank["probing"] = 3 /\ Rank["judging"] = 4 /\ Rank["warning"] = 5
    /\ Rank["measuring"] = 6 /\ Rank["setL3"] = 7 /\ Rank["setL2"] = 8
    /\ Rank["setL1"] = 9 /\ Rank["calling"] = 10
  BY DEF Rank, Step

\* Where a step of the analysis leads.
LEMMA AnalysisMoves ==
    ASSUME TypeOK, NEW c \in Chat, Analyze(c)
    PROVE  /\ ~At(c, "idle")
           /\ \A d \in Chat \ {c} : chat'[d] = chat[d]
           /\ \E there \in Step \ {"idle"} :
                 /\ Rank[there] < Rank[chat[c].step]
                 /\ chat'[c].step = there /\ chat'[c].retries = chat[c].retries
<1>1. chat \in [Chat -> ChatState]
  BY DEF TypeOK
<1> DEFINE Leads == /\ ~At(c, "idle")
                    /\ \A d \in Chat \ {c} : chat'[d] = chat[d]
                    /\ \E there \in Step \ {"idle"} :
                          /\ Rank[there] < Rank[chat[c].step]
                          /\ chat'[c].step = there /\ chat'[c].retries = chat[c].retries
<1>2. ASSUME NEW here \in Step \ {"idle"}, NEW there \in Step \ {"idle"},
             Rank[there] < Rank[here], At(c, here), GoTo(c, there)
      PROVE  Leads
  BY <1>1, <1>2 DEF At, GoTo, ChatState
<1>3. ASSUME NEW here \in Step \ {"idle"}, NEW there \in Step \ {"idle"},
             Rank[there] < Rank[here], At(c, here), Schedule(c, there)
      PROVE  Leads
  BY <1>1, <1>3 DEF At, Schedule, ChatState
<1>4. ASSUME NEW here \in Step \ {"idle"}, NEW there \in Step \ {"idle"}, NEW tier,
             Rank[there] < Rank[here], Assign(c, here, tier, there)
      PROVE  Leads
  BY <1>1, <1>4 DEF At, Assign, ChatState
<1>5. ASSUME NEW here \in Step \ {"idle"}, NEW r, 1 < Rank[here], At(c, here), Conclude(c, r)
      PROVE  Leads
  BY <1>2, <1>5, Ranks DEF Conclude, Step
<1> SUFFICES Leads
  OBVIOUS
<1> HIDE DEF Leads
<1>6. CASE SetThreshold(c)
  BY <1>4, <1>6, Ranks DEF SetThreshold, Step
<1>7. CASE Measure(c)
  BY <1>2, <1>5, <1>7, Ranks DEF Measure, Step
<1>8. CASE Warn(c)
  BY <1>2, <1>5, <1>8, Ranks DEF Warn, Step
<1>9. CASE ConcludeUnjudged(c)
  BY <1>5, <1>9, Ranks DEF ConcludeUnjudged, Step
<1>10. CASE Judge(c)
  <2>1. At(c, "judging")
    BY <1>10 DEF Judge
  <2>2. ASSUME NEW there \in {"weighing", "reported", "probing"},
               GoTo(c, there) \/ Schedule(c, there)
        PROVE  Leads
    BY <1>2, <1>3, <2>1, <2>2, Ranks DEF Step
  <2>3. ASSUME Escalate(c) PROVE Leads
    <3>1. \/ \E r : Conclude(c, r)
          \/ GoTo(c, "weighing")
          \/ Schedule(c, "weighing") \/ Schedule(c, "reported") \/ Schedule(c, "probing")
      BY <2>3, Zenon DEF Escalate
    <3> QED
      BY <1>5, <2>1, <2>2, <3>1, Ranks DEF Step
  <2> QED
    BY <1>5, <1>10, <2>1, <2>3, Ranks DEF Judge, Step
<1>11. CASE Probe(c)
  BY <1>2, <1>11, Ranks DEF Probe, Step
<1>12. CASE ProbeFails(c)
  BY <1>2, <1>12, Ranks DEF ProbeFails, Step
<1>13. CASE ConcludeReported(c)
  BY <1>5, <1>13, Ranks DEF ConcludeReported, Step
<1>14. CASE ConcludeEnterprise(c)
  BY <1>5, <1>14, Ranks DEF ConcludeEnterprise, Step
<1> QED
  BY <1>6, <1>7, <1>8, <1>9, <1>10, <1>11, <1>12, <1>13, <1>14 DEF Analyze

\* A step of a chat brings it nearer to its end and leaves the others where they are.
LEMMA ServeNears ==
    ASSUME TypeOK, NEW c \in Chat, Serve(c)
    PROVE  /\ Distance(c)' < Distance(c)
           /\ \A d \in Chat \ {c} : chat'[d] = chat[d]
<1>1. /\ chat \in [Chat -> ChatState] /\ MaxRetries[c] \in Nat
      /\ chat[c].retries \in Nat /\ chat[c].retries <= MaxRetries[c]
  BY EngineAssumption DEF TypeOK, ChatState
<1>2. CASE Answer(c)
  <2>1. /\ chat[c].step = "calling" /\ chat'[c].step = "setL1"
        /\ chat'[c].retries = chat[c].retries
        /\ \A d \in Chat \ {c} : chat'[d] = chat[d]
    BY <1>1, <1>2 DEF Answer, At, ChatState
  <2>2. "setL1" \in Step
    BY DEF Step
  <2> QED
    BY <2>1, <2>2, Ranks, Forward DEF At
<1>3. CASE Analyze(c)
  BY <1>3, AnalysisMoves, Forward
<1>4. CASE Correct(c)
  <2>1. /\ chat[c].step = "analyzed" /\ chat'[c].step = "calling"
        /\ chat'[c].retries = chat[c].retries + 1
        /\ chat[c].retries < MaxRetries[c]
        /\ \A d \in Chat \ {c} : chat'[d] = chat[d]
    BY <1>1, <1>4 DEF Correct, CorrectionDue, At, ChatState
  <2> QED
    BY <1>1, <2>1, Ranks DEF Distance, At
<1>5. CASE ProviderFails(c) \/ Record(c)
  <2>1. /\ ~At(c, "idle") /\ chat'[c].step = "idle"
        /\ \A d \in Chat \ {c} : chat'[d] = chat[d]
    BY <1>1, <1>5 DEF ProviderFails, Record, At, NewChat
  <2>2. Distance(c)' = 0
    BY <2>1 DEF Distance, At
  <2> QED
    BY <2>1, <2>2, DistanceType
<1> QED
  BY <1>2, <1>3, <1>4, <1>5 DEF Serve

LEMMA BystanderStays ==
    ASSUME NEW c \in Chat, chat'[c] = chat[c]
    PROVE  Distance(c)' = Distance(c)
  BY DEF Distance, At

\* The correction loop of a chat (core/wrapper.py) ends, whatever the judge finds
\* and whatever other chats do: every step the chat takes brings it nearer to its
\* end, nothing but the beginning of a chat takes it away from there, and it is
\* never more than ten steps for each attempt away.
THEOREM EveryStepNearsTheEnd ==
    Spec => /\ [](\A c \in Chat : Distance(c) \in 0 .. 10 * (MaxRetries[c] + 1))
            /\ [][\A c \in Chat : /\ Serve(c) => Distance(c)' < Distance(c)
                                  /\ Distance(c)' > Distance(c) => Begin(c)]_vars
<1>1. Inv => \A c \in Chat : Distance(c) \in 0 .. 10 * (MaxRetries[c] + 1)
  BY DistanceType DEF Inv
<1>2. Inv' => (\A c \in Chat : Distance(c) \in 0 .. 10 * (MaxRetries[c] + 1))'
  BY <1>1, PTL
<1>3. Inv /\ Inv' /\ [Next]_vars =>
        [\A c \in Chat : /\ Serve(c) => Distance(c)' < Distance(c)
                         /\ Distance(c)' > Distance(c) => Begin(c)]_vars
  <2> SUFFICES ASSUME Inv, Inv', Next, NEW c \in Chat
               PROVE  /\ Serve(c) => Distance(c)' < Distance(c)
                      /\ Distance(c)' > Distance(c) => Begin(c)
    OBVIOUS
  <2>1. TypeOK /\ Distance(c) \in Int /\ Distance(c)' \in Int
    BY <1>1, <1>2 DEF Inv
  <2>2. Serve(c) => Distance(c)' < Distance(c)
    BY <2>1, ServeNears
  <2>3. ASSUME chat'[c] = chat[c] PROVE ~(Distance(c)' > Distance(c))
    BY <2>1, <2>3, BystanderStays
  <2>4. CASE Rollback
    BY <2>2, <2>3, <2>4 DEF Rollback
  <2>5. ASSUME NEW d \in Chat, Begin(d) \/ Serve(d), d # c
        PROVE  chat'[c] = chat[c]
    <3>1. CASE Begin(d)
      BY <2>1, <2>5, <3>1 DEF Begin, GoTo, TypeOK
    <3>2. CASE Serve(d)
      BY <2>1, <2>5, <3>2, ServeNears
    <3> QED
      BY <2>5, <3>1, <3>2
  <2>6. CASE \E d \in Chat : Begin(d) \/ Serve(d)
    <3>1. PICK d \in Chat : Begin(d) \/ Serve(d)
      BY <2>6
    <3>2. CASE d # c
      BY <2>2, <2>3, <2>5, <3>1, <3>2
    <3>3. CASE d = c
      BY <2>1, <2>2, <3>1, <3>3
    <3> QED
      BY <3>2, <3>3
  <2> QED
    BY <2>4, <2>6 DEF Next
<1> QED
  BY <1>1, <1>3, Invariance, PTL DEF Spec
============================================================================
