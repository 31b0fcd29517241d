-------------------------- MODULE DivergenceEngine --------------------------
(***************************************************************************)
(* The divergence engine (divergence/engine.py) under concurrent chats, and*)
(* the correction loop of the chats that call it (core/wrapper.py).        *)
(*                                                                         *)
(* An analysis measures the answer (L1), asks a judge (L2) and runs a probe*)
(* battery (L3) as far as three thresholds say.  The thresholds depend on  *)
(* the number of interactions in the log; every analysis computes them and *)
(* stores them, one after the other, in attributes of the engine, and reads*)
(* them back where it compares.  No lock is held, so a chat may compare    *)
(* with the thresholds of another.                                         *)
(*                                                                         *)
(* mode          the configuration and the risk profile of the engine      *)
(* thresholds    the attributes _l1_threshold, _l2_threshold, _l3_threshold*)
(* count         active interactions in the log                            *)
(* chat[c]       where a chat is, its corrections so far, the interactions *)
(*               it has counted, and the probe batteries it has caused     *)
(* evidence[c]   what the tiers found about the answer at hand             *)
(* result[c]     tier, action_required and cascade_blocked of the result   *)
(* peak is history: the largest count so far.                              *)
(***************************************************************************)
EXTENDS ElasticityScheduler

CONSTANTS
    Chat,         \* threads and tasks inside a chat method of the wrapper
    MaxRetries,   \* for each, max_correction_retries; 0 if it streams or
                  \* auto_correction is off
    Modes,        \* the configurations considered
    Scores,       \* L1 scores, in hundredths; 0 is also a failed L1
    Judgements,   \* answers of the judge, in hundredths of confidence
    Reports       \* reports of the probe battery, in hundredths of health

Mode == [enterprise : BOOLEAN, judge : BOOLEAN, background : BOOLEAN, profile : Profiles]
Verdict == {"aligned", "misaligned", "uncertain"}
Judgement == [verdict : Verdict \cup {"none"}, confidence : 0 .. 100]
Report == [health : 0 .. 100, critical : BOOLEAN]

ASSUME EngineAssumption ==
    /\ MaxRetries \in [Chat -> Nat]
    /\ Modes \subseteq Mode
    /\ Scores \subseteq 0 .. 100
    /\ Judgements \subseteq Judgement
    /\ Reports \subseteq Report

VARIABLES mode, thresholds, count, peak, chat, evidence, result

vars == <<mode, thresholds, count, peak, chat, evidence, result>>

Step == {"idle", "calling", "setL1", "setL2", "setL3", "measuring", "warning",
         "unjudged", "judging", "probing", "reported", "weighing", "analyzed", "failed"}
DivergenceTier == {"ok", "l1_warning", "l2_judge", "l3_icm", "critical"}

ChatState == [step : Step, retries : Nat, counted : 0 .. MaxCount, batteries : Nat]
Evidence == [score : 0 .. 100, judge : Judgement, report : Report]
DivergenceResult == [tier : DivergenceTier, action : BOOLEAN, blocked : BOOLEAN]

Unjudged == [verdict |-> "none", confidence |-> 0]
NoReport == [health |-> 100, critical |-> FALSE]
NoEvidence == [score |-> 0, judge |-> Unjudged, report |-> NoReport]

\* A DivergenceResult; without more it asks for nothing.
Result(tier, action, blocked) == [tier |-> tier, action |-> action, blocked |-> blocked]
Harmless(tier) == Result(tier, FALSE, FALSE)

IsProblematic(j) == j.verdict = "misaligned" /\ j.confidence >= 60
IsHealthy(r) == ~r.critical /\ r.health >= 80

\* The risk of enterprise mode, in hundredths.
RiskScore(e) ==
    e.score + (IF e.judge.verdict = "misaligned" THEN (e.judge.confidence * 4) \div 10 ELSE 0)
            + ((100 - e.report.health) * 4) \div 10

\* Mutant: off by one, the last attempt skips too.
SkipsLastToo(c) == MaxRetries[c] > 0 /\ chat[c].retries <= MaxRetries[c]

\* Mutant: the battery is never skipped.
SkipsNever(c) == FALSE

\* skip_l3: the chat has corrections left.
Skips(c) == chat[c].retries < MaxRetries[c]

TypeOK ==
    /\ mode \in Modes
    /\ thresholds \in [Tier -> Nat]
    /\ count \in 0 .. MaxCount
    /\ peak \in count .. MaxCount
    /\ chat \in [Chat -> ChatState]
    /\ \A c \in Chat : chat[c].retries <= MaxRetries[c]
    /\ evidence \in [Chat -> Evidence]
    /\ result \in [Chat -> DivergenceResult]

NewChat == [step |-> "idle", retries |-> 0, counted |-> 0, batteries |-> 0]

Init ==
    /\ mode \in Modes
    /\ thresholds = Base
    /\ count = 0
    /\ peak = 0
    /\ chat = [c \in Chat |-> NewChat]
    /\ evidence = [c \in Chat |-> NoEvidence]
    /\ result = [c \in Chat |-> Harmless("ok")]

At(c, step) == chat[c].step = step
GoTo(c, step) == chat' = [chat EXCEPT ![c].step = step]
Find(c, what) == evidence' = [evidence EXCEPT ![c] = what]
Conclude(c, r) == GoTo(c, "analyzed") /\ result' = [result EXCEPT ![c] = r]

----------------------------------------------------------------------------
(* A chat calls the provider                                               *)

Begin(c) ==
    /\ At(c, "idle")
    /\ GoTo(c, "calling")
    /\ UNCHANGED <<mode, thresholds, count, peak, evidence, result>>

ProviderFails(c) ==
    /\ At(c, "calling")
    /\ chat' = [chat EXCEPT ![c] = NewChat]
    /\ UNCHANGED <<mode, thresholds, count, peak, evidence, result>>

\* get_interaction_count, for the answer just received; 0 if the query fails or
\* nothing is logged.
Answer(c) ==
    /\ At(c, "calling")
    /\ \E n \in {0, count} : chat' = [chat EXCEPT ![c].step = "setL1", ![c].counted = n]
    /\ UNCHANGED <<mode, thresholds, count, peak, evidence, result>>

----------------------------------------------------------------------------
(* The analysis                                                            *)

\* analyze: the attributes are assigned one after the other, and the count is
\* not used after the last.
Assign(c, here, tier, there) ==
    /\ At(c, here)
    /\ thresholds' = [thresholds EXCEPT
           ![tier] = CalculateThresholds[mode.profile][chat[c].counted][tier]]
    /\ chat' = [chat EXCEPT ![c].step = there,
                            ![c].counted = IF tier = "l3" THEN 0 ELSE @]
    /\ UNCHANGED <<mode, count, peak, evidence, result>>

SetThreshold(c) ==
    \/ Assign(c, "setL1", "l1", "setL2")
    \/ Assign(c, "setL2", "l2", "setL3")
    \/ Assign(c, "setL3", "l3", "measuring")

\* _run_l1, and in standard mode the comparison that follows it.
Measure(c) ==
    /\ At(c, "measuring")
    /\ \E score \in Scores \cup {0} :
          /\ Find(c, [NoEvidence EXCEPT !.score = score])
          /\ \/ /\ ~mode.enterprise /\ score < thresholds["l1"]
                /\ Conclude(c, Harmless("ok"))
             \/ /\ ~mode.enterprise /\ score >= thresholds["l1"]
                /\ GoTo(c, "warning") /\ UNCHANGED result
             \/ /\ mode.enterprise
                /\ GoTo(c, IF mode.judge THEN "judging" ELSE "weighing")
                /\ UNCHANGED result
    /\ UNCHANGED <<mode, thresholds, count, peak>>

\* Mutant: the warning reads the threshold of the next tier.
WarnLate(c) ==
    /\ At(c, "warning")
    /\ \/ /\ evidence[c].score < thresholds["l3"]
          /\ Conclude(c, Harmless("l1_warning"))
       \/ /\ evidence[c].score >= thresholds["l3"]
          /\ GoTo(c, IF mode.judge THEN "judging" ELSE "unjudged")
          /\ UNCHANGED result
    /\ UNCHANGED <<mode, thresholds, count, peak, evidence>>

Warn(c) ==
    /\ At(c, "warning")
    /\ \/ /\ evidence[c].score < thresholds["l2"]
          /\ Conclude(c, Harmless("l1_warning"))
       \/ /\ evidence[c].score >= thresholds["l2"]
          /\ GoTo(c, IF mode.judge THEN "judging" ELSE "unjudged")
          /\ UNCHANGED result
    /\ UNCHANGED <<mode, thresholds, count, peak, evidence>>

DecideUnjudged(score, l3) ==
    IF score >= l3 THEN Result("critical", TRUE, TRUE) ELSE Harmless("l1_warning")

ConcludeUnjudged(c) ==
    /\ At(c, "unjudged")
    /\ Conclude(c, DecideUnjudged(evidence[c].score, thresholds["l3"]))
    /\ UNCHANGED <<mode, thresholds, count, peak, evidence>>

IsClear(e, l3) == ~IsProblematic(e.judge) /\ e.score < l3

\* A battery is due: skipped, left to the background (it reports on its own,
\* see WrapperBreaker) or run at once.
Schedule(c, then) ==
    chat' = [chat EXCEPT ![c].step = then, ![c].batteries = @ + 1]

Escalate(c) ==
    \/ /\ Skips(c)
       /\ IF mode.enterprise THEN GoTo(c, "weighing") /\ UNCHANGED result
          ELSE Conclude(c, Result("l2_judge", TRUE, TRUE))
    \/ /\ ~Skips(c) /\ mode.background
       /\ Schedule(c, IF mode.enterprise THEN "weighing" ELSE "reported")
       /\ UNCHANGED result
    \/ /\ ~Skips(c) /\ ~mode.background
       /\ Schedule(c, "probing")
       /\ UNCHANGED result

\* _run_l2, and what follows from it.
Judge(c) ==
    /\ At(c, "judging")
    /\ \E j \in Judgements :
          LET found == [evidence[c] EXCEPT !.judge = j]
              clear == ~mode.enterprise /\ IsClear(found, thresholds["l3"])
          IN  /\ Find(c, found)
              /\ \/ clear /\ Conclude(c, Harmless("l2_judge"))
                 \/ ~clear /\ Escalate(c)
    /\ UNCHANGED <<mode, thresholds, count, peak>>

\* _run_l3 in the thread of the chat.
Probe(c) ==
    /\ At(c, "probing")
    /\ \E r \in Reports : Find(c, [evidence[c] EXCEPT !.report = r])
    /\ GoTo(c, IF mode.enterprise THEN "weighing" ELSE "reported")
    /\ UNCHANGED <<mode, thresholds, count, peak, result>>

\* A probe file that cannot be read ends the analysis with an exception, which
\* _run_divergence_engine turns into a result without divergence.
ProbeFails(c) ==
    /\ At(c, "probing")
    /\ GoTo(c, "failed")
    /\ Find(c, NoEvidence)
    /\ result' = [result EXCEPT ![c] = Harmless("ok")]
    /\ UNCHANGED <<mode, thresholds, count, peak>>

\* Mutant: only the health of the model blocks.
DecideReportedByHealth(e, l3) ==
    IF IsHealthy(e.report) THEN Result("l3_icm", FALSE, FALSE)
    ELSE Result("critical", TRUE, TRUE)

DecideReported(e, l3) ==
    IF IsHealthy(e.report) THEN Result("l3_icm", FALSE, e.score >= l3)
    ELSE Result("critical", TRUE, TRUE)

ConcludeReported(c) ==
    /\ At(c, "reported")
    /\ Conclude(c, DecideReported(evidence[c], thresholds["l3"]))
    /\ UNCHANGED <<mode, thresholds, count, peak, evidence>>

DecideEnterprise(e, l3) ==
    LET action == RiskScore(e) >= l3 \/ ~IsHealthy(e.report)
    IN  Result(IF action THEN "critical" ELSE "l2_judge", action, action)

ConcludeEnterprise(c) ==
    /\ At(c, "weighing")
    /\ Conclude(c, DecideEnterprise(evidence[c], thresholds["l3"]))
    /\ UNCHANGED <<mode, thresholds, count, peak, evidence>>

----------------------------------------------------------------------------
(* The chat corrects the answer, or records and returns it                 *)

\* Mutant: corrections without end.
CorrectionDueAlways(c) == evidence[c].judge.verdict = "misaligned"

CorrectionDue(c) == evidence[c].judge.verdict = "misaligned" /\ chat[c].retries < MaxRetries[c]

\* Mutant: the attempt is not counted.
CorrectUncounted(c) ==
    /\ At(c, "analyzed") /\ CorrectionDue(c)
    /\ chat' = [chat EXCEPT ![c].step = "calling"]
    /\ Find(c, NoEvidence)
    /\ result' = [result EXCEPT ![c] = Harmless("ok")]
    /\ UNCHANGED <<mode, thresholds, count, peak>>

Correct(c) ==
    /\ At(c, "analyzed") /\ CorrectionDue(c)
    /\ chat' = [chat EXCEPT ![c].step = "calling", ![c].retries = @ + 1]
    /\ Find(c, NoEvidence)
    /\ result' = [result EXCEPT ![c] = Harmless("ok")]
    /\ UNCHANGED <<mode, thresholds, count, peak>>

\* The count saturates at MaxCount.
Record(c) ==
    /\ \/ At(c, "analyzed") /\ ~CorrectionDue(c)
       \/ At(c, "failed")
    /\ count' = IF count < MaxCount THEN count + 1 ELSE count
    /\ peak' = IF count' > peak THEN count' ELSE peak
    /\ chat' = [chat EXCEPT ![c] = NewChat]
    /\ Find(c, NoEvidence)
    /\ result' = [result EXCEPT ![c] = Harmless("ok")]
    /\ UNCHANGED <<mode, thresholds>>

\* ProvenanceLog.rollback: fewer interactions are active.
Rollback ==
    /\ \E n \in 0 .. count : n < count /\ count' = n
    /\ UNCHANGED <<mode, thresholds, peak, chat, evidence, result>>

Analyze(c) ==
    \/ SetThreshold(c) \/ Measure(c) \/ Warn(c) \/ ConcludeUnjudged(c)
    \/ Judge(c) \/ Probe(c) \/ ProbeFails(c)
    \/ ConcludeReported(c) \/ ConcludeEnterprise(c)

Serve(c) ==
    Answer(c) \/ ProviderFails(c) \/ Analyze(c) \/ Correct(c) \/ Record(c)

Next == Rollback \/ \E c \in Chat : Begin(c) \/ Serve(c)

Spec == Init /\ [][Next]_vars

\* A chat that has begun goes on: the provider, the judge and the probes return
\* or fail (their calls have timeouts).
FairSpec == Spec /\ \A c \in Chat : WF_vars(Serve(c))

----------------------------------------------------------------------------
(* Properties                                                              *)

\* The decision on evidence e by one set of thresholds t, when nobody interferes.
Decision(e, t, skip) ==
    IF mode.enterprise THEN DecideEnterprise(e, t["l3"])
    ELSE IF e.score < t["l1"] THEN Harmless("ok")
    ELSE IF e.score < t["l2"] THEN Harmless("l1_warning")
    ELSE IF ~mode.judge THEN DecideUnjudged(e.score, t["l3"])
    ELSE IF IsClear(e, t["l3"]) THEN Harmless("l2_judge")
    ELSE IF skip THEN Result("l2_judge", TRUE, TRUE)
    ELSE DecideReported(e, t["l3"])

\* The thresholds after n interactions, and each threshold after a number of its own.
T(n) == CalculateThresholds[mode.profile][n]
Mixed(i, j, k) == [l1 |-> T(i)["l1"], l2 |-> T(j)["l2"], l3 |-> T(k)["l3"]]

DecidedBy(c, t) ==
    LET d == Decision(evidence[c], t, Skips(c))
    IN  result[c].tier = d.tier /\ result[c].action = d.action

\* No threshold the agent has had lies in a higher tier: so for the defaults,
\* (0.15, 0.30, 0.50) growing to (0.25, 0.45, 0.70), but the values are free.
Separated ==
    \A m, n \in 0 .. peak : T(m)["l1"] <= T(n)["l2"] /\ T(m)["l2"] <= T(n)["l3"]

\* Though chats overwrite one another's thresholds halfway through an analysis,
\* the tier of a result and whether it requires action follow from thresholds the
\* agent has had: from those of a single count, so that no mixture shows, if the
\* tiers are separated; from one of a count of its own for each tier if not.
TierJustified ==
    \A c \in Chat : At(c, "analyzed") =>
        \E i, j, k \in 0 .. peak :
            /\ DecidedBy(c, Mixed(i, j, k))
            /\ Separated => i = j /\ j = k

AboveAll(score) == \A n \in 0 .. peak, t \in Tier : score >= T(n)[t]

\* An answer whose score reaches every threshold the agent has had, whichever of
\* them other chats leave in the engine, is blocked, in every mode and whatever
\* the judge and the probes say.
HighScoreBlocks ==
    \A c \in Chat :
        At(c, "analyzed") /\ AboveAll(evidence[c].score) => result[c].blocked

\* A convincing finding of the judge does not escape the probe battery: if the
\* answer is returned rather than corrected, a battery has been started.
FindingIsProbed ==
    \A c \in Chat :
        /\ At(c, "analyzed") /\ ~CorrectionDue(c)
        /\ IsProblematic(evidence[c].judge)
        => chat[c].batteries > 0

\* Corrections do not multiply the cost: a chat starts one battery at most,
\* however many answers of its are analyzed.
ProbedAtMostOnce == \A c \in Chat : chat[c].batteries <= 1

\* docs/architecture.md:104 says of the judge: "Triggered when L1 score exceeds
\* `l1_threshold`" (so engine.py:8 and l2_judge.py:6).  The engine asks it from
\* the second threshold on.
JudgeIsAsked ==
    \A c \in Chat :
        /\ At(c, "analyzed") /\ mode.judge
        /\ \A n \in 0 .. peak : evidence[c].score > T(n)["l1"]
        => evidence[c].judge.verdict # "none"

\* The correction loop ends: every chat returns.
ChatEnds == \A c \in Chat : []<>At(c, "idle")
============================================================================
