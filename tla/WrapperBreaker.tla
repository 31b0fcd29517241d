--------------------------- MODULE WrapperBreaker ---------------------------
(***************************************************************************)
(* How TheseusWrapper (core/wrapper.py) uses its CircuitBreaker: every chat*)
(* asks before it calls the provider, a critical finding of a background   *)
(* task trips the breaker, an operator resets it.  There are two switches: *)
(* the breaker of the wrapper, and the flag of the divergence engine       *)
(* (divergence/engine.py), which knows no recovery.  Nobody holds a lock   *)
(* over both, and nobody ever calls record_success.                        *)
(*                                                                         *)
(* chat[c]  where a chat is in _check_circuit_breaker: before it, after    *)
(*          reading the engine's flag (clear or flagged), refused once,    *)
(*          about to raise, or past it and calling the provider            *)
(* task[w]  a background task: an L3 probe run (of the current engine or   *)
(*          of one replaced since, "l3stale"), a run found unhealthy whose *)
(*          callback is due ("l3tripped", and "l3lost" if its engine was   *)
(*          replaced), or a shadow request of a staged rule                *)
(* resetting  reset_circuit_breaker is between its two resets              *)
(* The others are history: letIn, the chats let in since the last trip or  *)
(* reset while the circuit was not closed, saturating at 2; owed, that a   *)
(* trip of the current engine has been completed and not been reset;       *)
(* warned[c], that it had when chat c began.                               *)
(***************************************************************************)
EXTENDS BreakerCore, FiniteSets

CONSTANTS
    Chat,   \* threads inside chat, achat, stream_chat or astream_chat
    Task    \* background worker threads and asyncio tasks

ASSUME WrapperAssumption ==
    /\ FailureThreshold = 1
    /\ HalfOpenMaxCalls = 1

VARIABLES breaker, tripped, chat, task, resetting, letIn, owed, warned

vars == <<breaker, tripped, chat, task, resetting, letIn, owed, warned>>
history == <<letIn, owed, warned>>

ChatStep == {"idle", "clear", "flagged", "refused", "raising", "serving"}
TaskStep == {"none", "l3", "l3stale", "l3tripped", "l3lost", "shadow"}

TypeOK ==
    /\ breaker \in Breaker
    /\ tripped \in BOOLEAN
    /\ chat \in [Chat -> ChatStep]
    /\ task \in [Task -> TaskStep]
    /\ resetting \in BOOLEAN
    /\ letIn \in 0 .. 2
    /\ owed \in BOOLEAN
    /\ warned \in [Chat -> BOOLEAN]

Init ==
    /\ breaker = NewBreaker
    /\ tripped = FALSE
    /\ chat = [c \in Chat |-> "idle"]
    /\ task = [w \in Task |-> "none"]
    /\ resetting = FALSE
    /\ letIn = 0
    /\ owed = FALSE
    /\ warned = [c \in Chat |-> FALSE]

----------------------------------------------------------------------------
(* _check_circuit_breaker                                                  *)

ReadFlag(c) ==
    /\ chat[c] = "idle"
    /\ chat' = [chat EXCEPT ![c] = IF tripped THEN "flagged" ELSE "clear"]
    /\ warned' = [warned EXCEPT ![c] = owed]
    /\ UNCHANGED <<breaker, tripped, task, resetting, letIn, owed>>

\* Mutant: the flag of the engine is not looked at.
LetsInUnflagged(c) == chat[c] \in {"clear", "flagged"} /\ Grants(breaker)

LetsIn(c) == chat[c] = "clear" /\ Grants(breaker)

Allow(c) ==
    /\ chat[c] \in {"clear", "flagged"}
    /\ breaker' = AfterAllow(breaker)
    /\ chat' = [chat EXCEPT ![c] = IF LetsIn(c) THEN "serving" ELSE "refused"]
    /\ letIn' = IF LetsIn(c) /\ breaker'.state # "closed" /\ letIn < 2
                THEN letIn + 1 ELSE letIn
    /\ UNCHANGED <<tripped, task, resetting, owed, warned>>

\* A refused chat asks once more, to choose the state its error will carry; a
\* yes takes a slot of the recovery test all the same.
AskAgain(c) ==
    /\ chat[c] = "refused"
    /\ breaker' = AfterAllow(breaker)
    /\ chat' = [chat EXCEPT ![c] = IF Grants(breaker) THEN "idle" ELSE "raising"]
    /\ UNCHANGED <<tripped, task, resetting, history>>

Raise(c) ==
    /\ chat[c] = "raising"
    /\ breaker' = Refreshed(breaker)
    /\ chat' = [chat EXCEPT ![c] = "idle"]
    /\ UNCHANGED <<tripped, task, resetting, history>>

----------------------------------------------------------------------------
(* The rest of a chat                                                      *)

\* It may leave a background task behind.  A critical L3 report of a run made
\* inline goes through the same two steps in the thread of the chat.
Finish(c) ==
    /\ chat[c] = "serving"
    /\ chat' = [chat EXCEPT ![c] = "idle"]
    /\ \/ UNCHANGED task
       \/ \E w \in Task, kind \in {"l3", "shadow"} :
             /\ task[w] = "none"
             /\ task' = [task EXCEPT ![w] = kind]
    /\ UNCHANGED <<breaker, tripped, resetting, history>>

\* _apply_discovered_risk_profile: other capabilities, a new engine.
Outlives(step) ==
    CASE step = "l3"        -> "l3stale"
      [] step = "l3tripped" -> "l3lost"
      [] OTHER              -> step

\* Whoever is about to call a model resolves its policy and may find them: a chat
\* for its own model or the judge's, a probe run, a shadow request.
CallsModels ==
    \/ \E c \in Chat : chat[c] = "serving"
    \/ \E w \in Task : task[w] \in {"l3", "l3stale", "shadow"}

Rediscover ==
    /\ CallsModels
    /\ tripped' = FALSE
    /\ task' = [w \in Task |-> Outlives(task[w])]
    /\ owed' = FALSE
    /\ warned' = [d \in Chat |-> FALSE]
    /\ UNCHANGED <<breaker, chat, resetting, letIn>>

----------------------------------------------------------------------------
(* Background tasks                                                        *)

FinishWell(w) ==
    /\ task[w] \in {"l3", "l3stale", "shadow"}
    /\ task' = [task EXCEPT ![w] = "none"]
    /\ UNCHANGED <<breaker, tripped, chat, resetting, letIn, owed, warned>>

\* _handle_l3_report: the flag first, the breaker by the callback after it.
RaiseFlag(w) ==
    /\ \/ /\ task[w] = "l3"
          /\ tripped' = TRUE
          /\ task' = [task EXCEPT ![w] = "l3tripped"]
       \/ /\ task[w] = "l3stale"
          /\ task' = [task EXCEPT ![w] = "l3lost"]
          /\ UNCHANGED tripped
    /\ UNCHANGED <<breaker, chat, resetting, letIn, owed, warned>>

\* _on_critical_l3_report, or the critical shadow of a background task.
ReportFailure(w) ==
    /\ task[w] \in {"l3tripped", "l3lost", "shadow"}
    /\ breaker' = RecordFailure(breaker)
    /\ task' = [task EXCEPT ![w] = "none"]
    /\ letIn' = 0
    /\ owed' = (owed \/ (task[w] = "l3tripped" /\ tripped))
    /\ UNCHANGED <<tripped, chat, resetting, warned>>

----------------------------------------------------------------------------
(* reset_circuit_breaker, and the clock                                    *)

ResetBreaker ==
    /\ ~resetting
    /\ breaker' = Reset(breaker)
    /\ resetting' = TRUE
    /\ letIn' = 0
    /\ owed' = FALSE
    /\ warned' = [c \in Chat |-> FALSE]
    /\ UNCHANGED <<tripped, chat, task>>

\* Mutant: the engine keeps its flag.
ResetEngineForgotten ==
    /\ resetting
    /\ resetting' = FALSE
    /\ owed' = FALSE
    /\ warned' = [c \in Chat |-> FALSE]
    /\ UNCHANGED <<breaker, tripped, chat, task, letIn>>

ResetEngine ==
    /\ resetting
    /\ tripped' = FALSE
    /\ resetting' = FALSE
    /\ owed' = FALSE
    /\ warned' = [c \in Chat |-> FALSE]
    /\ UNCHANGED <<breaker, chat, task, letIn>>

Tick ==
    /\ breaker' = Aged(breaker)
    /\ UNCHANGED <<tripped, chat, task, resetting, history>>

Check(c) == ReadFlag(c) \/ Allow(c) \/ AskAgain(c) \/ Raise(c)
Work(w) == FinishWell(w) \/ RaiseFlag(w) \/ ReportFailure(w)

Next ==
    \/ \E c \in Chat : Check(c) \/ Finish(c)
    \/ Rediscover
    \/ \E w \in Task : Work(w)
    \/ ResetBreaker \/ ResetEngine \/ Tick

Spec == Init /\ [][Next]_vars

\* Chats keep coming, the provider answers, tasks end, time passes, and an
\* operator who has begun a reset completes it.
Fairness ==
    /\ \A c \in Chat : WF_vars(Check(c)) /\ WF_vars(Finish(c))
    /\ \A w \in Task : WF_vars(Work(w))
    /\ WF_vars(ResetEngine)
    /\ WF_vars(Tick)

FairSpec == Spec /\ Fairness

----------------------------------------------------------------------------
(* Properties                                                              *)

\* After a trip and until a reset, at most one chat is let in before the next
\* trip, though every refused chat asks the breaker twice or three times.
OneProbePerTrip == letIn <= HalfOpenMaxCalls

\* Once a critical L3 report has tripped the engine and the breaker, every chat
\* that begins afterwards is blocked until reset_circuit_breaker is called, or
\* discovered capabilities replace the engine: the recovery test of the breaker
\* lets none of them in.
BlockedUntilReset ==
    [][\A c \in Chat : chat[c] # "serving" /\ chat'[c] = "serving" => ~warned[c]]_vars

\* If background tasks find nothing critical any more and the operator keeps
\* resetting, the wrapper is open for good: no late step of an earlier report,
\* of an earlier reset or of a refused chat blocks it again.
ResetRestores ==
    /\ <>[][\A w \in Task : ~RaiseFlag(w) /\ ~ReportFailure(w)]_vars
    /\ []<><<ResetBreaker>>_vars
    => <>[](breaker.state = "closed" /\ ~tripped)

----------------------------------------------------------------------------
(* What the documentation says and the code does not do                    *)

\* circuit-breaker.md:76 (website/docs/reference), "HALF_OPEN --[success]-->
\* CLOSED" and :77, "--[failure]--> OPEN": a recovery test has an outcome.
RecoveryTestEnds == breaker.state = "half_open" ~> breaker.state # "half_open"
============================================================================
