------------------------ MODULE WrapperBreakerProofs ------------------------
(***************************************************************************)
(* Theorems about WrapperBreaker, for any chats, background tasks and      *)
(* recovery timeout.                                                       *)
(***************************************************************************)
EXTENDS WrapperBreaker, TLAPS

\* A chat let in since the last trip or reset holds the one slot there is.
SlotHeld == letIn > 0 => breaker.state = "half_open" /\ ~HasFreeSlot(breaker)

\* While a trip of the current engine is owed a reset its flag is up, so a chat
\* that began meanwhile has not read it as clear.
FlagUp ==
    /\ owed => tripped
    /\ \A c \in Chat : warned[c] => chat[c] # "clear"

\* The inductive invariant: that letIn is at most one rests on the slot still
\* being held, and that no warned chat is let in on what it has read.
Inv ==
    /\ TypeOK
    /\ letIn <= 1
    /\ SlotHeld
    /\ FlagUp

----------------------------------------------------------------------------
(* The breaker with one failure to open it and one slot                    *)

\* The methods of core/circuit_breaker.py the wrapper calls return breakers.
LEMMA MethodsToBreakers ==
    ASSUME NEW b \in Breaker
    PROVE  /\ NewBreaker \in Breaker
           /\ Refreshed(b) \in Breaker
           /\ AfterAllow(b) \in Breaker
           /\ RecordFailure(b) \in Breaker
           /\ Reset(b) \in Breaker
           /\ Aged(b) \in Breaker
           /\ Aged(b).state = b.state /\ Aged(b).halfOpenCalls = b.halfOpenCalls
<1>1. NewBreaker \in Breaker
  BY BreakerAssumption DEF NewBreaker, Breaker, CircuitState
<1>2. \A a \in Breaker, s \in CircuitState : TransitionTo(a, s) \in Breaker
  <2> SUFFICES ASSUME NEW a \in Breaker, NEW s \in CircuitState
               PROVE  TransitionTo(a, s) \in Breaker
    OBVIOUS
  <2> DEFINE calls == IF s = "half_open" THEN 0 ELSE a.halfOpenCalls
             count == IF s = "closed" THEN 0 ELSE a.failureCount
  <2>1. calls \in 0 .. HalfOpenMaxCalls /\ count \in Nat
    BY BreakerAssumption DEF Breaker
  <2>2. TransitionTo(a, s) = [a EXCEPT !.state = s, !.halfOpenCalls = calls,
                                       !.failureCount = count]
    BY DEF TransitionTo
  <2> HIDE DEF calls, count
  <2> QED
    BY <2>1, <2>2 DEF Breaker
<1>3. Refreshed(b) \in Breaker
  BY <1>2 DEF Refreshed, CircuitState
<1>4. AfterAllow(b) \in Breaker
  <2> DEFINE now == Refreshed(b)
  <2>1. now \in Breaker
    BY <1>3
  <2>2. AfterAllow(b) = IF now.state = "half_open" /\ HasFreeSlot(now)
                        THEN [now EXCEPT !.halfOpenCalls = @ + 1] ELSE now
    BY DEF AfterAllow
  <2> HIDE DEF now
  <2> QED
    BY <2>1, <2>2, BreakerAssumption DEF HasFreeSlot, Breaker
<1>5. RecordFailure(b) \in Breaker
  <2>1. Failed(b) \in Breaker
    BY BreakerAssumption DEF Failed, Breaker
  <2>2. Counted(b) \in Breaker
    BY <2>1 DEF Counted, Breaker
  <2>3. b.state \in CircuitState
    BY DEF Breaker
  <2> QED
    BY <1>2, <2>1, <2>2, <2>3 DEF RecordFailure, CircuitState
<1>6. Reset(b) \in Breaker
  <2>0. 0 \in 0 .. HalfOpenMaxCalls
    BY BreakerAssumption
  <2>1. [b EXCEPT !.failureCount = 0, !.halfOpenCalls = 0] \in Breaker
    BY <2>0 DEF Breaker
  <2> QED
    BY <1>2, <2>1 DEF Reset, CircuitState
<1>7. /\ Aged(b) \in Breaker
      /\ Aged(b).state = b.state /\ Aged(b).halfOpenCalls = b.halfOpenCalls
  BY BreakerAssumption DEF Aged, Breaker
<1> QED
  BY <1>1, <1>3, <1>4, <1>5, <1>6, <1>7

\* allow_request (core/circuit_breaker.py:207-223) asked by the wrapper: a slot
\* that is held stays held and nobody is granted another, and a call granted in
\* a circuit that is not closed takes the slot.
LEMMA SlotStaysHeld ==
    ASSUME NEW b \in Breaker
    PROVE  /\ b.state = "half_open" => Refreshed(b) = b
           /\ b.state = "half_open" /\ ~HasFreeSlot(b) =>
                 ~Grants(b) /\ AfterAllow(b) = b
           /\ Grants(b) /\ AfterAllow(b).state # "closed" =>
                 /\ AfterAllow(b).state = "half_open"
                 /\ ~HasFreeSlot(AfterAllow(b))
<1>1. b.state = "half_open" => Refreshed(b) = b
  BY DEF Refreshed
<1>2. b.state = "half_open" /\ ~HasFreeSlot(b) => ~Grants(b) /\ AfterAllow(b) = b
  BY <1>1 DEF Grants, AfterAllow
<1>3. ASSUME Grants(b), AfterAllow(b).state # "closed"
      PROVE  /\ AfterAllow(b).state = "half_open"
             /\ ~HasFreeSlot(AfterAllow(b))
  <2> DEFINE now == Refreshed(b)
  <2>1. now \in Breaker
    BY MethodsToBreakers
  <2>2. now.state = "half_open" /\ HasFreeSlot(now)
    BY <1>3 DEF Grants, AfterAllow
  <2>3. AfterAllow(b) = [now EXCEPT !.halfOpenCalls = @ + 1]
    BY <2>2 DEF AfterAllow
  <2> HIDE DEF now
  <2> QED
    BY <2>1, <2>2, <2>3, WrapperAssumption DEF HasFreeSlot, Breaker
<1> QED
  BY <1>1, <1>2, <1>3

----------------------------------------------------------------------------
(* The steps                                                               *)

LEMMA InitInv == Init => Inv
<1> SUFFICES ASSUME Init PROVE Inv
  OBVIOUS
<1>1. breaker \in Breaker
  BY BreakerAssumption DEF Init, NewBreaker, Breaker, CircuitState
<1>2. letIn \in 0 .. 2
  BY DEF Init
<1>3. /\ chat \in [Chat -> ChatStep]
      /\ task \in [Task -> TaskStep]
      /\ warned \in [Chat -> BOOLEAN]
  BY DEF Init, ChatStep, TaskStep
<1>4. TypeOK
  BY <1>1, <1>2, <1>3 DEF Init, TypeOK
<1> QED
  BY <1>4 DEF Init, Inv, SlotHeld, FlagUp

\* _check_circuit_breaker: only a chat that has read the flag as clear is let
\* in, and nobody is while the slot is held.
LEMMA CheckStep ==
    ASSUME Inv, NEW c \in Chat, Check(c)
    PROVE  Inv'
<1> USE DEF Inv, TypeOK, SlotHeld, FlagUp
<1>1. CASE ReadFlag(c)
  BY <1>1 DEF ReadFlag, ChatStep
<1>2. CASE Allow(c)
  <2>1. breaker' \in Breaker
    BY <1>2, MethodsToBreakers DEF Allow
  <2>2. chat' \in [Chat -> ChatStep] /\ \A d \in Chat : chat'[d] = "clear" => chat[d] = "clear"
    BY <1>2 DEF Allow, ChatStep
  <2>3. CASE LetsIn(c) /\ breaker'.state # "closed"
    <3>1. letIn = 0
      BY <2>3, SlotStaysHeld DEF LetsIn
    <3>2. breaker'.state = "half_open" /\ ~HasFreeSlot(breaker')
      BY <1>2, <2>3, SlotStaysHeld DEF LetsIn, Allow
    <3> QED
      BY <1>2, <2>1, <2>2, <2>3, <3>1, <3>2 DEF Allow
  <2>4. CASE ~(LetsIn(c) /\ breaker'.state # "closed")
    <3>1. letIn' = letIn
      BY <1>2, <2>4 DEF Allow
    <3>2. letIn > 0 => breaker' = breaker
      BY <1>2, SlotStaysHeld DEF Allow
    <3> QED
      BY <1>2, <2>1, <2>2, <3>1, <3>2 DEF Allow
  <2> QED
    BY <2>3, <2>4
<1>3. CASE AskAgain(c)
  <2>1. breaker' \in Breaker
    BY <1>3, MethodsToBreakers DEF AskAgain
  <2>2. letIn > 0 => breaker' = breaker
    BY <1>3, SlotStaysHeld DEF AskAgain
  <2> QED
    BY <1>3, <2>1, <2>2 DEF AskAgain, ChatStep, history
<1>4. CASE Raise(c)
  <2>1. breaker' \in Breaker
    BY <1>4, MethodsToBreakers DEF Raise
  <2>2. letIn > 0 => breaker' = breaker
    BY <1>4, SlotStaysHeld DEF Raise
  <2> QED
    BY <1>4, <2>1, <2>2 DEF Raise, ChatStep, history
<1> QED
  BY <1>1, <1>2, <1>3, <1>4 DEF Check

LEMMA FinishStep ==
    ASSUME Inv, NEW c \in Chat, Finish(c)
    PROVE  Inv'
<1>1. task' \in [Task -> TaskStep]
  BY DEF Inv, TypeOK, Finish, TaskStep
<1>2. chat' \in [Chat -> ChatStep] /\ \A d \in Chat : chat'[d] = "clear" => chat[d] = "clear"
  BY DEF Inv, TypeOK, Finish, ChatStep
<1> QED
  BY <1>1, <1>2 DEF Inv, TypeOK, SlotHeld, FlagUp, Finish, history

LEMMA RediscoverStep ==
    ASSUME Inv, Rediscover
    PROVE  Inv'
<1>1. task' \in [Task -> TaskStep]
  BY DEF Inv, TypeOK, Rediscover, Outlives, TaskStep
<1> QED
  BY <1>1 DEF Inv, TypeOK, SlotHeld, FlagUp, Rediscover

LEMMA WorkStep ==
    ASSUME Inv, NEW w \in Task, Work(w)
    PROVE  Inv'
<1>1. task' \in [Task -> TaskStep]
  BY DEF Inv, TypeOK, Work, FinishWell, RaiseFlag, ReportFailure, TaskStep
<1>2. CASE FinishWell(w)
  BY <1>1, <1>2 DEF Inv, TypeOK, SlotHeld, FlagUp, FinishWell
<1>3. CASE RaiseFlag(w)
  BY <1>1, <1>3 DEF Inv, TypeOK, SlotHeld, FlagUp, RaiseFlag
<1>4. CASE ReportFailure(w)
  <2>1. breaker' \in Breaker
    BY <1>4, MethodsToBreakers DEF ReportFailure, Inv, TypeOK
  <2>2. letIn' = 0 /\ UNCHANGED <<tripped, chat, resetting, warned>>
    BY <1>4 DEF ReportFailure
  <2>3. owed' = (owed \/ (task[w] = "l3tripped" /\ tripped))
    BY <1>4 DEF ReportFailure
  <2>4. owed' \in BOOLEAN /\ (owed' => tripped)
    BY <2>3, Zenon DEF Inv, TypeOK, FlagUp
  <2>5. TypeOK'
    BY <1>1, <2>1, <2>2, <2>4 DEF Inv, TypeOK
  <2> QED
    BY <2>1, <2>2, <2>4, <2>5 DEF Inv, SlotHeld, FlagUp
<1> QED
  BY <1>2, <1>3, <1>4 DEF Work

LEMMA ResetStep ==
    ASSUME Inv, ResetBreaker \/ ResetEngine
    PROVE  Inv'
<1>1. CASE ResetBreaker
  <2>1. breaker' \in Breaker
    BY <1>1, MethodsToBreakers DEF ResetBreaker, Inv, TypeOK
  <2>2. /\ letIn' = 0 /\ owed' = FALSE
        /\ UNCHANGED <<tripped, chat, task>>
        /\ resetting' = TRUE
    BY <1>1 DEF ResetBreaker
  <2>3. warned' \in [Chat -> BOOLEAN] /\ \A c \in Chat : ~warned'[c]
    BY <1>1 DEF ResetBreaker
  <2>4. TypeOK'
    <3>1. letIn' \in 0 .. 2
      BY <2>2
    <3>2. resetting' \in BOOLEAN /\ owed' \in BOOLEAN /\ tripped' \in BOOLEAN
      BY <2>2, Zenon DEF Inv, TypeOK
    <3> QED
      BY <2>1, <2>2, <2>3, <3>1, <3>2 DEF Inv, TypeOK
  <2> QED
    BY <2>1, <2>2, <2>3, <2>4 DEF Inv, SlotHeld, FlagUp
<1>2. CASE ResetEngine
  BY <1>2 DEF Inv, TypeOK, SlotHeld, FlagUp, ResetEngine
<1> QED
  BY <1>1, <1>2

LEMMA TickStep ==
    ASSUME Inv, Tick
    PROVE  Inv'
<1>1. breaker' \in Breaker
  BY MethodsToBreakers DEF Tick, Inv, TypeOK
<1>2. /\ breaker'.state = breaker.state
      /\ breaker'.halfOpenCalls = breaker.halfOpenCalls
  BY MethodsToBreakers DEF Tick, Inv, TypeOK
<1> QED
  BY <1>1, <1>2 DEF Inv, TypeOK, SlotHeld, FlagUp, HasFreeSlot, Tick, history

LEMMA InvStep == Inv /\ [Next]_vars => Inv'
<1> SUFFICES ASSUME Inv, [Next]_vars PROVE Inv'
  OBVIOUS
<1>1. CASE UNCHANGED vars
  BY <1>1 DEF Inv, TypeOK, SlotHeld, FlagUp, vars
<1>2. CASE Next
  BY <1>2, CheckStep, FinishStep, RediscoverStep, WorkStep, ResetStep, TickStep
  DEF Next
<1> QED
  BY <1>1, <1>2

\* A chat gets to the provider only from a flag it has read as clear.
LEMMA LetInClear ==
    ASSUME Inv, [Next]_vars, NEW c \in Chat,
           chat[c] # "serving", chat'[c] = "serving"
    PROVE  chat[c] = "clear"
<1>1. chat \in [Chat -> ChatStep]
  BY DEF Inv, TypeOK
<1>2. ASSUME NEW d \in Chat, Check(d) \/ Finish(d)
      PROVE  chat[c] = "clear"
  <2>1. CASE Allow(d)
    BY <1>1, <2>1 DEF Allow, LetsIn
  <2>2. CASE ~Allow(d)
    BY <1>1, <1>2, <2>2 DEF Check, ReadFlag, AskAgain, Raise, Finish
  <2> QED
    BY <2>1, <2>2
<1>3. ~UNCHANGED chat
  OBVIOUS
<1>4. \E d \in Chat : Check(d) \/ Finish(d)
  BY <1>3 DEF Next, vars, Rediscover, Work, FinishWell, RaiseFlag, ReportFailure,
              ResetBreaker, ResetEngine, Tick
<1> QED
  BY <1>2, <1>4

----------------------------------------------------------------------------
(* The theorems                                                            *)

LEMMA Invariance == Spec => []Inv
<1>1. Init => Inv
  BY InitInv
<1>2. Inv /\ [Next]_vars => Inv'
  BY InvStep
<1> QED
  BY <1>1, <1>2, PTL DEF Spec

\* The breaker, the flag and the threads stay within their types.
THEOREM TypeCorrect == Spec => []TypeOK
<1>1. Inv => TypeOK
  BY DEF Inv
<1> QED
  BY <1>1, Invariance, PTL

\* After a trip and until a reset, at most one chat is let in before the next
\* trip (_check_circuit_breaker, core/wrapper.py:936-947), for any number of
\* chats and background tasks.
THEOREM OneProbeGetsIn == Spec => []OneProbePerTrip
<1>1. Inv => OneProbePerTrip
  BY WrapperAssumption DEF Inv, TypeOK, OneProbePerTrip
<1> QED
  BY <1>1, Invariance, PTL

\* A chat that began after a completed L3 trip of the current engine
\* (_handle_l3_report, divergence/engine.py; _on_critical_l3_report,
\* core/wrapper.py:919-930) is not let in before reset_circuit_breaker.
THEOREM StaysBlocked == Spec => BlockedUntilReset
<1>1. Inv /\ [Next]_vars =>
        [\A c \in Chat : chat[c] # "serving" /\ chat'[c] = "serving" => ~warned[c]]_vars
  BY LetInClear DEF Inv, FlagUp
<1> QED
  BY <1>1, Invariance, PTL DEF Spec, BlockedUntilReset

----------------------------------------------------------------------------
(* Resetting restores the wrapper                                          *)

\* The first of the two resets is done, and both are.
Closed == breaker.state = "closed"
HalfReset == Closed /\ resetting
Restored == Closed /\ ~tripped

\* No background task finds anything critical in this step.
Calm == \A w \in Task : ~RaiseFlag(w) /\ ~ReportFailure(w)

\* What a chat or the clock does leaves a closed breaker closed.
LEMMA ClosedStays ==
    ASSUME NEW b \in Breaker, b.state = "closed"
    PROVE  /\ Refreshed(b).state = "closed"
           /\ AfterAllow(b).state = "closed"
           /\ Aged(b).state = "closed"
<1>1. Refreshed(b) = b
  BY DEF Refreshed
<1>2. AfterAllow(b) = b
  BY <1>1 DEF AfterAllow
<1> QED
  BY <1>1, <1>2, MethodsToBreakers

LEMMA ResetCloses ==
    ASSUME NEW b \in Breaker PROVE Reset(b).state = "closed"
<1> DEFINE cleared == [b EXCEPT !.failureCount = 0, !.halfOpenCalls = 0]
<1>1. cleared \in Breaker
  <2>1. 0 \in 0 .. HalfOpenMaxCalls
    BY BreakerAssumption
  <2> QED
    BY <2>1 DEF Breaker
<1> HIDE DEF cleared
<1> QED
  BY <1>1 DEF Reset, TransitionTo, Breaker, cleared

\* In a calm step a closed breaker stays closed, a flag that is down stays down,
\* and a reset in progress stays so or ends with the flag down.
LEMMA CalmStep ==
    ASSUME Inv, [Next]_vars, [Calm]_vars, Closed
    PROVE  /\ Closed'
           /\ ~tripped => ~tripped'
           /\ resetting => resetting' \/ ~tripped'
<1>1. breaker \in Breaker /\ breaker.state = "closed"
  BY DEF Inv, TypeOK, Closed
<1>2. CASE UNCHANGED vars
  BY <1>1, <1>2 DEF vars, Closed
<1>3. CASE \E c \in Chat : Check(c) \/ Finish(c)
  BY <1>1, <1>3, ClosedStays DEF Closed, Check, ReadFlag, Allow, AskAgain, Raise, Finish
<1>4. CASE Rediscover
  BY <1>1, <1>4 DEF Closed, Rediscover
<1>5. CASE \E w \in Task : Work(w)
  <2>1. CASE UNCHANGED vars
    BY <2>1, <1>2
  <2>2. CASE Calm
    BY <1>1, <1>5, <2>2 DEF Calm, Closed, Work, FinishWell
  <2> QED
    BY <2>1, <2>2, <1>2
<1>6. CASE ResetBreaker
  BY <1>1, <1>6, ResetCloses DEF Closed, ResetBreaker
<1>7. CASE ResetEngine
  BY <1>1, <1>7 DEF Closed, ResetEngine
<1>8. CASE Tick
  BY <1>1, <1>8, ClosedStays DEF Closed, Tick
<1> QED
  BY <1>2, <1>3, <1>4, <1>5, <1>6, <1>7, <1>8 DEF Next

\* If background tasks find nothing critical any more and resets keep beginning
\* (reset_circuit_breaker, core/wrapper.py), the wrapper is open for good.  No
\* fairness is needed: the next reset begins only when the last one is complete.
THEOREM ResetsRestore == Spec => ResetRestores
<1>1. Inv /\ [Next]_vars /\ [Calm]_vars /\ HalfReset => HalfReset' \/ Restored'
  BY CalmStep DEF HalfReset, Restored
<1>2. Inv /\ [Next]_vars /\ [Calm]_vars /\ Restored => Restored'
  BY CalmStep DEF Restored
<1>3. Inv /\ <<ResetBreaker>>_vars => HalfReset'
  BY ResetCloses DEF Inv, TypeOK, HalfReset, Closed, ResetBreaker
<1>4. <<ResetBreaker>>_vars => ~HalfReset
  BY DEF HalfReset, ResetBreaker
<1>5. []Inv /\ [][Next]_vars /\ <>[][Calm]_vars /\ []<><<ResetBreaker>>_vars => <>[]Restored
  BY <1>1, <1>2, <1>3, <1>4, PTL
<1>6. ResetRestores <=> (<>[][Calm]_vars /\ []<><<ResetBreaker>>_vars => <>[]Restored)
  BY DEF ResetRestores, Calm, Restored, Closed
<1> QED
  BY <1>5, <1>6, Invariance, PTL DEF Spec
=============================================================================
