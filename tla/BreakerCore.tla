---------------------------- MODULE BreakerCore ----------------------------
(***************************************************************************)
(* The pure part of core/circuit_breaker.py: the state of one              *)
(* CircuitBreaker object and what each method running under the object's   *)
(* lock does to it.  A method is an operator from the breaker before the   *)
(* call to the breaker after it; modules that model the threads calling    *)
(* the methods apply the operators to a variable.                          *)
(*                                                                         *)
(* The code stores last_failure_time and compares time.time() minus it     *)
(* with recovery_timeout, and with nothing else.  The breaker therefore    *)
(* carries `elapsed', the time since the last failure, saturating at       *)
(* RecoveryTimeout; no failure yet (infinite in the code) is saturated.    *)
(***************************************************************************)
EXTENDS Naturals

CONSTANTS
    FailureThreshold,   \* failures counted in CLOSED before the circuit opens
    RecoveryTimeout,    \* clock ticks from the last failure to the recovery test
    HalfOpenMaxCalls    \* calls granted in one HALF_OPEN period

ASSUME BreakerAssumption ==
    /\ FailureThreshold \in Nat \ {0}
    /\ RecoveryTimeout \in Nat
    /\ HalfOpenMaxCalls \in Nat

CircuitState == {"closed", "open", "half_open"}

Breaker == [state         : CircuitState,
            failureCount  : Nat,
            halfOpenCalls : 0 .. HalfOpenMaxCalls,
            elapsed       : 0 .. RecoveryTimeout]

NewBreaker == [state         |-> "closed",
               failureCount  |-> 0,
               halfOpenCalls |-> 0,
               elapsed       |-> RecoveryTimeout]

\* _transition_to: a HALF_OPEN period starts with no slot taken, a CLOSED one
\* with no failure counted; opening keeps both counters.
TransitionTo(b, s) ==
    [b EXCEPT !.state = s,
              !.halfOpenCalls = IF s = "half_open" THEN 0 ELSE @,
              !.failureCount  = IF s = "closed" THEN 0 ELSE @]

----------------------------------------------------------------------------
(* The `state' property: reading it may start the recovery test.           *)

\* Mutant: the recovery test starts without waiting.
RefreshedEagerly(b) ==
    IF b.state = "open" THEN TransitionTo(b, "half_open") ELSE b

Refreshed(b) ==
    IF b.state = "open" /\ b.elapsed >= RecoveryTimeout
    THEN TransitionTo(b, "half_open")
    ELSE b

----------------------------------------------------------------------------
(* record_success and record_failure                                       *)

\* Mutant: a success closes the circuit whatever its state.
RecordSuccessAlwaysCloses(b) == TransitionTo(b, "closed")

\* Mutant: a success in HALF_OPEN does not close the circuit.
RecordSuccessIgnored(b) == b

RecordSuccess(b) ==
    IF b.state = "half_open" THEN TransitionTo(b, "closed") ELSE b

Failed(b)  == [b EXCEPT !.elapsed = 0]
Counted(b) == [Failed(b) EXCEPT !.failureCount = @ + 1]

\* Mutant: off by one, the circuit opens one failure late.
RecordFailureLate(b) ==
    CASE b.state = "half_open" -> TransitionTo(Failed(b), "open")
      [] b.state = "open"      -> Failed(b)
      [] b.state = "closed"    -> IF Counted(b).failureCount > FailureThreshold
                                  THEN TransitionTo(Counted(b), "open")
                                  ELSE Counted(b)

\* Mutant: a failed probe leaves the circuit in HALF_OPEN.
RecordFailureProbeIgnored(b) ==
    CASE b.state = "half_open" -> Failed(b)
      [] b.state = "open"      -> Failed(b)
      [] b.state = "closed"    -> IF Counted(b).failureCount >= FailureThreshold
                                  THEN TransitionTo(Counted(b), "open")
                                  ELSE Counted(b)

\* In OPEN a failure only restarts the wait for the recovery test.
RecordFailure(b) ==
    CASE b.state = "half_open" -> TransitionTo(Failed(b), "open")
      [] b.state = "open"      -> Failed(b)
      [] b.state = "closed"    -> IF Counted(b).failureCount >= FailureThreshold
                                  THEN TransitionTo(Counted(b), "open")
                                  ELSE Counted(b)

----------------------------------------------------------------------------
(* allow_request: what it answers and what it leaves behind.               *)

\* Mutant: off by one, a test grants one call too many.
HasFreeSlotOneMore(b) == b.halfOpenCalls <= HalfOpenMaxCalls

HasFreeSlot(b) == b.halfOpenCalls < HalfOpenMaxCalls

Grants(b) ==
    \/ Refreshed(b).state = "closed"
    \/ Refreshed(b).state = "half_open" /\ HasFreeSlot(Refreshed(b))

\* Mutant: the granted slot is not counted.
AfterAllowUncounted(b) == Refreshed(b)

AfterAllow(b) ==
    IF Refreshed(b).state = "half_open" /\ HasFreeSlot(Refreshed(b))
    THEN [Refreshed(b) EXCEPT !.halfOpenCalls = @ + 1]
    ELSE Refreshed(b)

----------------------------------------------------------------------------
(* reset, and the clock                                                    *)

Reset(b) ==
    TransitionTo([b EXCEPT !.failureCount = 0, !.halfOpenCalls = 0], "closed")

Aged(b) == [b EXCEPT !.elapsed = IF @ < RecoveryTimeout THEN @ + 1 ELSE @]
============================================================================
