--------------------------- MODULE CircuitBreaker ---------------------------
(***************************************************************************)
(* Threads calling a service inside `with breaker:' (core/circuit_breaker  *)
(* .py, __enter__ and __exit__), an operator who resets the breaker, a     *)
(* monitor that reads it, and the clock.  Every method of the breaker is   *)
(* one locked critical section, so a step here is one critical section;    *)
(* __enter__ needs two, because a refused thread leaves the lock between   *)
(* allow_request and the construction of the CircuitBreakerError.          *)
(*                                                                         *)
(* pc[c]   where thread c is: outside the block, inside it with its call   *)
(*         in flight, or refused and about to raise                        *)
(* probes  (history) the calls in flight that the current recovery test    *)
(*         let in; a transition of the breaker ends the test               *)
(* lost    (history) the slots of that test whose calls have ended without *)
(*         an outcome the breaker counts                                   *)
(* streak  (history) failures recorded since the last success or reset,    *)
(*         saturating at FailureThreshold                                  *)
(***************************************************************************)
EXTENDS BreakerCore, FiniteSets

CONSTANTS
    Caller,     \* threads using the breaker
    Outcomes    \* how a call may end, a subset of Outcome

Outcome == {"success", "infrastructure", "business"}

ASSUME CallerAssumption ==
    /\ IsFiniteSet(Caller)
    /\ Outcomes \subseteq Outcome

VARIABLES breaker, pc, probes, lost, streak

vars == <<breaker, pc, probes, lost, streak>>

TypeOK ==
    /\ breaker \in Breaker
    /\ pc \in [Caller -> {"outside", "calling", "refused"}]
    /\ probes \subseteq Caller
    /\ lost \in Nat
    /\ streak \in 0 .. FailureThreshold

Init ==
    /\ breaker = NewBreaker
    /\ pc = [c \in Caller |-> "outside"]
    /\ probes = {}
    /\ lost = 0
    /\ streak = 0

StillProbing(before, after) == IF before.state = after.state THEN probes ELSE {}
StillLost(before, after) == IF before.state = after.state THEN lost ELSE 0

----------------------------------------------------------------------------
(* __enter__                                                               *)

Enter(c) ==
    /\ pc[c] = "outside"
    /\ Grants(breaker)
    /\ breaker' = AfterAllow(breaker)
    /\ pc' = [pc EXCEPT ![c] = "calling"]
    /\ probes' = StillProbing(breaker, breaker')
                    \cup (IF breaker'.state = "closed" THEN {} ELSE {c})
    /\ lost' = StillLost(breaker, breaker')
    /\ UNCHANGED streak

Refuse(c) ==
    /\ pc[c] = "outside"
    /\ ~Grants(breaker)
    /\ breaker' = AfterAllow(breaker)
    /\ pc' = [pc EXCEPT ![c] = "refused"]
    /\ probes' = StillProbing(breaker, breaker')
    /\ lost' = StillLost(breaker, breaker')
    /\ UNCHANGED streak

\* The rest of a refused __enter__ takes no lock before it reads self.state
\* for the error it raises.
Raise(c) ==
    /\ pc[c] = "refused"
    /\ breaker' = Refreshed(breaker)
    /\ pc' = [pc EXCEPT ![c] = "outside"]
    /\ probes' = StillProbing(breaker, breaker')
    /\ lost' = StillLost(breaker, breaker')
    /\ UNCHANGED streak

----------------------------------------------------------------------------
(* __exit__: an outcome that is neither a success nor an infrastructure    *)
(* error is recorded nowhere.                                              *)

Leave(c) ==
    /\ pc' = [pc EXCEPT ![c] = "outside"]
    /\ probes' = StillProbing(breaker, breaker') \ {c}

Succeed(c) ==
    /\ pc[c] = "calling" /\ "success" \in Outcomes
    /\ breaker' = RecordSuccess(breaker)
    /\ lost' = StillLost(breaker, breaker')
    /\ streak' = 0
    /\ Leave(c)

Fail(c) ==
    /\ pc[c] = "calling" /\ "infrastructure" \in Outcomes
    /\ breaker' = RecordFailure(breaker)
    /\ lost' = StillLost(breaker, breaker')
    /\ streak' = IF streak < FailureThreshold THEN streak + 1 ELSE streak
    /\ Leave(c)

FailBusiness(c) ==
    /\ pc[c] = "calling" /\ "business" \in Outcomes
    /\ lost' = IF c \in probes THEN lost + 1 ELSE lost
    /\ UNCHANGED <<breaker, streak>>
    /\ Leave(c)

----------------------------------------------------------------------------
(* The operator, the monitor and the clock                                 *)

ManualReset ==
    /\ breaker' = Reset(breaker)
    /\ probes' = {}
    /\ lost' = 0
    /\ streak' = 0
    /\ UNCHANGED pc

\* Reading `state' or get_stats() may start the recovery test.
Observe ==
    /\ breaker' = Refreshed(breaker)
    /\ breaker' # breaker
    /\ probes' = {}
    /\ lost' = 0
    /\ UNCHANGED <<pc, streak>>

Tick ==
    /\ breaker' = Aged(breaker)
    /\ UNCHANGED <<pc, probes, lost, streak>>

Exit(c) == Succeed(c) \/ Fail(c) \/ FailBusiness(c)

Next ==
    \/ \E c \in Caller : Enter(c) \/ Refuse(c) \/ Raise(c) \/ Exit(c)
    \/ ManualReset \/ Observe \/ Tick

Spec == Init /\ [][Next]_vars

\* Time passes, a call in flight ends, a refused thread raises, and threads
\* keep calling the service: recovery is driven by traffic.
Fairness ==
    /\ WF_vars(Tick)
    /\ \A c \in Caller : /\ WF_vars(Exit(c))
                         /\ WF_vars(Raise(c))
                         /\ WF_vars(Enter(c) \/ Refuse(c))

FairSpec == Spec /\ Fairness

----------------------------------------------------------------------------
(* Properties                                                              *)

\* While a recovery test runs, the calls it let in and that are still in
\* flight are at most half_open_max_calls, whatever calls of earlier periods
\* do meanwhile.
ProbesBounded ==
    breaker.state = "half_open" => Cardinality(probes) <= HalfOpenMaxCalls

\* Probes belong to a running recovery test: as soon as its outcome closes
\* or reopens the circuit, no call still in flight counts as a probe of it.
ProbesOnlyInTest == probes # {} => breaker.state = "half_open"

\* The breaker never stays closed through failure_threshold failures in a row:
\* failures counted in earlier periods, late failures of calls admitted before
\* the circuit opened, and resets cannot hide a streak.
OpensInTime == breaker.state = "closed" => streak < FailureThreshold

\* A call is let in only if the circuit is closed or recovery_timeout has
\* passed since the last recorded failure, late failures included.
FailFast ==
    [][\A c \in Caller : pc[c] # "calling" /\ pc'[c] = "calling" =>
            breaker.state = "closed" \/ breaker.elapsed = RecoveryTimeout]_vars

\* Every slot of the recovery test was taken by a call that has ended without
\* an outcome the breaker counts.
SlotsLost == breaker.state = "half_open" /\ lost = HalfOpenMaxCalls

\* A recovery test always ends, late outcomes, resets and refused threads
\* notwithstanding, unless it has lost every one of its slots: then the circuit
\* stays half open until a reset.
HalfOpenResolves ==
    breaker.state = "half_open" ~> breaker.state # "half_open" \/ SlotsLost

\* Once no call fails any more the circuit closes and stays closed, unless a
\* recovery test has lost its slots.
ServiceHeals ==
    <>[][\A c \in Caller : ~Fail(c)]_vars
        => <>[](breaker.state = "closed" \/ SlotsLost)

\* The breaker implements the promise of AbstractBreaker.
Contract == INSTANCE AbstractBreaker WITH
    NoWait  <- RecoveryTimeout = 0,
    phase   <- breaker.state,
    cooled  <- breaker.elapsed = RecoveryTimeout,
    serving <- {c \in Caller : pc[c] = "calling"},
    probes  <- probes

KeepsContract == Contract!AbsSpec
============================================================================
