------------------------ MODULE CircuitBreakerProofs ------------------------
(***************************************************************************)
(* Theorems about the `with breaker:' protocol of CircuitBreaker, for any  *)
(* finite set of threads and any threshold, timeout and number of slots.   *)
(***************************************************************************)
EXTENDS CircuitBreaker, FiniteSetTheorems, TLAPS

----------------------------------------------------------------------------
(* What each method does to a breaker                                      *)

\* The parts of a breaker an admission decision rests on: a CLOSED breaker has
\* counted fewer failures than the threshold, a HALF_OPEN one has waited out
\* the recovery timeout; that it has granted no more slots than it has is part
\* of its type.
Sound(b) ==
    /\ b \in Breaker
    /\ b.state = "closed" => b.failureCount < FailureThreshold
    /\ b.state = "half_open" => b.elapsed = RecoveryTimeout

\* A transition yields a breaker, touches the clock of none, and sets each
\* counter as _transition_to (circuit_breaker.py:154-179) does.
LEMMA TransitionToBreaker ==
    ASSUME NEW b \in Breaker, NEW s \in CircuitState
    PROVE  /\ TransitionTo(b, s) \in Breaker
           /\ TransitionTo(b, s).state = s
           /\ TransitionTo(b, s).elapsed = b.elapsed
           /\ s = "closed" => TransitionTo(b, s).failureCount = 0
           /\ s = "half_open" => TransitionTo(b, s).halfOpenCalls = 0
           /\ s # "half_open" => TransitionTo(b, s).halfOpenCalls = b.halfOpenCalls
<1> DEFINE calls == IF s = "half_open" THEN 0 ELSE b.halfOpenCalls
           count == IF s = "closed" THEN 0 ELSE b.failureCount
<1>1. /\ b.halfOpenCalls \in 0 .. HalfOpenMaxCalls /\ calls \in 0 .. HalfOpenMaxCalls
      /\ b.failureCount \in Nat /\ count \in Nat
      /\ b.elapsed \in 0 .. RecoveryTimeout
  BY BreakerAssumption DEF Breaker
<1>2. TransitionTo(b, s) = [b EXCEPT !.state = s, !.halfOpenCalls = calls,
                                     !.failureCount = count]
  BY DEF TransitionTo
<1>3. s = "half_open" => calls = 0
  OBVIOUS
<1>4. s # "half_open" => calls = b.halfOpenCalls
  OBVIOUS
<1>5. s = "closed" => count = 0
  OBVIOUS
<1> HIDE DEF calls, count
<1> QED
  BY <1>1, <1>2, <1>3, <1>4, <1>5 DEF Breaker

\* A new breaker (circuit_breaker.py:119-137) is sound.
LEMMA NewBreakerSound == Sound(NewBreaker)
  BY BreakerAssumption DEF Sound, NewBreaker, Breaker, CircuitState

\* Reading the state (circuit_breaker.py:139-146) either changes nothing or
\* starts a test of a breaker that has waited out the timeout.
LEMMA RefreshedSound ==
    ASSUME NEW b, Sound(b)
    PROVE  /\ Sound(Refreshed(b))
           /\ Refreshed(b).elapsed = b.elapsed
           /\ \/ Refreshed(b) = b
              \/ /\ b.state = "open" /\ b.elapsed = RecoveryTimeout
                 /\ Refreshed(b).state = "half_open"
                 /\ Refreshed(b).halfOpenCalls = 0
<1>1. CASE b.state = "open" /\ b.elapsed >= RecoveryTimeout
  <2>1. b.elapsed = RecoveryTimeout
    BY <1>1, BreakerAssumption DEF Sound, Breaker
  <2>2. Refreshed(b) = TransitionTo(b, "half_open")
    BY <1>1 DEF Refreshed
  <2> QED
    BY <1>1, <2>1, <2>2, TransitionToBreaker, BreakerAssumption
    DEF Sound, CircuitState
<1>2. CASE ~(b.state = "open" /\ b.elapsed >= RecoveryTimeout)
  BY <1>2 DEF Refreshed
<1> QED BY <1>1, <1>2

\* allow_request (circuit_breaker.py:207-223) grants a call only in a CLOSED
\* breaker, which it leaves as it is, or by taking one free slot of a test.
LEMMA AfterAllowSound ==
    ASSUME NEW b, Sound(b)
    PROVE  /\ Sound(AfterAllow(b))
           /\ AfterAllow(b).state = Refreshed(b).state
           /\ AfterAllow(b).elapsed = b.elapsed
           /\ ~Grants(b) => AfterAllow(b) = Refreshed(b)
           /\ Grants(b) /\ AfterAllow(b).state = "closed" => AfterAllow(b) = b
           /\ Grants(b) /\ AfterAllow(b).state # "closed" =>
                 /\ AfterAllow(b).state = "half_open"
                 /\ HasFreeSlot(Refreshed(b))
                 /\ AfterAllow(b).halfOpenCalls = Refreshed(b).halfOpenCalls + 1
<1> DEFINE r == Refreshed(b)
<1>1. Sound(r) /\ r.elapsed = b.elapsed /\ (r = b \/ r.state = "half_open")
  BY RefreshedSound
<1> HIDE DEF r
<1>2. CASE r.state = "half_open" /\ HasFreeSlot(r)
  <2>1. AfterAllow(b) = [r EXCEPT !.halfOpenCalls = @ + 1]
    BY <1>2 DEF AfterAllow, r
  <2> QED
    BY <1>1, <1>2, <2>1, BreakerAssumption
    DEF Sound, Breaker, CircuitState, HasFreeSlot, Grants, r
<1>3. CASE ~(r.state = "half_open" /\ HasFreeSlot(r))
  <2>1. AfterAllow(b) = r
    BY <1>3 DEF AfterAllow, r
  <2>2. Grants(b) => r.state = "closed"
    BY <1>3 DEF Grants, r
  <2> QED
    BY <1>1, <1>3, <2>1, <2>2 DEF r
<1> QED BY <1>2, <1>3

\* record_success (circuit_breaker.py:181-190).
LEMMA RecordSuccessSound ==
    ASSUME NEW b, Sound(b)
    PROVE  /\ Sound(RecordSuccess(b))
           /\ RecordSuccess(b).elapsed = b.elapsed
           /\ b.state = "half_open" => RecordSuccess(b).state = "closed"
           /\ b.state # "half_open" => RecordSuccess(b) = b
  BY TransitionToBreaker, BreakerAssumption
  DEF RecordSuccess, Sound, CircuitState

\* record_failure (circuit_breaker.py:192-205) restarts the wait, leaves no
\* test running, and keeps a breaker CLOSED only below the threshold.
LEMMA RecordFailureSound ==
    ASSUME NEW b, Sound(b)
    PROVE  /\ Sound(RecordFailure(b))
           /\ RecordFailure(b).elapsed = 0
           /\ RecordFailure(b).halfOpenCalls = b.halfOpenCalls
           /\ RecordFailure(b).state # "half_open"
           /\ b.state # "closed" => RecordFailure(b).state = "open"
           /\ RecordFailure(b).state = "closed" =>
                 /\ b.state = "closed"
                 /\ RecordFailure(b).failureCount = b.failureCount + 1
<1>1. /\ Failed(b) \in Breaker /\ Counted(b) \in Breaker
      /\ Failed(b).elapsed = 0 /\ Counted(b).elapsed = 0
      /\ Failed(b).state = b.state /\ Counted(b).state = b.state
      /\ Failed(b).halfOpenCalls = b.halfOpenCalls
      /\ Counted(b).halfOpenCalls = b.halfOpenCalls
      /\ Counted(b).failureCount = b.failureCount + 1
  <2>1. b \in Breaker
    BY DEF Sound
  <2>2. /\ Failed(b) \in Breaker /\ Failed(b).elapsed = 0
        /\ Failed(b).state = b.state
        /\ Failed(b).halfOpenCalls = b.halfOpenCalls
        /\ Failed(b).failureCount = b.failureCount
    BY <2>1, BreakerAssumption DEF Breaker, Failed
  <2>3. /\ Counted(b) \in Breaker
        /\ Counted(b).elapsed = Failed(b).elapsed
        /\ Counted(b).state = Failed(b).state
        /\ Counted(b).halfOpenCalls = Failed(b).halfOpenCalls
        /\ Counted(b).failureCount = Failed(b).failureCount + 1
    BY <2>2 DEF Breaker, Counted
  <2> QED BY <2>2, <2>3
<1>2. CASE b.state = "half_open"
  BY <1>1, <1>2, TransitionToBreaker DEF RecordFailure, Sound, CircuitState
<1>3. CASE b.state = "open"
  BY <1>1, <1>3 DEF RecordFailure, Sound
<1>4. CASE b.state = "closed"
  <2>1. CASE Counted(b).failureCount >= FailureThreshold
    BY <1>1, <1>4, <2>1, TransitionToBreaker DEF RecordFailure, Sound, CircuitState
  <2>2. CASE ~(Counted(b).failureCount >= FailureThreshold)
    BY <1>1, <1>4, <2>2, BreakerAssumption DEF RecordFailure, Sound, Breaker
  <2> QED BY <2>1, <2>2
<1> QED BY <1>2, <1>3, <1>4 DEF Sound, Breaker, CircuitState

\* reset (circuit_breaker.py:266-271).
LEMMA ResetSound ==
    ASSUME NEW b, Sound(b)
    PROVE  /\ Sound(Reset(b))
           /\ Reset(b).state = "closed"
           /\ Reset(b).elapsed = b.elapsed
<1> DEFINE cleared == [b EXCEPT !.failureCount = 0, !.halfOpenCalls = 0]
<1>1. cleared \in Breaker /\ cleared.elapsed = b.elapsed
  <2>1. b \in Breaker /\ 0 \in 0 .. HalfOpenMaxCalls
    BY BreakerAssumption DEF Sound
  <2> QED
    BY <2>1 DEF Breaker
<1>2. Reset(b) = TransitionTo(cleared, "closed")
  BY DEF Reset
<1> HIDE DEF cleared
<1> QED
  BY <1>1, <1>2, TransitionToBreaker, BreakerAssumption DEF Sound, CircuitState

\* The passing of time changes nothing but the wait.
LEMMA AgedSound ==
    ASSUME NEW b, Sound(b)
    PROVE  /\ Sound(Aged(b))
           /\ Aged(b).state = b.state
           /\ Aged(b).failureCount = b.failureCount
           /\ Aged(b).halfOpenCalls = b.halfOpenCalls
           /\ b.elapsed = RecoveryTimeout => Aged(b) = b
<1>1. Aged(b) \in Breaker /\ (b.elapsed = RecoveryTimeout => Aged(b).elapsed = b.elapsed)
  BY BreakerAssumption DEF Aged, Sound, Breaker
<1>2. b.elapsed = RecoveryTimeout => Aged(b) = b
  BY BreakerAssumption DEF Aged, Sound, Breaker
<1> QED
  BY <1>1, <1>2 DEF Aged, Sound, Breaker

----------------------------------------------------------------------------
(* The invariant                                                           *)

\* The inductive invariant.  ProbesBounded is not inductive: that a slot is
\* free says nothing of the probes in flight unless every one of them holds a
\* slot of the current test (third conjunct), and OpensInTime needs every
\* failure of the current streak to be in failure_count (last conjunct).
Inv ==
    /\ TypeOK
    /\ Sound(breaker)
    /\ breaker.state = "half_open" => Cardinality(probes) <= breaker.halfOpenCalls
    /\ ProbesOnlyInTest
    /\ \A c \in probes : pc[c] = "calling"
    /\ breaker.state = "closed" => streak <= breaker.failureCount

----------------------------------------------------------------------------
(* Lemmas on the probes in flight                                          *)

\* The probes in flight are finitely many.
LEMMA ProbesFinite ==
    ASSUME TypeOK
    PROVE  IsFiniteSet(probes) /\ Cardinality(probes) \in Nat
  BY CallerAssumption, FS_Subset, FS_CardinalityType DEF TypeOK

\* A step that admits no call, and moves the breaker only as the third to fifth
\* hypotheses say, keeps the accounting of probes.
LEMMA NoAdmission ==
    ASSUME Inv, TypeOK', Sound(breaker'),
           \A c \in probes' : c \in probes /\ pc'[c] = "calling",
           breaker'.state # breaker.state => probes' = {},
           breaker'.state = breaker.state => breaker'.halfOpenCalls = breaker.halfOpenCalls,
           breaker'.state = "closed" => streak' <= breaker'.failureCount
    PROVE  Inv'
<1>1. probes' \subseteq probes
  OBVIOUS
<1>2. /\ Cardinality(probes) \in Nat
      /\ Cardinality(probes') \in Nat
      /\ Cardinality(probes') <= Cardinality(probes)
  BY <1>1, ProbesFinite, FS_Subset, FS_CardinalityType DEF Inv
<1>3. breaker'.halfOpenCalls \in Nat /\ breaker.halfOpenCalls \in Nat
  BY DEF Inv, TypeOK, Breaker
<1>4. breaker'.state = "half_open" => Cardinality(probes') <= breaker'.halfOpenCalls
  <2>1. CASE breaker'.state = breaker.state
    BY <1>2, <1>3, <2>1 DEF Inv
  <2>2. CASE breaker'.state # breaker.state
    BY <1>3, <2>2, FS_EmptySet
  <2> QED BY <2>1, <2>2
<1>5. ProbesOnlyInTest'
  BY <1>1 DEF Inv, ProbesOnlyInTest
<1> QED
  BY <1>4, <1>5 DEF Inv

----------------------------------------------------------------------------
(* The initial states and each kind of step                                *)

LEMMA InitInv == Init => Inv
<1> SUFFICES ASSUME Init PROVE Inv
  OBVIOUS
<1>1. TypeOK
  BY CallerAssumption, BreakerAssumption, NewBreakerSound DEF Init, TypeOK, Sound
<1>2. breaker.state = "closed" /\ breaker.failureCount = 0
  BY DEF Init, NewBreaker
<1> QED
  BY <1>1, <1>2, NewBreakerSound DEF Init, Inv, ProbesOnlyInTest

LEMMA EnterInv == ASSUME Inv, NEW c \in Caller, Enter(c) PROVE Inv'
<1>1. /\ Sound(breaker')
      /\ breaker'.state = Refreshed(breaker).state
      /\ breaker'.state = "closed" => breaker' = breaker
      /\ breaker'.state # "closed" =>
            /\ breaker'.state = "half_open"
            /\ breaker'.halfOpenCalls = Refreshed(breaker).halfOpenCalls + 1
  BY AfterAllowSound DEF Enter, Inv
<1>2. \/ Refreshed(breaker) = breaker
      \/ breaker.state = "open" /\ Refreshed(breaker).halfOpenCalls = 0
  BY RefreshedSound DEF Inv
<1>3. TypeOK'
  BY <1>1 DEF Enter, StillProbing, StillLost, Inv, TypeOK, Sound
<1>4. \A d \in probes' : pc'[d] = "calling"
  BY DEF Enter, StillProbing, Inv, TypeOK
<1>5. CASE breaker'.state = "closed"
  <2>1. breaker' = breaker /\ probes' = {}
    BY <1>1, <1>5 DEF Enter, StillProbing, Inv, ProbesOnlyInTest
  <2> QED
    BY <1>1, <1>3, <1>4, <1>5, <2>1 DEF Inv, Enter, ProbesOnlyInTest
<1>6. CASE breaker'.state # "closed"
  <2>1. breaker'.state = "half_open"
    BY <1>1, <1>6
  <2>2. CASE breaker.state = "half_open"
    <3>1. probes' = probes \cup {c}
      BY <2>1, <2>2 DEF Enter, StillProbing
    <3>2. Cardinality(probes') \in Nat /\ Cardinality(probes') <= Cardinality(probes) + 1
      <4>1. IsFiniteSet(probes) /\ Cardinality(probes) \in Nat
        BY ProbesFinite DEF Inv
      <4>2. Cardinality(probes \cup {c}) =
               IF c \in probes THEN Cardinality(probes) ELSE Cardinality(probes) + 1
        BY <4>1, FS_AddElement, Zenon
      <4> QED BY <3>1, <4>1, <4>2
    <3>3. breaker'.halfOpenCalls = breaker.halfOpenCalls + 1
      BY <1>1, <1>2, <1>6, <2>2
    <3>4. Cardinality(probes') <= breaker'.halfOpenCalls
      <4>1. /\ breaker.halfOpenCalls \in Nat
            /\ Cardinality(probes) \in Nat
            /\ Cardinality(probes) <= breaker.halfOpenCalls
        BY <2>2, ProbesFinite DEF Inv, TypeOK, Breaker
      <4> QED BY <3>2, <3>3, <4>1
    <3> QED
      BY <1>1, <1>3, <1>4, <2>1, <3>4 DEF Inv, ProbesOnlyInTest
  <2>3. CASE breaker.state # "half_open"
    <3>1. Refreshed(breaker) # breaker
      BY <1>1, <2>1, <2>3
    <3>2. breaker'.halfOpenCalls = 1
      BY <1>1, <1>2, <1>6, <3>1
    <3>3. probes' = {} \cup {c}
      BY <2>1, <2>3 DEF Enter, StillProbing
    <3>4. Cardinality(probes') = 1
      <4>1. Cardinality({} \cup {c}) = Cardinality({}) + 1
        BY FS_EmptySet, FS_AddElement
      <4> QED BY <3>3, <4>1, FS_EmptySet
    <3> QED
      BY <1>1, <1>3, <1>4, <2>1, <3>2, <3>4 DEF Inv, ProbesOnlyInTest
  <2> QED BY <2>2, <2>3
<1> QED BY <1>5, <1>6

\* A refused call and a raised error only read the state.
LEMMA RefreshInv ==
    ASSUME Inv, breaker' = Refreshed(breaker),
           probes' = StillProbing(breaker, breaker'),
           \A c \in Caller : pc[c] = "calling" => pc'[c] = "calling",
           TypeOK', streak' = streak
    PROVE  Inv'
<1>1. /\ Sound(breaker')
      /\ \/ breaker' = breaker
         \/ breaker.state = "open" /\ breaker'.state = "half_open"
  BY RefreshedSound DEF Inv
<1>2. \A c \in probes' : c \in probes /\ pc'[c] = "calling"
  BY DEF StillProbing, Inv, TypeOK
<1>3. breaker'.state # breaker.state => probes' = {}
  BY DEF StillProbing
<1>4. breaker'.state = "closed" => streak' <= breaker'.failureCount
  BY <1>1 DEF Inv
<1> QED
  BY <1>1, <1>2, <1>3, <1>4, NoAdmission

LEMMA RefuseInv == ASSUME Inv, NEW c \in Caller, Refuse(c) PROVE Inv'
<1>1. breaker' = Refreshed(breaker)
  BY AfterAllowSound DEF Refuse, Inv
<1>2. TypeOK'
  BY <1>1, RefreshedSound DEF Refuse, StillProbing, StillLost, Inv, TypeOK, Sound
<1> QED
  BY <1>1, <1>2, RefreshInv DEF Refuse, Inv, TypeOK

LEMMA RaiseInv == ASSUME Inv, NEW c \in Caller, Raise(c) PROVE Inv'
<1>1. TypeOK'
  BY RefreshedSound DEF Raise, StillProbing, StillLost, Inv, TypeOK, Sound
<1> QED
  BY <1>1, RefreshInv DEF Raise, Inv, TypeOK

\* Leaving the block: the outcomes differ in what they do to the breaker.
LEMMA LeaveInv ==
    ASSUME Inv, NEW c \in Caller, Leave(c), Sound(breaker'),
           streak' \in 0 .. FailureThreshold, lost' \in Nat,
           breaker'.state = breaker.state => breaker'.halfOpenCalls = breaker.halfOpenCalls,
           breaker'.state = "closed" => streak' <= breaker'.failureCount
    PROVE  Inv'
<1>1. TypeOK'
  BY DEF Inv, TypeOK, Leave, StillProbing, Sound
<1>2. \A d \in probes' : d \in probes /\ pc'[d] = "calling"
  BY DEF Leave, StillProbing, Inv, TypeOK
<1>3. breaker'.state # breaker.state => probes' = {}
  BY DEF Leave, StillProbing
<1> QED
  BY <1>1, <1>2, <1>3, NoAdmission

LEMMA SucceedInv == ASSUME Inv, NEW c \in Caller, Succeed(c) PROVE Inv'
<1>1. /\ Sound(breaker')
      /\ breaker.state = "half_open" => breaker'.state = "closed"
      /\ breaker.state # "half_open" => breaker' = breaker
  BY RecordSuccessSound DEF Succeed, Inv
<1>2. streak' = 0 /\ 0 \in 0 .. FailureThreshold /\ breaker'.failureCount \in Nat
  BY <1>1, BreakerAssumption DEF Succeed, Sound, Breaker
<1>3. breaker'.state = breaker.state => breaker'.halfOpenCalls = breaker.halfOpenCalls
  BY <1>1
<1>4. breaker'.state = "closed" => streak' <= breaker'.failureCount
  BY <1>2
<1>5. lost' \in Nat
  BY DEF Succeed, StillLost, Inv, TypeOK
<1> QED
  BY <1>1, <1>2, <1>3, <1>4, <1>5, LeaveInv DEF Succeed

LEMMA FailInv == ASSUME Inv, NEW c \in Caller, Fail(c) PROVE Inv'
<1>1. breaker' = RecordFailure(breaker)
  BY DEF Fail
<1>2. /\ Sound(breaker')
      /\ breaker'.state # "half_open"
      /\ breaker'.state = "closed" =>
            breaker.state = "closed" /\ breaker'.failureCount = breaker.failureCount + 1
  BY <1>1, RecordFailureSound DEF Inv
<1>3. /\ streak' \in 0 .. FailureThreshold
      /\ streak' <= streak + 1
      /\ streak \in Nat /\ breaker.failureCount \in Nat
  BY BreakerAssumption DEF Fail, Inv, TypeOK, Breaker
<1>4. breaker'.state = "closed" => streak' <= breaker'.failureCount
  <2>1. breaker.state = "closed" => streak <= breaker.failureCount
    BY DEF Inv
  <2>2. streak' \in Int
    BY <1>3
  <2> QED BY <1>2, <1>3, <2>1, <2>2
<1>5. breaker'.state = breaker.state => breaker'.halfOpenCalls = breaker.halfOpenCalls
  BY <1>1, RecordFailureSound DEF Inv
<1>6. lost' \in Nat
  BY DEF Fail, StillLost, Inv, TypeOK
<1> QED
  BY <1>2, <1>3, <1>4, <1>5, <1>6, LeaveInv DEF Fail

LEMMA FailBusinessInv == ASSUME Inv, NEW c \in Caller, FailBusiness(c) PROVE Inv'
  BY LeaveInv DEF FailBusiness, Inv, TypeOK

LEMMA ManualResetInv == ASSUME Inv, ManualReset PROVE Inv'
<1>1. Sound(breaker') /\ breaker'.state = "closed" /\ breaker'.failureCount \in Nat
  BY ResetSound DEF ManualReset, Inv, Sound, Breaker
<1>2. TypeOK'
  BY <1>1, BreakerAssumption DEF ManualReset, Inv, TypeOK, Sound
<1>3. streak' <= breaker'.failureCount
  BY <1>1 DEF ManualReset
<1> QED
  BY <1>1, <1>2, <1>3 DEF ManualReset, Inv, ProbesOnlyInTest

LEMMA ObserveInv == ASSUME Inv, Observe PROVE Inv'
<1>1. breaker.state # breaker'.state /\ Sound(breaker')
  BY RefreshedSound DEF Observe, Inv
<1>2. probes' = StillProbing(breaker, breaker')
  BY <1>1 DEF Observe, StillProbing
<1>3. TypeOK'
  BY <1>1 DEF Observe, Inv, TypeOK, Sound
<1> QED
  BY <1>2, <1>3, RefreshInv DEF Observe

LEMMA TickInv == ASSUME Inv, Tick PROVE Inv'
<1>1. /\ Sound(breaker')
      /\ breaker'.state = breaker.state
      /\ breaker'.failureCount = breaker.failureCount
      /\ breaker'.halfOpenCalls = breaker.halfOpenCalls
  BY AgedSound DEF Tick, Inv
<1>2. TypeOK'
  BY <1>1 DEF Tick, Inv, TypeOK, Sound
<1> QED
  BY <1>1, <1>2, NoAdmission DEF Tick, Inv

LEMMA StepInv == Inv /\ [Next]_vars => Inv'
<1> SUFFICES ASSUME Inv, [Next]_vars PROVE Inv'
  OBVIOUS
<1>1. CASE UNCHANGED vars
  BY <1>1 DEF vars, Inv, TypeOK, Sound, ProbesOnlyInTest
<1>2. CASE \E c \in Caller : Enter(c) \/ Refuse(c) \/ Raise(c) \/ Exit(c)
  BY <1>2, EnterInv, RefuseInv, RaiseInv, SucceedInv, FailInv, FailBusinessInv DEF Exit
<1>3. CASE ManualReset \/ Observe \/ Tick
  BY <1>3, ManualResetInv, ObserveInv, TickInv
<1> QED BY <1>1, <1>2, <1>3 DEF Next

----------------------------------------------------------------------------
(* The theorems                                                            *)

\* Inv holds in every reachable state of the protocol of circuit_breaker.py.
THEOREM Invariance == Spec => []Inv
  BY InitInv, StepInv, PTL DEF Spec

\* Every variable keeps its type: in particular the failure counter is finite
\* and the clock saturates.
THEOREM TypeCorrect == Spec => []TypeOK
<1>1. Inv => TypeOK
  BY DEF Inv
<1> QED BY <1>1, Invariance, PTL

\* Any number of threads, slots and late outcomes: the probes of the running
\* recovery test that are still in flight never exceed half_open_max_calls
\* (allow_request, circuit_breaker.py:207-223).
THEOREM ProbesAreBounded == Spec => [](ProbesBounded /\ ProbesOnlyInTest)
<1>1. Inv => ProbesBounded /\ ProbesOnlyInTest
  BY BreakerAssumption, ProbesFinite DEF Inv, ProbesBounded, Sound, Breaker
<1> QED BY <1>1, Invariance, PTL

\* failure_threshold failures in a row always open the circuit
\* (record_failure, circuit_breaker.py:192-205).
THEOREM AlwaysOpensInTime == Spec => []OpensInTime
<1>1. Inv => OpensInTime
  BY BreakerAssumption DEF Inv, OpensInTime, Sound, TypeOK, Breaker
<1> QED BY <1>1, Invariance, PTL

\* No call is let in while the circuit is open and waiting: an admission
\* happens in CLOSED, or recovery_timeout after the last recorded failure.
THEOREM AlwaysFailsFast == Spec => FailFast
<1> DEFINE P == \A c \in Caller : pc[c] # "calling" /\ pc'[c] = "calling" =>
                    breaker.state = "closed" \/ breaker.elapsed = RecoveryTimeout
<1>1. Inv /\ [Next]_vars => [P]_vars
  <2> SUFFICES ASSUME Inv, Next,
                      NEW c \in Caller, pc[c] # "calling", pc'[c] = "calling"
               PROVE  breaker.state = "closed" \/ breaker.elapsed = RecoveryTimeout
    BY DEF vars
  <2>1. Enter(c)
    <3>1. CASE ManualReset \/ Observe \/ Tick
      BY <3>1 DEF ManualReset, Observe, Tick
    <3>2. CASE \E d \in Caller : Enter(d) \/ Refuse(d) \/ Raise(d) \/ Exit(d)
      <4>1. PICK d \in Caller : Enter(d) \/ Refuse(d) \/ Raise(d) \/ Exit(d)
        BY <3>2
      <4>2. Enter(d)
        BY <4>1 DEF Refuse, Raise, Exit, Succeed, Fail, FailBusiness, Leave, Inv, TypeOK
      <4>3. d = c
        BY <4>2 DEF Enter, Inv, TypeOK
      <4> QED BY <4>2, <4>3
    <3> QED BY <3>1, <3>2 DEF Next
  <2>2. Refreshed(breaker).state \in {"closed", "half_open"}
    BY <2>1 DEF Enter, Grants
  <2> QED
    BY <2>2, RefreshedSound DEF Inv, Sound
<1> QED BY <1>1, Invariance, PTL DEF Spec, FailFast

----------------------------------------------------------------------------
(* The detailed protocol implements the promise of AbstractBreaker: every  *)
(* kind of step maps to one abstract action or to a stutter.               *)

Serving == {c \in Caller : pc[c] = "calling"}

\* The two modules count sets alike.
LEMMA SameCardinality == \A S : Contract!Cardinality(S) = Cardinality(S)
  BY Zenon DEF Contract!Cardinality, Cardinality

LEMMA ContractInit == Init => Contract!AbsInit
  BY BreakerAssumption DEF Init, Contract!AbsInit, NewBreaker

LEMMA ContractEnter ==
    ASSUME Inv, Inv', NEW c \in Caller, Enter(c)
    PROVE  Contract!Serve(c) \/ Contract!Probe(c)
<1>1. /\ breaker'.state = Refreshed(breaker).state
      /\ breaker'.elapsed = breaker.elapsed
      /\ breaker'.state = "closed" => breaker' = breaker
      /\ breaker'.state # "closed" =>
            breaker'.state = "half_open" /\ HasFreeSlot(Refreshed(breaker))
      /\ \/ Refreshed(breaker) = breaker
         \/ /\ breaker.state = "open" /\ breaker.elapsed = RecoveryTimeout
            /\ Refreshed(breaker).state = "half_open"
            /\ Refreshed(breaker).halfOpenCalls = 0
  BY AfterAllowSound, RefreshedSound DEF Enter, Inv
<1>2. c \notin Serving /\ Serving' = Serving \cup {c}
  BY DEF Enter, Serving, Inv, TypeOK
<1>3. CASE breaker'.state = "closed"
  <2>1. probes = {} /\ probes' = {}
    BY <1>1, <1>3 DEF Enter, StillProbing, Inv, ProbesOnlyInTest
  <2> QED
    BY <1>1, <1>2, <1>3, <2>1 DEF Contract!Serve, Serving
<1>4. CASE breaker'.state # "closed"
  <2>1. breaker'.state = "half_open"
    BY <1>1, <1>4
  <2>2. CASE breaker.state = "half_open"
    <3>1. probes' = probes \cup {c}
      BY <2>1, <2>2 DEF Enter, StillProbing
    <3>2. Cardinality(probes) < HalfOpenMaxCalls
      <4>1. Refreshed(breaker) = breaker
        BY <1>1, <2>2
      <4>2. breaker.halfOpenCalls < HalfOpenMaxCalls
        BY <1>1, <1>4, <4>1 DEF HasFreeSlot
      <4> QED
        BY <2>2, <4>2, ProbesFinite, BreakerAssumption DEF Inv, TypeOK, Breaker
    <3> QED
      BY <1>1, <1>2, <2>1, <2>2, <3>1, <3>2, SameCardinality DEF Contract!Probe, Serving
  <2>3. CASE breaker.state # "half_open"
    <3>1. breaker.state = "open" /\ breaker.elapsed = RecoveryTimeout
      BY <1>1, <2>1, <2>3
    <3>2. probes' = {} \cup {c}
      BY <2>1, <2>3 DEF Enter, StillProbing
    <3>3. Cardinality({}) < HalfOpenMaxCalls
      BY <1>1, <1>4, <2>1, <2>3, FS_EmptySet DEF HasFreeSlot
    <3> QED
      BY <1>1, <1>2, <2>1, <2>3, <3>1, <3>2, <3>3, SameCardinality
      DEF Contract!Probe, Serving
  <2> QED BY <2>2, <2>3
<1> QED BY <1>3, <1>4

\* Reading the state starts a test or does nothing.
LEMMA ContractRefresh ==
    ASSUME Inv, breaker' = Refreshed(breaker), Serving' = Serving,
           probes' = StillProbing(breaker, breaker')
    PROVE  Contract!Test \/ UNCHANGED Contract!absVars
<1>1. /\ breaker'.elapsed = breaker.elapsed
      /\ \/ breaker' = breaker
         \/ /\ breaker.state = "open" /\ breaker.elapsed = RecoveryTimeout
            /\ breaker'.state = "half_open"
  BY RefreshedSound DEF Inv
<1>2. CASE breaker' = breaker
  BY <1>2 DEF Contract!absVars, Serving, StillProbing
<1>3. CASE breaker.state = "open" /\ breaker'.state = "half_open"
  <2>1. probes' = {}
    BY <1>3 DEF StillProbing
  <2> QED
    BY <1>1, <1>3, <2>1 DEF Contract!Test, Serving
<1> QED BY <1>1, <1>2, <1>3

LEMMA ContractLeave ==
    ASSUME Inv, NEW c \in Caller, Leave(c), pc[c] = "calling"
    PROVE  /\ c \in Serving /\ Serving' = Serving \ {c}
           /\ breaker'.state = breaker.state => probes' = probes \ {c}
           /\ breaker'.state # breaker.state => probes' = {}
  BY DEF Leave, StillProbing, Serving, Inv, TypeOK

LEMMA ContractExit ==
    ASSUME Inv, Inv', NEW c \in Caller, Exit(c)
    PROVE  Contract!Recover(c) \/ Contract!FinishQuietly(c) \/ Contract!FailCall(c)
<1>1. Leave(c) /\ pc[c] = "calling"
  BY DEF Exit, Succeed, Fail, FailBusiness
<1>2. /\ c \in Serving /\ Serving' = Serving \ {c}
      /\ breaker'.state = breaker.state => probes' = probes \ {c}
      /\ breaker'.state # breaker.state => probes' = {}
  BY <1>1, ContractLeave
<1>3. CASE Succeed(c)
  <2>1. /\ breaker'.elapsed = breaker.elapsed
        /\ breaker.state = "half_open" => breaker'.state = "closed"
        /\ breaker.state # "half_open" => breaker' = breaker
    BY <1>3, RecordSuccessSound DEF Succeed, Inv
  <2>2. breaker.state = "half_open" => Contract!Recover(c)
    BY <1>2, <2>1 DEF Contract!Recover, Serving
  <2>3. breaker.state # "half_open" => Contract!FinishQuietly(c)
    BY <1>2, <2>1 DEF Contract!FinishQuietly, Serving
  <2> QED BY <2>2, <2>3
<1>4. CASE Fail(c)
  <2>1. /\ breaker'.elapsed = 0
        /\ breaker'.state # "half_open"
        /\ breaker.state # "closed" => breaker'.state = "open"
        /\ breaker'.state \in CircuitState
    BY <1>4, RecordFailureSound DEF Fail, Inv, Sound, Breaker
  <2>2. probes' = {}
    BY <2>1 DEF Inv, ProbesOnlyInTest
  <2>3. (breaker'.elapsed = RecoveryTimeout) = (RecoveryTimeout = 0)
    BY <2>1
  <2>4. breaker'.state \in IF breaker.state = "closed" THEN {"closed", "open"} ELSE {"open"}
    BY <2>1 DEF CircuitState
  <2> QED
    BY <1>2, <2>2, <2>3, <2>4 DEF Contract!FailCall, Serving
<1>5. CASE FailBusiness(c)
  BY <1>2, <1>5 DEF FailBusiness, Contract!FinishQuietly, Serving
<1> QED BY <1>3, <1>4, <1>5 DEF Exit

LEMMA ContractEnvironment ==
    ASSUME Inv, Inv', ManualReset \/ Observe \/ Tick
    PROVE  \/ Contract!Test \/ Contract!ForceClose \/ Contract!Cool
           \/ UNCHANGED Contract!absVars
<1>1. CASE ManualReset
  <2>1. breaker'.state = "closed" /\ breaker'.elapsed = breaker.elapsed
    BY <1>1, ResetSound DEF ManualReset, Inv
  <2>2. probes' = {}
    BY <2>1 DEF Inv, ProbesOnlyInTest
  <2>3. Serving' = Serving
    BY <1>1 DEF ManualReset, Serving
  <2> QED
    BY <2>1, <2>2, <2>3 DEF Contract!ForceClose, Serving
<1>2. CASE Observe
  <2>1. breaker.state # breaker'.state
    BY <1>2, RefreshedSound DEF Observe, Inv
  <2>2. probes' = StillProbing(breaker, breaker') /\ Serving' = Serving
    BY <1>2, <2>1 DEF Observe, StillProbing, Serving
  <2> QED
    BY <1>2, <2>2, ContractRefresh DEF Observe
<1>3. CASE Tick
  <2>1. breaker'.state = breaker.state /\ probes' = probes /\ Serving' = Serving
    BY <1>3, AgedSound DEF Tick, Inv, Serving
  <2>2. breaker.elapsed = RecoveryTimeout => breaker' = breaker
    BY <1>3, AgedSound DEF Tick, Inv
  <2>3. CASE breaker'.elapsed = RecoveryTimeout
    BY <2>1, <2>3 DEF Contract!Cool, Serving
  <2>4. CASE breaker'.elapsed # RecoveryTimeout
    <3>1. (breaker'.elapsed = RecoveryTimeout) = (breaker.elapsed = RecoveryTimeout)
      BY <2>2, <2>4
    <3> QED
      BY <2>1, <3>1 DEF Contract!absVars, Serving
  <2> QED BY <2>3, <2>4
<1> QED BY <1>1, <1>2, <1>3

LEMMA ContractStep ==
    Inv /\ Inv' /\ [Next]_vars => [Contract!AbsNext]_(Contract!absVars)
<1> SUFFICES ASSUME Inv, Inv', [Next]_vars
             PROVE  Contract!AbsNext \/ UNCHANGED Contract!absVars
  OBVIOUS
<1>1. CASE UNCHANGED vars
  BY <1>1 DEF vars, Contract!absVars
<1>2. CASE ManualReset \/ Observe \/ Tick
  BY <1>2, ContractEnvironment DEF Contract!AbsNext
<1>3. CASE \E c \in Caller : Enter(c) \/ Refuse(c) \/ Raise(c) \/ Exit(c)
  <2>1. PICK c \in Caller : Enter(c) \/ Refuse(c) \/ Raise(c) \/ Exit(c)
    BY <1>3
  <2>2. CASE Enter(c)
    BY <2>2, ContractEnter DEF Contract!AbsNext
  <2>3. CASE Refuse(c)
    <3>1. breaker' = Refreshed(breaker)
      BY <2>3, AfterAllowSound DEF Refuse, Inv
    <3>2. Serving' = Serving
      BY <2>3 DEF Refuse, Serving, Inv, TypeOK
    <3> QED
      BY <2>3, <3>1, <3>2, ContractRefresh DEF Refuse, Contract!AbsNext
  <2>4. CASE Raise(c)
    <3>1. Serving' = Serving
      BY <2>4 DEF Raise, Serving, Inv, TypeOK
    <3> QED
      BY <2>4, <3>1, ContractRefresh DEF Raise, Contract!AbsNext
  <2>5. CASE Exit(c)
    BY <2>5, ContractExit DEF Contract!AbsNext
  <2> QED BY <2>1, <2>2, <2>3, <2>4, <2>5
<1> QED BY <1>1, <1>2, <1>3 DEF Next

\* The with-block protocol of circuit_breaker.py, seen through its state, its
\* clock and the calls in flight, is a behaviour of AbstractBreaker: nothing is
\* served while the circuit is open, a test serves at most half_open_max_calls
\* probes at once, and a failure never leaves a test running.
THEOREM ImplementsContract == Spec => KeepsContract
  BY Invariance, ContractInit, ContractStep, PTL DEF Spec, KeepsContract, Contract!AbsSpec
============================================================================
