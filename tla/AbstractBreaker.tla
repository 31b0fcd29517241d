-------------------------- MODULE AbstractBreaker --------------------------
(***************************************************************************)
(* What a circuit breaker promises to the threads that call a service      *)
(* inside `with breaker:', without counters, locks or statistics: which    *)
(* calls are in flight (serving), which of them are probes of the current  *)
(* recovery test, and whether the recovery timeout has passed since the    *)
(* last failure (cooled).  It is the state diagram of                      *)
(* website/docs/reference/circuit-breaker.md with the two limits that make *)
(* it useful: nothing is served while the circuit is open, and a recovery  *)
(* test runs at most HalfOpenMaxCalls probes at once.                      *)
(***************************************************************************)
EXTENDS Naturals, FiniteSets

CONSTANTS
    Caller,             \* threads calling the service
    HalfOpenMaxCalls,   \* probes one recovery test may have in flight
    NoWait              \* the recovery timeout is zero

VARIABLES phase, cooled, serving, probes

absVars == <<phase, cooled, serving, probes>>

AbsInit ==
    /\ phase = "closed"
    /\ cooled = TRUE
    /\ serving = {}
    /\ probes = {}

\* In CLOSED every call is served.
Serve(c) ==
    /\ phase = "closed"
    /\ c \notin serving
    /\ serving' = serving \cup {c}
    /\ UNCHANGED <<phase, cooled, probes>>

\* A recovery test may start once the timeout has passed.
Test ==
    /\ phase = "open" /\ cooled
    /\ phase' = "half_open"
    /\ probes' = {}
    /\ UNCHANGED <<cooled, serving>>

\* A probe is served in HALF_OPEN, or starts the test itself.
Probe(c) ==
    /\ phase = "half_open" \/ (phase = "open" /\ cooled)
    /\ c \notin serving
    /\ Cardinality(IF phase = "half_open" THEN probes ELSE {}) < HalfOpenMaxCalls
    /\ phase' = "half_open"
    /\ probes' = (IF phase = "half_open" THEN probes ELSE {}) \cup {c}
    /\ serving' = serving \cup {c}
    /\ UNCHANGED cooled

\* A call ends, its outcome unnoticed.
FinishQuietly(c) ==
    /\ c \in serving
    /\ serving' = serving \ {c}
    /\ probes' = probes \ {c}
    /\ UNCHANGED <<phase, cooled>>

\* A call ends well in HALF_OPEN: the service has recovered.
Recover(c) ==
    /\ c \in serving
    /\ phase = "half_open"
    /\ phase' = "closed"
    /\ serving' = serving \ {c}
    /\ probes' = {}
    /\ UNCHANGED cooled

\* A call fails: the wait starts over; CLOSED may open, HALF_OPEN must.
FailCall(c) ==
    /\ c \in serving
    /\ phase' \in IF phase = "closed" THEN {"closed", "open"} ELSE {"open"}
    /\ cooled' = NoWait
    /\ serving' = serving \ {c}
    /\ probes' = {}

\* The operator closes the circuit.
ForceClose ==
    /\ phase' = "closed"
    /\ probes' = {}
    /\ UNCHANGED <<cooled, serving>>

Cool ==
    /\ cooled' = TRUE
    /\ UNCHANGED <<phase, serving, probes>>

AbsNext ==
    \/ Test \/ ForceClose \/ Cool
    \/ \E c \in Caller : \/ Serve(c) \/ Probe(c) \/ FinishQuietly(c)
                         \/ Recover(c) \/ FailCall(c)

AbsSpec == AbsInit /\ [][AbsNext]_absVars
============================================================================
