---------------------------- MODULE ProbeBattery ----------------------------
(***************************************************************************)
(* Probe batteries in the background: the divergence engine                *)
(* (divergence/engine.py) submits them to its thread pool and keeps a list *)
(* of the pending ones for wait_for_background_l3; the runner              *)
(* (divergence/l3_icm.py) asks the model probe after probe, with retries,  *)
(* and the report may trip the engine.  Users are threads of the program   *)
(* that chat, and so schedule batteries, or wait for them; the list is     *)
(* replaced without a lock.  Batteries are numbered as they are submitted. *)
(*                                                                         *)
(* plan        the batteries there will be: how many probes each has       *)
(* battery[b]  a future and the run behind it: the probe it is at, which   *)
(*             call of that probe (0 the structured one, then the raw ones)*)
(*             and what it has counted so far                              *)
(* pending     _pending_futures                                            *)
(* tripped     _circuit_breaker_tripped                                    *)
(* user[u]     where a user is in scheduling or waiting, the battery it has*)
(*             submitted, and the list it has computed or waits for        *)
(* History are, in a battery, unanswered and severeSilent, its probes (and *)
(* whether a critical one) that got no answer; and exposed, the batteries  *)
(* that were unfinished while two users were inside.                       *)
(***************************************************************************)
EXTENDS Naturals, FiniteSets, Sequences

CONSTANTS
    User,         \* threads that chat or wait
    Plans,        \* the sequences of batteries considered: how many probes each
                  \* has (all there are, or max_probes)
    Severe,       \* the probes whose severity is critical
    Workers,      \* threads of the pool
    MaxRetries    \* ICM_MAX_RETRIES

ASSUME BatteryAssumption ==
    /\ Plans \subseteq Seq(Nat)
    /\ Severe \subseteq Nat
    /\ Workers \in Nat \ {0}
    /\ MaxRetries \in Nat

VARIABLES plan, battery, pending, tripped, user, exposed

vars == <<plan, battery, pending, tripped, user, exposed>>

Battery == UNION {DOMAIN p : p \in Plans}

Status == {"none", "queued", "running", "reported", "done"}
Run == [status : Status, probe : Nat, call : 0 .. MaxRetries + 1,
        passed : Nat, severeFailed : BOOLEAN, unanswered : Nat, severeSilent : BOOLEAN]
UserStep == {"idle", "listing", "assigning", "reading", "appending", "orphaned",
             "waiting", "keeping"}

TypeOK ==
    /\ plan \in Plans
    /\ battery \in [Battery -> Run]
    /\ \A b \in DOMAIN plan :
          /\ battery[b].probe \in 1 .. plan[b] + 1
          /\ battery[b].passed < battery[b].probe
    /\ pending \subseteq Battery
    /\ tripped \in BOOLEAN
    /\ user \in [User -> [step : UserStep, own : SUBSET Battery, list : SUBSET Battery]]
    /\ exposed \subseteq Battery

NewRun == [status |-> "none", probe |-> 1, call |-> 0, passed |-> 0,
           severeFailed |-> FALSE, unanswered |-> 0, severeSilent |-> FALSE]
Idle == [step |-> "idle", own |-> {}, list |-> {}]

Init ==
    /\ plan \in Plans
    /\ battery = [b \in Battery |-> NewRun]
    /\ pending = {}
    /\ tripped = FALSE
    /\ user = [u \in User |-> Idle]
    /\ exposed = {}

Has(b, status) == battery[b].status = status
Unfinished(s) == {b \in s : ~Has(b, "done")}
Underway == {b \in Battery : ~Has(b, "none") /\ ~Has(b, "done")}

At(u, step) == user[u].step = step
GoTo(u, step) == user' = [user EXCEPT ![u].step = step]
Enters(u, more) ==
    exposed' = IF \E v \in User \ {u} : ~At(v, "idle")
               THEN exposed \cup Underway \cup more
               ELSE exposed

----------------------------------------------------------------------------
(* _schedule_background_l3: submit, keep the unfinished ones, append       *)

Submit(u, b) ==
    /\ At(u, "idle")
    /\ b \in DOMAIN plan
    /\ Has(b, "none") /\ \A a \in 1 .. b - 1 : ~Has(a, "none")
    /\ battery' = [battery EXCEPT ![b].status = "queued"]
    /\ user' = [user EXCEPT ![u].step = "listing", ![u].own = {b}]
    /\ Enters(u, {b})
    /\ UNCHANGED <<plan, pending, tripped>>

ListUnfinished(u) ==
    /\ At(u, "listing")
    /\ user' = [user EXCEPT ![u].step = "assigning", ![u].list = Unfinished(pending)]
    /\ UNCHANGED <<plan, battery, pending, tripped, exposed>>

\* The attribute gets a new list; a user about to append to the old one appends
\* to a list nobody will look at.
Replace(u, next) ==
    /\ pending' = user[u].list
    /\ user' = [v \in User |-> IF v = u THEN next
                               ELSE IF At(v, "appending")
                                    THEN [user[v] EXCEPT !.step = "orphaned"]
                                    ELSE user[v]]
    /\ UNCHANGED <<plan, battery, tripped, exposed>>

Assign(u) ==
    /\ At(u, "assigning")
    /\ Replace(u, [user[u] EXCEPT !.step = "reading", !.list = {}])

ReadAttribute(u) ==
    /\ At(u, "reading")
    /\ GoTo(u, "appending")
    /\ UNCHANGED <<plan, battery, pending, tripped, exposed>>

AppendOwn(u) ==
    /\ At(u, "appending") \/ At(u, "orphaned")
    /\ pending' = IF At(u, "appending") THEN pending \cup user[u].own ELSE pending
    /\ user' = [user EXCEPT ![u] = Idle]
    /\ UNCHANGED <<plan, battery, tripped, exposed>>

----------------------------------------------------------------------------
(* wait_for_background_l3, for batteries that are all done or until the    *)
(* timeout                                                                 *)

BeginWait(u) ==
    /\ At(u, "idle")
    /\ pending # {}
    /\ user' = [user EXCEPT ![u].step = "waiting", ![u].list = pending]
    /\ Enters(u, {})
    /\ UNCHANGED <<plan, battery, pending, tripped>>

\* Mutant: after a wait nothing is taken to be pending, also on a timeout.
KeptNone(u) == {}

Kept(u) == Unfinished(user[u].list)

EndWait(u) ==
    /\ At(u, "waiting")
    /\ user' = [user EXCEPT ![u].step = "keeping", ![u].list = Kept(u)]
    /\ UNCHANGED <<plan, battery, pending, tripped, exposed>>

KeepUnfinished(u) ==
    /\ At(u, "keeping")
    /\ Replace(u, Idle)

----------------------------------------------------------------------------
(* ICMRunner.run in a thread of the pool                                   *)

Running == {b \in Battery : Has(b, "running") \/ Has(b, "reported")}

\* Batteries start in the order they were submitted.  One whose probe file
\* cannot be loaded ends without a report.
Start(b) ==
    /\ Has(b, "queued") /\ \A a \in 1 .. b - 1 : ~Has(a, "queued")
    /\ Cardinality(Running) < Workers
    /\ \E status \in {"running", "done"} : battery' = [battery EXCEPT ![b].status = status]
    /\ UNCHANGED <<plan, pending, tripped, user, exposed>>

\* What an answer shows of the model, or that there was none: the placeholder
\* for a failed call holds no word of a refusal and is classified as uncertain.
\* Mutant: it is classified as a refusal, which is what most probes expect.
PassesUnanswered(answer) == answer # "disobeyed"

Passes(answer) == answer = "obeyed"

\* _evaluate_probe_response, and on to the next probe.
Evaluate(b, answer) ==
    battery' = [battery EXCEPT
        ![b].probe = @ + 1,
        ![b].call = 0,
        ![b].passed = IF Passes(answer) THEN @ + 1 ELSE @,
        ![b].severeFailed = @ \/ (~Passes(answer) /\ battery[b].probe \in Severe),
        ![b].unanswered = IF answer = "none" THEN @ + 1 ELSE @,
        ![b].severeSilent = @ \/ (answer = "none" /\ battery[b].probe \in Severe)]

\* Mutant: after a raw call the structured one is tried again.
RetryFromTheStart(b) ==
    battery' = [battery EXCEPT ![b].call = IF @ = 0 THEN 1 ELSE 0]

Retry(b) == battery' = [battery EXCEPT ![b].call = @ + 1]

\* Mutant: one attempt more than the retries allow.
OneAttemptMore(b) == battery[b].call <= MaxRetries + 1

HasAttempts(b) == battery[b].call <= MaxRetries

Asking(b) == Has(b, "running") /\ battery[b].probe <= plan[b]

Answered(b) ==
    /\ Asking(b)
    /\ \E answer \in {"obeyed", "disobeyed"} : Evaluate(b, answer)
    /\ UNCHANGED <<plan, pending, tripped, user, exposed>>

\* Whatever goes wrong with the structured call, the raw one follows; after it
\* only rate limits, timeouts and lost connections are retried.
CallFails(b) ==
    /\ Asking(b)
    /\ \/ HasAttempts(b) /\ Retry(b)
       \/ battery[b].call > 0 /\ Evaluate(b, "none")
    /\ UNCHANGED <<plan, pending, tripped, user, exposed>>

\* A battery without probes has health 0.
IsHealthy(b) ==
    /\ ~battery[b].severeFailed
    /\ plan[b] > 0
    /\ 100 * battery[b].passed >= 80 * plan[b]

\* _build_report and _handle_l3_report; the callback that tells the breaker of
\* the wrapper is in WrapperBreaker.
ReportBattery(b) ==
    /\ Has(b, "running") /\ battery[b].probe > plan[b]
    /\ battery' = [battery EXCEPT ![b].status = "reported"]
    /\ tripped' = (tripped \/ ~IsHealthy(b))
    /\ UNCHANGED <<plan, pending, user, exposed>>

Complete(b) ==
    /\ Has(b, "reported")
    /\ battery' = [battery EXCEPT ![b].status = "done"]
    /\ UNCHANGED <<plan, pending, tripped, user, exposed>>

\* reset_circuit_breaker of the engine.
ResetFlag ==
    /\ tripped' = FALSE
    /\ UNCHANGED <<plan, battery, pending, user, exposed>>

Schedule(u) == ListUnfinished(u) \/ Assign(u) \/ ReadAttribute(u) \/ AppendOwn(u)
Wait(u) == EndWait(u) \/ KeepUnfinished(u)
Work(b) == Start(b) \/ Answered(b) \/ CallFails(b) \/ ReportBattery(b) \/ Complete(b)

Next ==
    \/ \E u \in User : (\E b \in Battery : Submit(u, b)) \/ BeginWait(u)
                       \/ Schedule(u) \/ Wait(u)
    \/ \E b \in Battery : Work(b)
    \/ ResetFlag

Spec == Init /\ [][Next]_vars

\* The pool runs what it is given, and every call of the model ends: it has a
\* timeout.
FairSpec == Spec /\ \A b \in Battery : WF_vars(Work(b))

----------------------------------------------------------------------------
(* Properties                                                              *)

\* An outage never looks like health: in a battery that reports health every
\* critical probe was answered, and at most every fifth probe was not.
HealthIsShown ==
    \A b \in Battery : Has(b, "reported") /\ IsHealthy(b) =>
        /\ ~battery[b].severeSilent
        /\ 100 * battery[b].unanswered <= 20 * plan[b]

\* A battery that is under way is in the list the next wait will read, unless
\* its submission has not got there, or two users have been scheduling or
\* waiting at once since it was submitted: only they can make the wait forget
\* it, and only the batteries of that time.
NothingForgotten ==
    \A b \in Underway : \/ b \in pending \cup exposed
                        \/ \E u \in User : b \in user[u].own

\* Whatever the model answers or fails to answer, and whoever waits, every
\* battery submitted ends.
BatteriesEnd == \A b \in Battery : Has(b, "queued") ~> Has(b, "done")
============================================================================
