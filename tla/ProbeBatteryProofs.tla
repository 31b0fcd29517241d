------------------------- MODULE ProbeBatteryProofs -------------------------
(***************************************************************************)
(* Theorems about ProbeBattery, for any users, batteries, pool and retries.*)
(***************************************************************************)
EXTENDS ProbeBattery, FiniteSetTheorems, NaturalsInduction, TLAPS

\* The run r of a battery of n probes counts every probe once at most, no probe
\* without an answer passes, and a report comes after the last probe.
SoundRun(r, n) ==
    /\ r.passed + r.unanswered < r.probe
    /\ r.probe <= n + 1
    /\ r.severeSilent => r.severeFailed
    /\ r.status = "reported" => r.probe = n + 1

Runs ==
    /\ \A b \in DOMAIN plan : SoundRun(battery[b], plan[b])
    /\ \A b \in Battery : ~Has(b, "none") => b \in DOMAIN plan

Inside(u) == ~At(u, "idle")
Held(b) == \E u \in User : b \in user[u].own

\* What keeps a battery from being forgotten: whoever is about to replace the
\* list has one that lacks only batteries that others hold or that are exposed,
\* and whatever two users inside at once have submitted is exposed.
Lists ==
    /\ \A b \in Underway : b \in pending \/ b \in exposed \/ Held(b)
    /\ \A u \in User : user[u].step \in {"assigning", "waiting", "keeping"} =>
          \A b \in Underway : b \in user[u].list \/ b \in exposed \/ Held(b)
    /\ \A u, v \in User : u # v /\ Inside(u) /\ Inside(v) =>
          \A b \in Underway : b \in user[u].own => b \in exposed
    /\ \A u \in User : At(u, "orphaned") =>
          \A b \in Underway : b \in user[u].own => b \in exposed
    /\ \A u \in User : user[u].step \in {"idle", "waiting", "keeping"} => user[u].own = {}

\* The inductive invariant.
Inv == TypeOK /\ Runs /\ Lists

----------------------------------------------------------------------------
(* Plans and batteries                                                     *)

LEMMA PlanType ==
    ASSUME TypeOK
    PROVE  DOMAIN plan \subseteq Battery /\ \A b \in DOMAIN plan : plan[b] \in Nat
<1>1. plan \in Plans /\ plan \in Seq(Nat)
  BY BatteryAssumption DEF TypeOK
<1>2. DOMAIN plan \subseteq Battery
  BY <1>1 DEF Battery
<1>3. \A b \in DOMAIN plan : plan[b] \in Nat
  BY <1>1
<1> QED
  BY <1>2, <1>3

LEMMA UserTypes ==
    ASSUME TypeOK, NEW u \in User
    PROVE  /\ user[u].step \in UserStep
           /\ user[u].own \in SUBSET Battery
           /\ user[u].list \in SUBSET Battery
BY DEF TypeOK

\* A step of a battery that is under way.
LEMMA BatteryStep ==
    ASSUME Inv, NEW b \in Battery, NEW r \in Run,
           battery' = [battery EXCEPT ![b] = r],
           b \in Underway, r.status # "none",
           SoundRun(r, plan[b]),
           tripped' \in BOOLEAN,
           UNCHANGED <<plan, pending, user, exposed>>
    PROVE  Inv'
<1>1. battery \in [Battery -> Run] /\ b \in DOMAIN plan /\ plan[b] \in Nat
  BY PlanType DEF Inv, TypeOK, Runs, Underway
<1>2. battery' \in [Battery -> Run]
  BY <1>1
<1>3. Underway' \subseteq Underway
  BY <1>1 DEF Underway, Has
<1>4. r.probe \in 1 .. plan[b] + 1 /\ r.passed < r.probe
  <2>1. r.probe \in Nat /\ r.passed \in Nat /\ r.unanswered \in Nat
    BY DEF Run
  <2> QED
    BY <1>1, <2>1 DEF SoundRun
<1>5. ASSUME NEW a \in DOMAIN plan
      PROVE  battery'[a].probe \in 1 .. plan[a] + 1 /\ battery'[a].passed < battery'[a].probe
  <2>1. a \in Battery
    BY PlanType DEF Inv
  <2> QED
    BY <1>1, <1>4, <2>1 DEF Inv, TypeOK
<1>6. TypeOK'
  BY <1>2, <1>5 DEF Inv, TypeOK
<1>7. Runs'
  BY <1>1, PlanType DEF Inv, Runs, Has
<1>8. Lists'
  BY <1>3 DEF Inv, Lists, Inside, At, Held
<1> QED
  BY <1>6, <1>7, <1>8 DEF Inv

\* A step that leaves the batteries alone keeps what is known of them.
LEMMA RunsKept ==
    ASSUME Runs, UNCHANGED <<plan, battery>>
    PROVE  Runs' /\ Underway' = Underway /\ \A s : Unfinished(s)' = Unfinished(s)
BY DEF Runs, Underway, Unfinished, Has

\* The initial states.
LEMMA InitInv == Init => Inv
<1> SUFFICES ASSUME Init PROVE Inv
  OBVIOUS
<1>1. plan \in Seq(Nat)
  BY BatteryAssumption DEF Init
<1>2. DOMAIN plan \subseteq Battery /\ \A b \in DOMAIN plan : plan[b] \in Nat
  BY <1>1 DEF Init, Battery
<1>3. NewRun \in Run
  BY BatteryAssumption DEF NewRun, Run, Status
<1>4. ASSUME NEW b \in DOMAIN plan
      PROVE  /\ battery[b].probe \in 1 .. plan[b] + 1
             /\ battery[b].passed < battery[b].probe
             /\ SoundRun(battery[b], plan[b])
  BY <1>2 DEF Init, NewRun, SoundRun
<1>5. \A b \in Battery : Has(b, "none")
  BY DEF Init, NewRun, Has
<1>6. user \in [User -> [step : UserStep, own : SUBSET Battery, list : SUBSET Battery]]
  BY DEF Init, Idle, UserStep
<1>7. TypeOK
  BY <1>3, <1>4, <1>6 DEF Init, TypeOK
<1>8. Runs
  BY <1>4, <1>5 DEF Runs
<1>9. Underway = {}
  BY <1>5 DEF Underway
<1>10. Lists
  BY <1>9 DEF Lists, Init, Idle
<1> QED
  BY <1>7, <1>8, <1>10 DEF Inv

----------------------------------------------------------------------------
(* The runner                                                              *)

LEMMA WorkStep ==
    ASSUME Inv, NEW b \in Battery, Work(b)
    PROVE  Inv'
<1>1. /\ battery \in [Battery -> Run]
      /\ battery[b] \in Run
      /\ tripped \in BOOLEAN
  BY DEF Inv, TypeOK
<1>2. ~Has(b, "none") /\ ~Has(b, "done")
  BY DEF Work, Start, Answered, CallFails, ReportBattery, Complete, Asking, Has
<1>3. b \in Underway /\ b \in DOMAIN plan
  BY <1>2 DEF Underway, Inv, Runs
<1>4. plan[b] \in Nat /\ SoundRun(battery[b], plan[b])
  BY <1>3, PlanType DEF Inv, Runs
<1>5. /\ battery[b].probe \in Nat /\ battery[b].passed \in Nat /\ battery[b].unanswered \in Nat
      /\ battery[b].call \in 0 .. MaxRetries + 1
      /\ battery[b].severeFailed \in BOOLEAN /\ battery[b].severeSilent \in BOOLEAN
  BY <1>1 DEF Run
<1>6. ASSUME NEW status \in {"running", "reported", "done"},
             battery' = [battery EXCEPT ![b].status = status],
             status = "reported" => battery[b].probe = plan[b] + 1,
             tripped' \in BOOLEAN, UNCHANGED <<plan, pending, user, exposed>>
      PROVE  Inv'
  <2> DEFINE r == [battery[b] EXCEPT !.status = status]
  <2>1. r \in Run
    BY <1>1 DEF Run, Status
  <2>2. /\ r.status = status /\ r.probe = battery[b].probe
        /\ r.passed = battery[b].passed /\ r.unanswered = battery[b].unanswered
        /\ r.severeFailed = battery[b].severeFailed /\ r.severeSilent = battery[b].severeSilent
    BY <1>1 DEF Run
  <2>3. battery' = [battery EXCEPT ![b] = r]
    BY <1>1, <1>6
  <2> HIDE DEF r
  <2>4. SoundRun(r, plan[b])
    BY <1>4, <1>6, <2>2 DEF SoundRun
  <2> QED
    BY <1>3, <1>6, <2>1, <2>2, <2>3, <2>4, BatteryStep
<1>7. ASSUME NEW answer \in {"obeyed", "disobeyed", "none"}, Asking(b), Evaluate(b, answer),
             UNCHANGED <<plan, pending, tripped, user, exposed>>
      PROVE  Inv'
  <2> DEFINE r == [battery[b] EXCEPT
        !.probe = @ + 1,
        !.call = 0,
        !.passed = IF Passes(answer) THEN @ + 1 ELSE @,
        !.severeFailed = @ \/ (~Passes(answer) /\ battery[b].probe \in Severe),
        !.unanswered = IF answer = "none" THEN @ + 1 ELSE @,
        !.severeSilent = @ \/ (answer = "none" /\ battery[b].probe \in Severe)]
  <2>1. battery' = [battery EXCEPT ![b] = r]
    BY <1>1, <1>7 DEF Evaluate
  <2>2. /\ r.status = battery[b].status
        /\ r.probe = battery[b].probe + 1
        /\ r.call = 0
        /\ r.passed = IF Passes(answer) THEN battery[b].passed + 1 ELSE battery[b].passed
        /\ r.unanswered = IF answer = "none" THEN battery[b].unanswered + 1
                                             ELSE battery[b].unanswered
    BY <1>1 DEF Run
  <2>3. /\ r.severeFailed = (battery[b].severeFailed
                               \/ (~Passes(answer) /\ battery[b].probe \in Severe))
        /\ r.severeSilent = (battery[b].severeSilent
                               \/ (answer = "none" /\ battery[b].probe \in Severe))
    BY <1>1 DEF Run
  <2>4. r \in Run
    <3>1. /\ battery[b].probe + 1 \in Nat
          /\ (IF Passes(answer) THEN battery[b].passed + 1 ELSE battery[b].passed) \in Nat
          /\ (IF answer = "none" THEN battery[b].unanswered + 1
                                 ELSE battery[b].unanswered) \in Nat
          /\ 0 \in 0 .. MaxRetries + 1
      BY <1>5, BatteryAssumption
    <3> QED
      BY <1>1, <3>1 DEF Run
  <2> HIDE DEF r
  <2>5. r.severeSilent => r.severeFailed
    <3>1. battery[b].severeSilent => battery[b].severeFailed
      BY <1>4 DEF SoundRun
    <3> QED
      BY <2>3, <3>1 DEF Passes
  <2>6. r.status = "running" /\ battery[b].probe <= plan[b]
    BY <1>7, <2>2 DEF Asking, Has
  <2>7. r.passed + r.unanswered < r.probe /\ r.probe <= plan[b] + 1
    BY <1>4, <1>5, <2>2, <2>6 DEF SoundRun, Passes
  <2>8. SoundRun(r, plan[b])
    BY <2>5, <2>6, <2>7 DEF SoundRun
  <2>9. tripped' \in BOOLEAN /\ r.status # "none"
    BY <1>1, <1>7, <2>6
  <2> QED
    BY <1>3, <1>7, <2>1, <2>4, <2>8, <2>9, BatteryStep
<1>8. ASSUME HasAttempts(b), Retry(b), Asking(b),
             UNCHANGED <<plan, pending, tripped, user, exposed>>
      PROVE  Inv'
  <2> DEFINE r == [battery[b] EXCEPT !.call = @ + 1]
  <2>1. battery[b].call + 1 \in 0 .. MaxRetries + 1
    BY <1>5, <1>8, BatteryAssumption DEF HasAttempts
  <2>2. r \in Run
    BY <1>1, <2>1 DEF Run
  <2>3. /\ r.status = battery[b].status /\ r.probe = battery[b].probe
        /\ r.passed = battery[b].passed /\ r.unanswered = battery[b].unanswered
        /\ r.severeFailed = battery[b].severeFailed /\ r.severeSilent = battery[b].severeSilent
    BY <1>1 DEF Run
  <2>4. battery' = [battery EXCEPT ![b] = r]
    BY <1>1, <1>8 DEF Retry
  <2> HIDE DEF r
  <2>5. SoundRun(r, plan[b]) /\ r.status # "none"
    BY <1>2, <1>4, <2>3 DEF SoundRun, Has
  <2> QED
    BY <1>1, <1>3, <1>8, <2>2, <2>4, <2>5, BatteryStep
<1>9. CASE Start(b)
  BY <1>1, <1>6, <1>9 DEF Start
<1>10. CASE Answered(b)
  BY <1>7, <1>10 DEF Answered
<1>11. CASE CallFails(b)
  BY <1>7, <1>8, <1>11 DEF CallFails
<1>12. CASE ReportBattery(b)
  <2>1. battery[b].probe = plan[b] + 1
    BY <1>4, <1>5, <1>12 DEF ReportBattery, SoundRun
  <2>2. tripped' \in BOOLEAN
    BY <1>1, <1>12 DEF ReportBattery
  <2> QED
    BY <1>6, <1>12, <2>1, <2>2 DEF ReportBattery
<1>13. CASE Complete(b)
  BY <1>1, <1>6, <1>13 DEF Complete
<1> QED
  BY <1>9, <1>10, <1>11, <1>12, <1>13 DEF Work

----------------------------------------------------------------------------
(* The users                                                               *)

\* Whoever comes in while another user is inside exposes what is under way.
LEMMA EntersExposes ==
    ASSUME TypeOK, NEW u \in User, NEW more \in SUBSET Battery, Enters(u, more)
    PROVE  /\ exposed \subseteq exposed' /\ exposed' \subseteq Battery
           /\ \A v \in User : v # u /\ Inside(v) => Underway \cup more \subseteq exposed'
BY DEF Enters, Inside, Underway, TypeOK

LEMMA SubmitStep ==
    ASSUME Inv, NEW u \in User, NEW b \in Battery, Submit(u, b)
    PROVE  Inv'
<1>1. /\ battery \in [Battery -> Run] /\ battery[b] \in Run
      /\ user \in [User -> [step : UserStep, own : SUBSET Battery, list : SUBSET Battery]]
      /\ user[u].step = "idle" /\ user[u].own = {}
      /\ b \in DOMAIN plan
  BY DEF Inv, TypeOK, Submit, At, Lists
<1> DEFINE r == [battery[b] EXCEPT !.status = "queued"]
<1> DEFINE q == [user[u] EXCEPT !.step = "listing", !.own = {b}]
<1>2. /\ r \in Run /\ r.status = "queued"
      /\ r.probe = battery[b].probe /\ r.passed = battery[b].passed
      /\ r.unanswered = battery[b].unanswered
      /\ r.severeFailed = battery[b].severeFailed /\ r.severeSilent = battery[b].severeSilent
  BY <1>1 DEF Run, Status
<1>3. q.step = "listing" /\ q.own = {b}
  BY <1>1
<1>4. q \in [step : UserStep, own : SUBSET Battery, list : SUBSET Battery]
  BY <1>1 DEF UserStep
<1>5. battery' = [battery EXCEPT ![b] = r] /\ user' = [user EXCEPT ![u] = q]
  BY <1>1 DEF Submit
<1> HIDE DEF r, q
<1>6. UNCHANGED <<plan, pending, tripped>> /\ Enters(u, {b})
  BY DEF Submit
<1>7. /\ exposed \subseteq exposed' /\ exposed' \subseteq Battery
      /\ \A v \in User : v # u /\ Inside(v) => Underway \cup {b} \subseteq exposed'
  BY <1>6, EntersExposes DEF Inv
<1>8. Underway' \subseteq Underway \cup {b}
  BY <1>1, <1>5 DEF Underway, Has
<1>9. TypeOK'
  <2>1. battery' \in [Battery -> Run]
    BY <1>1, <1>2, <1>5
  <2>2. user' \in [User -> [step : UserStep, own : SUBSET Battery, list : SUBSET Battery]]
    BY <1>1, <1>4, <1>5
  <2>3. \A a \in DOMAIN plan : /\ battery'[a].probe = battery[a].probe
                               /\ battery'[a].passed = battery[a].passed
    BY <1>1, <1>2, <1>5, PlanType DEF Inv
  <2> QED
    BY <1>6, <1>7, <2>1, <2>2, <2>3 DEF Inv, TypeOK
<1>10. Runs'
  <2>1. ASSUME NEW a \in DOMAIN plan
        PROVE  SoundRun(battery'[a], plan[a])
    <3>1. a \in Battery /\ SoundRun(battery[a], plan[a])
      BY PlanType DEF Inv, Runs
    <3> QED
      BY <1>1, <1>2, <1>5, <3>1 DEF SoundRun
  <2>2. \A a \in Battery : battery'[a].status # "none" => a \in DOMAIN plan
    BY <1>1, <1>5 DEF Inv, Runs, Has
  <2> QED
    BY <1>6, <2>1, <2>2 DEF Runs, Has
<1>11. Lists'
  <2>1. /\ \A v \in User : v # u => user'[v] = user[v]
        /\ user'[u].step = "listing" /\ user'[u].own = {b}
    BY <1>1, <1>3, <1>5
  <2>2. b \in user'[u].own
    BY <2>1
  <2>3. \A a \in Battery : Held(a) => Held(a)'
    BY <1>1, <2>1 DEF Held
  <2>4. Held(b)'
    BY <2>2 DEF Held
  <2>5. \A a \in Underway' : a = b \/ a \in Underway
    BY <1>8
  <2>6. \A a \in Underway' : a \in pending' \/ a \in exposed' \/ Held(a)'
    BY <1>6, <1>7, <2>3, <2>4, <2>5 DEF Inv, Lists, Underway
  <2>7. ASSUME NEW v \in User, user'[v].step \in {"assigning", "waiting", "keeping"}
        PROVE  \A a \in Underway' : a \in user'[v].list \/ a \in exposed' \/ Held(a)'
    BY <1>7, <2>1, <2>3, <2>4, <2>5, <2>7 DEF Inv, Lists, Underway
  <2>8. ASSUME NEW v \in User, NEW w \in User, v # w, Inside(v)', Inside(w)'
        PROVE  \A a \in Underway' : a \in user'[v].own => a \in exposed'
    <3>1. CASE v = u
      BY <1>7, <2>1, <2>8, <3>1 DEF Inside, At
    <3>2. CASE w = u
      BY <1>7, <2>1, <2>5, <2>8, <3>2 DEF Inside, At
    <3>3. CASE v # u /\ w # u
      BY <1>7, <2>1, <2>5, <2>8, <3>3 DEF Inv, Lists, Inside, At
    <3> QED
      BY <3>1, <3>2, <3>3
  <2>9. ASSUME NEW v \in User, At(v, "orphaned")'
        PROVE  \A a \in Underway' : a \in user'[v].own => a \in exposed'
    BY <1>7, <2>1, <2>5, <2>9 DEF Inv, Lists, Inside, At
  <2>10. \A v \in User : user'[v].step \in {"idle", "waiting", "keeping"} => user'[v].own = {}
    BY <2>1 DEF Inv, Lists
  <2> QED
    BY <2>6, <2>7, <2>8, <2>9, <2>10 DEF Lists, At
<1> QED
  BY <1>9, <1>10, <1>11 DEF Inv

\* What a user's step can do to the batteries: nothing.
LEMMA UserStepTypes ==
    ASSUME Inv, UNCHANGED <<plan, battery, tripped>>,
           pending' \subseteq Battery, exposed' \subseteq Battery,
           user' \in [User -> [step : UserStep, own : SUBSET Battery, list : SUBSET Battery]]
    PROVE  TypeOK' /\ Runs' /\ Underway' = Underway
BY RunsKept DEF Inv, TypeOK

\* A user goes on inside, with what it has submitted.
LEMMA GoesOn ==
    ASSUME Inv, NEW u \in User, Inside(u),
           NEW q \in [step : UserStep, own : SUBSET Battery, list : SUBSET Battery],
           user' = [user EXCEPT ![u] = q],
           UNCHANGED <<plan, battery, pending, tripped, exposed>>,
           q.own = user[u].own,
           q.step \in {"assigning", "reading", "appending", "keeping"},
           q.step \in {"assigning", "keeping"} =>
               \A a \in Underway : a \in q.list \/ a \in exposed \/ Held(a),
           q.step = "keeping" => q.own = {}
    PROVE  Inv'
<1>1. user \in [User -> [step : UserStep, own : SUBSET Battery, list : SUBSET Battery]]
  BY DEF Inv, TypeOK
<1>2. TypeOK' /\ Runs' /\ Underway' = Underway
  BY <1>1, UserStepTypes DEF Inv, TypeOK
<1>3. /\ \A v \in User : user'[v].own = user[v].own
      /\ \A v \in User : v # u => user'[v] = user[v]
      /\ user'[u] = q
  BY <1>1
<1>4. \A a \in Battery : Held(a)' <=> Held(a)
  BY <1>3 DEF Held
<1>5. \A v \in User : Inside(v)' <=> Inside(v)
  BY <1>3 DEF Inside, At
<1>6. Lists'
  <2>1. \A a \in Underway : a \in pending \/ a \in exposed \/ Held(a)'
    BY <1>4 DEF Inv, Lists, Underway
  <2>2. \A v \in User : user'[v].step \in {"assigning", "waiting", "keeping"} =>
           \A a \in Underway : a \in user'[v].list \/ a \in exposed \/ Held(a)'
    BY <1>3, <1>4 DEF Inv, Lists, Underway
  <2>3. \A v, w \in User : v # w /\ Inside(v)' /\ Inside(w)' =>
           \A a \in Underway : a \in user'[v].own => a \in exposed
    BY <1>3, <1>5 DEF Inv, Lists
  <2>4. \A v \in User : user'[v].step = "orphaned" =>
           \A a \in Underway : a \in user'[v].own => a \in exposed
    BY <1>3 DEF Inv, Lists, At
  <2>5. \A v \in User : user'[v].step \in {"idle", "waiting", "keeping"} => user'[v].own = {}
    BY <1>3 DEF Inv, Lists
  <2> QED
    BY <1>2, <2>1, <2>2, <2>3, <2>4, <2>5 DEF Lists, At
<1> QED
  BY <1>2, <1>6 DEF Inv

LEMMA ListStep ==
    ASSUME Inv, NEW u \in User, ListUnfinished(u)
    PROVE  Inv'
<1> DEFINE q == [user[u] EXCEPT !.step = "assigning", !.list = Unfinished(pending)]
<1>1. user[u] \in [step : UserStep, own : SUBSET Battery, list : SUBSET Battery]
      /\ pending \subseteq Battery
      /\ user \in [User -> [step : UserStep, own : SUBSET Battery, list : SUBSET Battery]]
  BY DEF Inv, TypeOK
<1>2. user' = [user EXCEPT ![u] = q] /\ Inside(u)
  BY <1>1 DEF ListUnfinished, Inside, At
<1>3. q.step = "assigning" /\ q.own = user[u].own /\ q.list = Unfinished(pending)
  BY <1>1
<1>4. q \in [step : UserStep, own : SUBSET Battery, list : SUBSET Battery]
  BY <1>1 DEF Unfinished, UserStep
<1> HIDE DEF q
<1>5. \A a \in Underway : a \in q.list \/ a \in exposed \/ Held(a)
  BY <1>3 DEF Inv, Lists, Underway, Unfinished
<1> QED
  BY <1>2, <1>3, <1>4, <1>5, GoesOn DEF ListUnfinished

LEMMA ReadStep ==
    ASSUME Inv, NEW u \in User, ReadAttribute(u)
    PROVE  Inv'
<1> DEFINE q == [user[u] EXCEPT !.step = "appending"]
<1>1. user[u] \in [step : UserStep, own : SUBSET Battery, list : SUBSET Battery]
      /\ user \in [User -> [step : UserStep, own : SUBSET Battery, list : SUBSET Battery]]
  BY DEF Inv, TypeOK
<1>2. user' = [user EXCEPT ![u] = q] /\ Inside(u)
  BY <1>1 DEF ReadAttribute, GoTo, Inside, At
<1>3. q.step = "appending" /\ q.own = user[u].own
  BY <1>1
<1>4. q \in [step : UserStep, own : SUBSET Battery, list : SUBSET Battery]
  BY <1>1 DEF UserStep
<1> HIDE DEF q
<1> QED
  BY <1>2, <1>3, <1>4, GoesOn DEF ReadAttribute

LEMMA EndWaitStep ==
    ASSUME Inv, NEW u \in User, EndWait(u)
    PROVE  Inv'
<1> DEFINE q == [user[u] EXCEPT !.step = "keeping", !.list = Kept(u)]
<1>1. user[u] \in [step : UserStep, own : SUBSET Battery, list : SUBSET Battery]
      /\ user \in [User -> [step : UserStep, own : SUBSET Battery, list : SUBSET Battery]]
      /\ user[u].list \subseteq Battery
  BY DEF Inv, TypeOK
<1>2. user' = [user EXCEPT ![u] = q] /\ Inside(u) /\ user[u].step = "waiting"
  BY <1>1 DEF EndWait, Inside, At
<1>3. q.step = "keeping" /\ q.own = user[u].own /\ q.list = Kept(u)
  BY <1>1
<1>4. q \in [step : UserStep, own : SUBSET Battery, list : SUBSET Battery]
  BY <1>1 DEF Unfinished, Kept, UserStep
<1> HIDE DEF q
<1>5. \A a \in Underway : a \in q.list \/ a \in exposed \/ Held(a)
  BY <1>2, <1>3 DEF Inv, Lists, Underway, Unfinished, Kept
<1>6. q.own = {}
  BY <1>2, <1>3 DEF Inv, Lists
<1> QED
  BY <1>2, <1>3, <1>4, <1>5, <1>6, GoesOn DEF EndWait

LEMMA BeginWaitStep ==
    ASSUME Inv, NEW u \in User, BeginWait(u)
    PROVE  Inv'
<1> DEFINE q == [user[u] EXCEPT !.step = "waiting", !.list = pending]
<1>1. user[u] \in [step : UserStep, own : SUBSET Battery, list : SUBSET Battery]
      /\ user \in [User -> [step : UserStep, own : SUBSET Battery, list : SUBSET Battery]]
      /\ pending \subseteq Battery
      /\ user[u].step = "idle" /\ user[u].own = {}
  BY DEF Inv, TypeOK, Lists, BeginWait, At
<1>2. user' = [user EXCEPT ![u] = q]
  BY <1>1 DEF BeginWait
<1>3. q.step = "waiting" /\ q.own = {} /\ q.list = pending
  BY <1>1
<1>4. q \in [step : UserStep, own : SUBSET Battery, list : SUBSET Battery]
  BY <1>1 DEF UserStep
<1> HIDE DEF q
<1>5. UNCHANGED <<plan, battery, pending, tripped>> /\ Enters(u, {})
  BY DEF BeginWait
<1>6. /\ exposed \subseteq exposed' /\ exposed' \subseteq Battery
      /\ \A v \in User : v # u /\ Inside(v) => Underway \subseteq exposed'
  BY <1>5, EntersExposes DEF Inv
<1>7. TypeOK' /\ Runs' /\ Underway' = Underway
  BY <1>1, <1>2, <1>4, <1>5, <1>6, UserStepTypes
<1>8. /\ \A v \in User : user'[v].own = user[v].own
      /\ \A v \in User : v # u => user'[v] = user[v]
      /\ user'[u] = q
  BY <1>1, <1>2, <1>3
<1>9. \A a \in Battery : Held(a)' <=> Held(a)
  BY <1>8 DEF Held
<1>10. Lists'
  <2>1. \A a \in Underway : a \in pending \/ a \in exposed' \/ Held(a)'
    BY <1>6, <1>9 DEF Inv, Lists, Underway
  <2>2. ASSUME NEW v \in User, user'[v].step \in {"assigning", "waiting", "keeping"}
        PROVE  \A a \in Underway : a \in user'[v].list \/ a \in exposed' \/ Held(a)'
    <3>1. CASE v = u
      BY <1>3, <1>8, <2>1, <3>1
    <3>2. CASE v # u
      BY <1>6, <1>8, <1>9, <2>2, <3>2 DEF Inv, Lists, Underway
    <3> QED
      BY <3>1, <3>2
  <2>3. ASSUME NEW v \in User, NEW w \in User, v # w, Inside(v)', Inside(w)'
        PROVE  \A a \in Underway : a \in user'[v].own => a \in exposed'
    <3>1. CASE v = u
      BY <1>3, <1>8, <3>1
    <3>2. CASE v # u
      BY <1>6, <1>8, <2>3, <3>2 DEF Inside, At, Inv, Lists
    <3> QED
      BY <3>1, <3>2
  <2>4. \A v \in User : user'[v].step = "orphaned" =>
           \A a \in Underway : a \in user'[v].own => a \in exposed'
    BY <1>3, <1>6, <1>8 DEF Inv, Lists, At
  <2>5. \A v \in User : user'[v].step \in {"idle", "waiting", "keeping"} => user'[v].own = {}
    BY <1>3, <1>8 DEF Inv, Lists
  <2> QED
    BY <1>5, <1>7, <2>1, <2>2, <2>3, <2>4, <2>5 DEF Lists, At
<1> QED
  BY <1>7, <1>10 DEF Inv

LEMMA AppendStep ==
    ASSUME Inv, NEW u \in User, AppendOwn(u)
    PROVE  Inv'
<1>1. /\ user \in [User -> [step : UserStep, own : SUBSET Battery, list : SUBSET Battery]]
      /\ pending \subseteq Battery /\ user[u].own \subseteq Battery /\ exposed \subseteq Battery
      /\ Inside(u)
  BY DEF Inv, TypeOK, AppendOwn, Inside, At
<1>2. Idle \in [step : UserStep, own : SUBSET Battery, list : SUBSET Battery]
  BY DEF Idle, UserStep
<1>3. /\ user' = [user EXCEPT ![u] = Idle]
      /\ UNCHANGED <<plan, battery, tripped, exposed>>
      /\ pending \subseteq pending' /\ pending' \subseteq Battery
  BY <1>1 DEF AppendOwn
<1>4. TypeOK' /\ Runs' /\ Underway' = Underway
  BY <1>1, <1>2, <1>3, UserStepTypes
<1>5. /\ \A v \in User : v # u => user'[v] = user[v]
      /\ user'[u].step = "idle" /\ user'[u].own = {}
  BY <1>1, <1>3 DEF Idle
<1>6. \A a \in Battery : Held(a) => Held(a)' \/ a \in user[u].own
  BY <1>5 DEF Held
<1>7. \A a \in Underway : a \in user[u].own => a \in pending' \/ a \in exposed
  <2>1. CASE At(u, "appending")
    BY <2>1 DEF AppendOwn
  <2>2. CASE At(u, "orphaned")
    BY <2>2 DEF Inv, Lists
  <2> QED
    BY <2>1, <2>2 DEF AppendOwn
<1>8. ASSUME NEW v \in User, v # u, Inside(v)
      PROVE  \A a \in Underway : a \in user[u].own => a \in exposed
  BY <1>1, <1>8 DEF Inv, Lists
<1>9. Lists'
  <2>1. \A a \in Underway : a \in pending' \/ a \in exposed \/ Held(a)'
    BY <1>3, <1>6, <1>7 DEF Inv, Lists, Underway
  <2>2. ASSUME NEW v \in User, user'[v].step \in {"assigning", "waiting", "keeping"}
        PROVE  \A a \in Underway : a \in user'[v].list \/ a \in exposed \/ Held(a)'
    <3>1. v # u /\ user'[v] = user[v] /\ Inside(v)
      BY <1>5, <2>2 DEF Inside, At
    <3>2. \A a \in Underway : a \in user[v].list \/ a \in exposed \/ Held(a)
      BY <2>2, <3>1 DEF Inv, Lists
    <3> QED
      BY <1>6, <1>8, <3>1, <3>2 DEF Underway
  <2>3. \A v, w \in User : v # w /\ Inside(v)' /\ Inside(w)' =>
           \A a \in Underway : a \in user'[v].own => a \in exposed
    BY <1>5 DEF Inv, Lists, Inside, At
  <2>4. \A v \in User : user'[v].step = "orphaned" =>
           \A a \in Underway : a \in user'[v].own => a \in exposed
    BY <1>5 DEF Inv, Lists, At
  <2>5. \A v \in User : user'[v].step \in {"idle", "waiting", "keeping"} => user'[v].own = {}
    BY <1>5 DEF Inv, Lists
  <2> QED
    BY <1>3, <1>4, <2>1, <2>2, <2>3, <2>4, <2>5 DEF Lists, At
<1> QED
  BY <1>4, <1>9 DEF Inv

\* The list is replaced by one that lacks nothing it must not lack, and whoever
\* was about to append has only exposed batteries to append.
LEMMA ReplaceStep ==
    ASSUME Inv, NEW u \in User,
           NEW next \in [step : UserStep, own : SUBSET Battery, list : SUBSET Battery],
           user[u].step \in {"assigning", "keeping"}, Replace(u, next),
           next.own = user[u].own, next.step \in {"reading", "idle"},
           next.step = "idle" => next.own = {}
    PROVE  Inv'
<1>1. /\ user \in [User -> [step : UserStep, own : SUBSET Battery, list : SUBSET Battery]]
      /\ user[u].list \subseteq Battery /\ exposed \subseteq Battery
      /\ Inside(u)
  BY DEF Inv, TypeOK, Inside, At
<1>2. ASSUME NEW v \in User
      PROVE  /\ user'[v] \in [step : UserStep, own : SUBSET Battery, list : SUBSET Battery]
             /\ user'[v].own = user[v].own
             /\ v # u => /\ user'[v].list = user[v].list
                         /\ user'[v].step = IF At(v, "appending") THEN "orphaned" ELSE user[v].step
             /\ v = u => user'[v] = next
  <2>1. user'[v] = IF v = u THEN next
                   ELSE IF At(v, "appending") THEN [user[v] EXCEPT !.step = "orphaned"]
                   ELSE user[v]
    BY DEF Replace
  <2>2. user[v] \in [step : UserStep, own : SUBSET Battery, list : SUBSET Battery]
    BY <1>1
  <2>3. CASE v = u
    BY <2>1, <2>3
  <2>4. CASE v # u /\ At(v, "appending")
    BY <2>1, <2>2, <2>4 DEF UserStep
  <2>5. CASE v # u /\ ~At(v, "appending")
    BY <2>1, <2>2, <2>5
  <2> QED
    BY <2>3, <2>4, <2>5
<1>3. user' \in [User -> [step : UserStep, own : SUBSET Battery, list : SUBSET Battery]]
  BY <1>2 DEF Replace
<1>4. pending' = user[u].list /\ UNCHANGED <<plan, battery, tripped, exposed>>
  BY DEF Replace
<1>5. TypeOK' /\ Runs' /\ Underway' = Underway
  BY <1>1, <1>3, <1>4, UserStepTypes
<1>6. \A a \in Battery : Held(a)' <=> Held(a)
  BY <1>2 DEF Held
<1>7. \A v \in User : Inside(v)' => Inside(v)
  BY <1>1, <1>2 DEF Inside, At
<1>8. Lists'
  <2>1. \A a \in Underway : a \in user[u].list \/ a \in exposed \/ Held(a)'
    BY <1>6 DEF Inv, Lists, Underway
  <2>2. ASSUME NEW v \in User, user'[v].step \in {"assigning", "waiting", "keeping"}
        PROVE  \A a \in Underway : a \in user'[v].list \/ a \in exposed \/ Held(a)'
    <3>1. v # u /\ user[v].step = user'[v].step /\ user'[v].list = user[v].list
      BY <1>2, <2>2 DEF At
    <3>2. \A a \in Underway : a \in user[v].list \/ a \in exposed \/ Held(a)
      BY <2>2, <3>1 DEF Inv, Lists
    <3> QED
      BY <1>6, <3>1, <3>2 DEF Underway
  <2>3. \A v, w \in User : v # w /\ Inside(v)' /\ Inside(w)' =>
           \A a \in Underway : a \in user'[v].own => a \in exposed
    BY <1>2, <1>7 DEF Inv, Lists
  <2>4. ASSUME NEW v \in User, user'[v].step = "orphaned"
        PROVE  \A a \in Underway : a \in user'[v].own => a \in exposed
    <3>1. v # u /\ user'[v].own = user[v].own /\ (At(v, "appending") \/ At(v, "orphaned"))
      BY <1>2, <2>4 DEF At
    <3>2. Inside(v)
      BY <3>1 DEF Inside, At
    <3> QED
      BY <1>1, <3>1, <3>2 DEF Inv, Lists
  <2>5. \A v \in User : user'[v].step \in {"idle", "waiting", "keeping"} => user'[v].own = {}
    BY <1>2 DEF Inv, Lists, At
  <2> QED
    BY <1>4, <1>5, <2>1, <2>2, <2>3, <2>4, <2>5 DEF Lists, At
<1> QED
  BY <1>5, <1>8 DEF Inv

LEMMA AssignStep ==
    ASSUME Inv, NEW u \in User, Assign(u)
    PROVE  Inv'
<1> DEFINE next == [user[u] EXCEPT !.step = "reading", !.list = {}]
<1>1. user[u] \in [step : UserStep, own : SUBSET Battery, list : SUBSET Battery]
  BY DEF Inv, TypeOK
<1>2. /\ next \in [step : UserStep, own : SUBSET Battery, list : SUBSET Battery]
      /\ next.step = "reading" /\ next.own = user[u].own
  BY <1>1 DEF UserStep
<1>3. user[u].step = "assigning" /\ Replace(u, next)
  BY DEF Assign, At
<1> HIDE DEF next
<1> QED
  BY <1>2, <1>3, ReplaceStep

LEMMA KeepStep ==
    ASSUME Inv, NEW u \in User, KeepUnfinished(u)
    PROVE  Inv'
<1>1. /\ Idle \in [step : UserStep, own : SUBSET Battery, list : SUBSET Battery]
      /\ Idle.step = "idle" /\ Idle.own = {}
  BY DEF Idle, UserStep
<1>2. user[u].step = "keeping" /\ user[u].own = {}
  BY DEF KeepUnfinished, At, Inv, Lists
<1> QED
  BY <1>1, <1>2, ReplaceStep DEF KeepUnfinished

----------------------------------------------------------------------------
(* Theorems                                                                *)

LEMMA NextInv == Inv /\ [Next]_vars => Inv'
<1> SUFFICES ASSUME Inv, [Next]_vars
             PROVE  Inv'
  OBVIOUS
<1>1. ASSUME NEW u \in User, Schedule(u) \/ Wait(u)
      PROVE  Inv'
  BY <1>1, ListStep, AssignStep, ReadStep, AppendStep, EndWaitStep, KeepStep DEF Schedule, Wait
<1>2. CASE ResetFlag
  BY <1>2, RunsKept DEF ResetFlag, Inv, TypeOK, Lists, At, Inside, Held
<1>3. CASE UNCHANGED vars
  BY <1>3, RunsKept DEF vars, Inv, TypeOK, Lists, At, Inside, Held
<1> QED
  BY <1>1, <1>2, <1>3, SubmitStep, BeginWaitStep, WorkStep DEF Next

LEMMA Invariance == Spec => []Inv
BY InitInv, NextInv, PTL DEF Spec

\* Type correctness: no probe is asked too often, none is skipped or repeated.
THEOREM TypeCorrect == Spec => []TypeOK
<1>1. Inv => TypeOK
  BY DEF Inv
<1> QED
  BY <1>1, Invariance, PTL

\* An outage never looks like health, for batteries of any length.
THEOREM HealthIsAlwaysShown == Spec => []HealthIsShown
<1>1. Inv => HealthIsShown
  <2> SUFFICES ASSUME Inv, NEW b \in Battery, Has(b, "reported"), IsHealthy(b)
               PROVE  /\ ~battery[b].severeSilent
                      /\ 100 * battery[b].unanswered <= 20 * plan[b]
    BY DEF HealthIsShown
  <2>1. b \in DOMAIN plan /\ plan[b] \in Nat /\ SoundRun(battery[b], plan[b])
    BY PlanType DEF Inv, Runs, Has
  <2>2. /\ battery[b].probe \in Nat /\ battery[b].passed \in Nat
        /\ battery[b].unanswered \in Nat
    BY DEF Inv, TypeOK, Run
  <2>3. battery[b].passed + battery[b].unanswered <= plan[b]
    BY <2>1, <2>2 DEF SoundRun, Has
  <2>4. 100 * battery[b].passed >= 80 * plan[b]
    BY DEF IsHealthy
  <2>5. 100 * battery[b].unanswered <= 20 * plan[b]
    BY <2>1, <2>2, <2>3, <2>4
  <2>6. ~battery[b].severeSilent
    BY <2>1 DEF SoundRun, IsHealthy
  <2> QED
    BY <2>5, <2>6
<1> QED
  BY <1>1, Invariance, PTL

\* A battery under way is in the list unless two users were inside at once, for
\* any number of users and batteries.
THEOREM NothingIsForgotten == Spec => []NothingForgotten
<1>1. Inv => NothingForgotten
  BY DEF Inv, Lists, NothingForgotten, Held
<1> QED
  BY <1>1, Invariance, PTL

----------------------------------------------------------------------------
(* Batteries end                                                           *)

\* The calls a battery may still make, its report and its completion: a probe
\* takes a structured call and at most MaxRetries + 1 raw ones.
Distance(b) ==
    CASE Has(b, "queued")   -> plan[b] * (MaxRetries + 2) + MaxRetries + 4
      [] Has(b, "running")  -> (plan[b] + 1 - battery[b].probe) * (MaxRetries + 2)
                               + (MaxRetries + 1 - battery[b].call) + 2
      [] Has(b, "reported") -> 1
      [] OTHER              -> 0

\* The pool has a thread at work on it, or a free one to begin with it.
CanWork(b) ==
    \/ Has(b, "running") \/ Has(b, "reported")
    \/ Has(b, "queued") /\ (\A a \in 1 .. b - 1 : ~Has(a, "queued"))
                        /\ Cardinality(Running) < Workers

\* Multiples of a natural number: k more make it so much larger.
LEMMA Multiples ==
    ASSUME NEW k \in Nat, NEW m \in Nat, NEW n \in Nat, m <= n
    PROVE  /\ m * k \in Nat /\ n * k \in Nat /\ m * k <= n * k
           /\ (m + 1) * k = m * k + k
<1>1. PICK d \in Nat : n = m + d
  <2>1. n - m \in Nat /\ n = m + (n - m)
    OBVIOUS
  <2> QED
    BY <2>1
<1>2. m * k \in Nat /\ d * k \in Nat
  OBVIOUS
<1>3. n * k = m * k + d * k
  BY <1>1
<1>4. (m + 1) * k = m * k + k
  OBVIOUS
<1> QED
  BY <1>2, <1>3, <1>4

\* The distance of a battery that runs, in terms of what is left of its plan.
LEMMA RunningDistance ==
    ASSUME Inv, NEW b \in DOMAIN plan
    PROVE  /\ b \in Battery /\ plan[b] \in Nat /\ MaxRetries \in Nat
           /\ battery \in [Battery -> Run]
           /\ battery[b].call \in 0 .. MaxRetries + 1
           /\ plan[b] + 1 - battery[b].probe \in 0 .. plan[b]
           /\ plan[b] * (MaxRetries + 2) \in Nat
           /\ (plan[b] + 1 - battery[b].probe) * (MaxRetries + 2)
                 \in 0 .. plan[b] * (MaxRetries + 2)
<1>1. /\ b \in Battery /\ plan[b] \in Nat /\ MaxRetries \in Nat
      /\ battery \in [Battery -> Run]
  BY PlanType, BatteryAssumption DEF Inv, TypeOK
<1>2. battery[b].call \in 0 .. MaxRetries + 1 /\ battery[b].probe \in 1 .. plan[b] + 1
  BY <1>1 DEF Inv, TypeOK, Run
<1>3. plan[b] + 1 - battery[b].probe \in Nat /\ plan[b] + 1 - battery[b].probe <= plan[b]
  BY <1>1, <1>2
<1>4. MaxRetries + 2 \in Nat
  BY <1>1
<1> HIDE DEF Inv
<1>5. /\ plan[b] * (MaxRetries + 2) \in Nat
      /\ (plan[b] + 1 - battery[b].probe) * (MaxRetries + 2) \in Nat
      /\ (plan[b] + 1 - battery[b].probe) * (MaxRetries + 2) <= plan[b] * (MaxRetries + 2)
  BY <1>1, <1>3, <1>4, Multiples
<1> QED
  BY <1>1, <1>2, <1>3, <1>5

LEMMA DistanceType ==
    ASSUME Inv, NEW b \in DOMAIN plan
    PROVE  Distance(b) \in 0 .. plan[b] * (MaxRetries + 2) + MaxRetries + 4
<1> DEFINE whole == plan[b] * (MaxRetries + 2)
           rest == (plan[b] + 1 - battery[b].probe) * (MaxRetries + 2)
<1>1. /\ whole \in Nat /\ rest \in 0 .. whole /\ MaxRetries \in Nat
      /\ battery[b].call \in 0 .. MaxRetries + 1
  BY RunningDistance
<1>2. /\ Has(b, "queued") => Distance(b) = whole + MaxRetries + 4
      /\ Has(b, "running") => Distance(b) = rest + (MaxRetries + 1 - battery[b].call) + 2
      /\ Has(b, "reported") => Distance(b) = 1
      /\ ~Has(b, "queued") /\ ~Has(b, "running") /\ ~Has(b, "reported") => Distance(b) = 0
  BY DEF Distance, Has
<1> HIDE DEF whole, rest
<1>3. Distance(b) \in 0 .. whole + MaxRetries + 4
  BY <1>1, <1>2
<1> QED
  BY <1>3 DEF whole

\* A step of a battery brings it nearer to its end and leaves the others alone.
LEMMA WorkNears ==
    ASSUME Inv, NEW b \in Battery, Work(b)
    PROVE  /\ plan' = plan
           /\ b \in DOMAIN plan /\ Distance(b)' < Distance(b)
           /\ \A a \in Battery \ {b} : battery'[a] = battery[a]
<1>1. b \in DOMAIN plan /\ plan' = plan
  BY DEF Inv, Runs, Work, Start, Answered, CallFails, ReportBattery, Complete, Asking, Has
<1> DEFINE K == MaxRetries + 2
           whole == plan[b] * K
           left == plan[b] + 1 - battery[b].probe
           rest == left * K
<1>2. /\ battery \in [Battery -> Run] /\ MaxRetries \in Nat /\ plan[b] \in Nat
      /\ battery[b].call \in 0 .. MaxRetries + 1
      /\ left \in 0 .. plan[b] /\ whole \in Nat /\ rest \in 0 .. whole
      /\ battery[b].probe \in Nat
  <2>1. battery[b].probe \in Nat
    BY RunningDistance, <1>1 DEF Run
  <2> QED
    BY <2>1, <1>1, RunningDistance
<1>3. /\ Has(b, "queued") => Distance(b) = whole + MaxRetries + 4
      /\ Has(b, "running") => Distance(b) = rest + (MaxRetries + 1 - battery[b].call) + 2
      /\ Has(b, "reported") => Distance(b) = 1
  BY DEF Distance, Has
<1>4. /\ battery'[b].status = "running" =>
            Distance(b)' = (plan[b] + 1 - battery'[b].probe) * K
                             + (MaxRetries + 1 - battery'[b].call) + 2
      /\ battery'[b].status = "reported" => Distance(b)' = 1
      /\ battery'[b].status = "done" => Distance(b)' = 0
  BY <1>1 DEF Distance, Has
<1>5. CASE Start(b)
  <2>1. /\ Has(b, "queued") /\ battery'[b].status \in {"running", "done"}
        /\ battery'[b].probe = battery[b].probe /\ battery'[b].call = battery[b].call
        /\ \A a \in Battery \ {b} : battery'[a] = battery[a]
    BY <1>2, <1>5 DEF Start, Run, Has
  <2>2. battery'[b].status = "running" =>
            Distance(b)' = rest + (MaxRetries + 1 - battery[b].call) + 2
    BY <1>4, <2>1
  <2> HIDE DEF whole, rest, left, K
  <2> QED
    BY <1>1, <1>2, <1>3, <1>4, <2>1, <2>2
<1>6. ASSUME NEW answer, Asking(b), Evaluate(b, answer)
      PROVE  /\ Distance(b)' < Distance(b)
             /\ \A a \in Battery \ {b} : battery'[a] = battery[a]
  <2>1. /\ battery[b].status = "running" /\ battery[b].probe <= plan[b]
        /\ battery'[b].status = "running"
        /\ battery'[b].probe = battery[b].probe + 1 /\ battery'[b].call = 0
        /\ \A a \in Battery \ {b} : battery'[a] = battery[a]
    BY <1>2, <1>6 DEF Asking, Evaluate, Run, Has
  <2>2. left - 1 \in Nat /\ plan[b] + 1 - battery'[b].probe = left - 1 /\ K \in Nat
    BY <1>2, <2>1
  <2>3. Distance(b)' = (left - 1) * K + (MaxRetries + 1) + 2
    BY <1>2, <1>4, <2>1, <2>2
  <2>4. rest = (left - 1) * K + K /\ (left - 1) * K \in Nat
    <3> HIDE DEF left, K
    <3>1. (left - 1 + 1) * K = (left - 1) * K + K /\ (left - 1) * K \in Nat
      BY <2>2, Multiples
    <3>2. left - 1 + 1 = left
      BY <1>2
    <3> QED
      BY <3>1, <3>2
  <2>5. Distance(b) = rest + (MaxRetries + 1 - battery[b].call) + 2
    BY <1>3, <2>1 DEF Has
  <2>6. K = MaxRetries + 2
    OBVIOUS
  <2> DEFINE less == (left - 1) * K
  <2>7. /\ rest = less + K /\ less \in Nat /\ Distance(b)' = less + (MaxRetries + 1) + 2
    BY <2>3, <2>4
  <2> HIDE DEF whole, rest, left, K, less
  <2> QED
    BY <1>2, <2>1, <2>5, <2>6, <2>7
<1>7. ASSUME Asking(b), HasAttempts(b), Retry(b)
      PROVE  /\ Distance(b)' < Distance(b)
             /\ \A a \in Battery \ {b} : battery'[a] = battery[a]
  <2>1. /\ battery[b].status = "running" /\ battery'[b].status = "running"
        /\ battery'[b].probe = battery[b].probe
        /\ battery'[b].call = battery[b].call + 1
        /\ \A a \in Battery \ {b} : battery'[a] = battery[a]
    BY <1>2, <1>7 DEF Asking, Retry, Run, Has
  <2>2. /\ Distance(b)' = rest + (MaxRetries + 1 - battery'[b].call) + 2
        /\ Distance(b) = rest + (MaxRetries + 1 - battery[b].call) + 2
    BY <1>3, <1>4, <2>1 DEF Has
  <2> HIDE DEF whole, rest, left, K
  <2> QED
    BY <1>2, <2>1, <2>2
<1>8. CASE ReportBattery(b)
  <2>1. /\ Has(b, "running") /\ battery'[b].status = "reported"
        /\ \A a \in Battery \ {b} : battery'[a] = battery[a]
    BY <1>2, <1>8 DEF ReportBattery, Run
  <2> HIDE DEF whole, rest, left, K
  <2> QED
    BY <1>1, <1>2, <1>3, <1>4, <2>1
<1>9. CASE Complete(b)
  <2>1. /\ Has(b, "reported") /\ battery'[b].status = "done"
        /\ \A a \in Battery \ {b} : battery'[a] = battery[a]
    BY <1>2, <1>9 DEF Complete, Run
  <2> QED
    BY <1>1, <1>3, <1>4, <2>1
<1>10. CASE Answered(b)
  BY <1>1, <1>6, <1>10 DEF Answered
<1>11. CASE CallFails(b)
  BY <1>1, <1>6, <1>7, <1>11 DEF CallFails
<1> QED
  BY <1>5, <1>8, <1>9, <1>10, <1>11 DEF Work

LEMMA OthersWait ==
    ASSUME NEW b \in Battery, plan' = plan, battery'[b] = battery[b]
    PROVE  Distance(b)' = Distance(b)
  BY DEF Distance, Has

\* A set of batteries has a first one.
LEMMA FirstBattery ==
    ASSUME NEW S \in SUBSET Nat, S # {}
    PROVE  \E b \in S : \A a \in S : b <= a
<1> DEFINE Less == {p \in Nat \X Nat : p[1] < p[2]}
<1>1. IsWellFoundedOn(Less, Nat)
  BY NatLessThanWellFounded, Zenon DEF OpToRel
<1>2. PICK b \in S : \A a \in S : <<a, b>> \notin Less
  <2> HIDE DEF Less
  <2> QED
    BY <1>1, WFMin
<1>3. ASSUME NEW a \in S, a < b PROVE FALSE
  <2>1. <<a, b>> \in Less
    BY <1>3
  <2> QED
    BY <1>2, <2>1
<1> QED
  BY <1>3

\* If nothing runs, the first battery in the queue can start.
LEMMA SomeCanWork ==
    ASSUME Inv, Underway # {}
    PROVE  \E b \in Battery : CanWork(b)
<1> DEFINE Queue == {b \in Battery : Has(b, "queued")}
<1>1. CASE Running # {}
  BY <1>1 DEF Running, CanWork
<1>2. CASE Running = {}
  <2>1. Battery \subseteq Nat
    BY BatteryAssumption DEF Battery
  <2>2. Queue # {}
    BY <1>2 DEF Underway, Running, Has, Inv, TypeOK, Run, Status
  <2>3. PICK b \in Queue : \A a \in Queue : b <= a
    BY <2>1, <2>2, FirstBattery
  <2>4. b \in DOMAIN plan /\ plan \in Seq(Nat)
    BY BatteryAssumption DEF Inv, TypeOK, Runs, Has
  <2>5. ASSUME NEW a \in 1 .. b - 1 PROVE ~Has(a, "queued")
    <3>1. a \in DOMAIN plan /\ ~(b <= a)
      BY <2>4
    <3>2. a \in Battery
      BY <3>1, PlanType DEF Inv
    <3> QED
      BY <2>3, <3>1, <3>2
  <2>6. Cardinality(Running) < Workers
    BY <1>2, FS_EmptySet, BatteryAssumption
  <2> QED
    BY <2>5, <2>6 DEF CanWork
<1> QED
  BY <1>1, <1>2

\* Whatever the model answers or fails to answer (divergence/l3_icm.py), a battery
\* ends after a bounded number of calls: every step of its thread brings it nearer
\* to its end, nothing but its submission takes it away from there, it is at most
\* MaxRetries + 2 calls for each probe away, and while a battery is under way the
\* pool is at work or has a thread for the next one.
THEOREM EveryCallNearsTheEnd ==
    Spec => /\ [](\A b \in DOMAIN plan :
                     Distance(b) \in 0 .. plan[b] * (MaxRetries + 2) + MaxRetries + 4)
            /\ [](Underway # {} => \E b \in Battery : CanWork(b))
            /\ [][\A b \in DOMAIN plan :
                     /\ Work(b) => Distance(b)' < Distance(b)
                     /\ Distance(b)' > Distance(b) => \E u \in User : Submit(u, b)]_vars
<1>1. Inv => \A b \in DOMAIN plan :
                Distance(b) \in 0 .. plan[b] * (MaxRetries + 2) + MaxRetries + 4
  BY DistanceType
<1>2. Inv => (Underway # {} => \E b \in Battery : CanWork(b))
  BY SomeCanWork
<1>3. Inv => \A b \in DOMAIN plan : b \in Battery /\ Distance(b) \in Int
  <2> SUFFICES ASSUME Inv, NEW b \in DOMAIN plan PROVE b \in Battery /\ Distance(b) \in Int
    OBVIOUS
  <2>1. b \in Battery /\ plan[b] * (MaxRetries + 2) \in Nat /\ MaxRetries \in Nat
    BY RunningDistance
  <2> DEFINE most == plan[b] * (MaxRetries + 2) + MaxRetries + 4
  <2>2. Distance(b) \in 0 .. most
    BY DistanceType
  <2>3. most \in Int
    BY <2>1
  <2> HIDE DEF most
  <2> QED
    BY <2>1, <2>2, <2>3
<1>4. Inv' => (\A b \in DOMAIN plan : b \in Battery /\ Distance(b) \in Int)'
  BY <1>3, PTL
<1>5. Inv /\ Inv' /\ [Next]_vars =>
        [\A b \in DOMAIN plan :
             /\ Work(b) => Distance(b)' < Distance(b)
             /\ Distance(b)' > Distance(b) => \E u \in User : Submit(u, b)]_vars
  <2> SUFFICES ASSUME Inv, Inv', Next, NEW b \in DOMAIN plan
               PROVE  /\ Work(b) => Distance(b)' < Distance(b)
                      /\ Distance(b)' > Distance(b) => \E u \in User : Submit(u, b)
    OBVIOUS
  <2>1. plan' = plan /\ b \in Battery /\ Distance(b) \in Int /\ Distance(b)' \in Int
    <3>1. plan' = plan
      BY DEF Next, Submit, BeginWait, Schedule, Wait, ListUnfinished, Assign, ReadAttribute,
             AppendOwn, EndWait, KeepUnfinished, Replace, Work, Start, Answered, CallFails,
             ReportBattery, Complete, ResetFlag
    <3> QED
      BY <1>3, <1>4, <3>1
  <2>2. Work(b) => Distance(b)' < Distance(b)
    BY <2>1, WorkNears
  <2>3. ASSUME plan' = plan, battery'[b] = battery[b]
        PROVE  Distance(b)' = Distance(b)
    BY <2>1, <2>3, OthersWait
  <2>4. ASSUME Distance(b)' > Distance(b)
        PROVE  ~(Distance(b)' = Distance(b)) /\ ~(Distance(b)' < Distance(b))
    BY <2>1, <2>4
  <2>5. CASE \E a \in Battery : Work(a)
    <3>1. PICK a \in Battery : Work(a)
      BY <2>5
    <3>2. CASE a = b
      BY <2>2, <2>4, <3>1, <3>2
    <3>3. CASE a # b
      BY <2>1, <2>2, <2>3, <2>4, <3>1, <3>3, WorkNears
    <3> QED
      BY <3>2, <3>3
  <2>6. ASSUME plan' = plan, battery' = battery
        PROVE  Distance(b)' = Distance(b)
    BY <2>3, <2>6
  <2>7. CASE ResetFlag
    BY <2>2, <2>4, <2>6, <2>7 DEF ResetFlag
  <2>8. ASSUME NEW u \in User, NEW a \in Battery, Submit(u, a)
        PROVE  \/ Distance(b)' = Distance(b)
               \/ Submit(u, b)
    <3>1. CASE a = b
      BY <2>8, <3>1
    <3>2. CASE a # b
      <4>1. plan' = plan /\ battery'[b] = battery[b]
        BY <2>1, <2>8, <3>2 DEF Submit, Inv, TypeOK
      <4> QED
        BY <2>3, <4>1
    <3> QED
      BY <3>1, <3>2
  <2>9. ASSUME NEW u \in User, BeginWait(u) \/ Schedule(u) \/ Wait(u)
        PROVE  Distance(b)' = Distance(b)
    <3>1. plan' = plan /\ battery' = battery
      BY <2>9 DEF BeginWait, Schedule, Wait, ListUnfinished, Assign, ReadAttribute,
                  AppendOwn, EndWait, KeepUnfinished, Replace
    <3> QED
      BY <2>6, <3>1
  <2> QED
    BY <2>2, <2>4, <2>5, <2>7, <2>8, <2>9 DEF Next
<1> QED
  BY <1>1, <1>2, <1>5, Invariance, PTL DEF Spec
============================================================================
