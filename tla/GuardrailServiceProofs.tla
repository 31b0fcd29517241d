----------------------- MODULE GuardrailServiceProofs -----------------------
(***************************************************************************)
(* Theorems about GuardrailService, for any executions of any length.      *)
(***************************************************************************)
EXTENDS GuardrailService, TLAPS

\* What TypeOK says of the execution e of x.
Typed(x, e) ==
    /\ e \in Execution
    /\ e.status = "running" => e.at \in Item(x)
    /\ e.status = "finished" => e.at = Items[x] + 1
    /\ Len(e.out) = IF e.status = "stopped" THEN 0 ELSE e.at - 1

\* An answer that blocks nothing is either right or the answer to a failure, and
\* a response is blocked only once it is in the log.  Only responses are analysed.
AnswerSound(h, w, recorded) ==
    /\ h.step = "analysing" => h.kind = "response"
    /\ h.step = "answered" =>
          /\ h.action = "NONE" /\ h.kind = "request" => h.text # "bad"
          /\ h.action = "NONE" /\ h.kind = "response" /\ h.text # "empty" =>
                h.failed \/ (h.text = "good" /\ w \in recorded)
          /\ h.action = "BLOCKED" /\ h.kind = "response" => w \in recorded

\* An item comes out as PASS only after an answer that blocks nothing, as BLOCKED
\* only after one that does where the node is not to fail, and as an error only if
\* the execution continues on failures.
OutcomeSound(e, h, i) ==
    /\ e.out[i] = "PASS" => h.step = "answered" /\ h.action = "NONE"
    /\ e.out[i] = "BLOCKED" => /\ h.step = "answered" /\ h.action = "BLOCKED"
                               /\ ~e.failOnBlock
    /\ e.out[i] = "error" => e.continueOnFail

\* The inductive invariant.  PassIsJustified is not inductive: the answer that
\* the item will be given has to be sound before the node reads it, and it must
\* not change afterwards.
Inv ==
    /\ TypeOK
    /\ \A w \in Work : AnswerSound(handler[w], w, log)
    /\ \A x \in Exec : \A i \in DOMAIN exec[x].out :
          OutcomeSound(exec[x], handler[<<x, i>>], i)

----------------------------------------------------------------------------
(* Items and the outcomes they get                                         *)

LEMMA WorkIsItems ==
    /\ \A x \in Exec : \A i \in Item(x) : <<x, i>> \in Work
    /\ \A w \in Work : \E x \in Exec : \E i \in Item(x) : w = <<x, i>>
BY DEF Work

LEMMA TypedExecutions ==
    TypeOK <=> /\ up \in BOOLEAN
               /\ exec \in [Exec -> Execution]
               /\ \A x \in Exec : Typed(x, exec[x])
               /\ handler \in [Work -> Handler]
               /\ log \subseteq Work
BY DEF TypeOK, Typed

\* The items that have come out lie before the one the execution is at.
LEMMA OutcomesBehind ==
    ASSUME TypeOK, NEW x \in Exec, NEW i \in DOMAIN exec[x].out
    PROVE  i \in Item(x) /\ i # exec[x].at /\ exec[x].out[i] \in Outcome
<1>1. exec[x] \in Execution /\ Typed(x, exec[x])
  BY TypedExecutions
<1>2. /\ exec[x].out \in Seq(Outcome)
      /\ exec[x].at \in Nat
      /\ exec[x].status \in {"running", "stopped", "finished"}
  BY <1>1 DEF Execution
<1>3. Len(exec[x].out) < exec[x].at /\ i \in 1 .. Len(exec[x].out) /\ i \in Nat
  BY <1>1, <1>2 DEF Typed, Execution
<1>4. Items[x] \in Nat
  BY ItemsAssumption
<1>5. Len(exec[x].out) <= Items[x]
  BY <1>1, <1>2, <1>4 DEF Typed, Item
<1>6. Len(exec[x].out) \in Nat /\ exec[x].out[i] \in Outcome
  BY <1>2, <1>3
<1> QED
  BY <1>2, <1>3, <1>4, <1>5, <1>6 DEF Item

\* A step of the node leaves the server alone; its execution stays typed, and
\* its outcomes sound, if that is so of the new ones.
LEMMA NodeStep ==
    ASSUME Inv, NEW x \in Exec, NEW e,
           exec' = [exec EXCEPT ![x] = e], UNCHANGED <<up, handler, log>>,
           Typed(x, e),
           \A i \in DOMAIN e.out : OutcomeSound(e, handler[<<x, i>>], i)
    PROVE  Inv'
<1>1. e \in Execution
  BY DEF Typed
<1>2. exec \in [Exec -> Execution]
  BY DEF Inv, TypeOK
<1>3. exec' \in [Exec -> Execution] /\ \A y \in Exec : Typed(y, exec'[y])
  BY <1>1, <1>2, TypedExecutions DEF Inv
<1>4. TypeOK'
  BY <1>3, TypedExecutions DEF Inv, TypeOK, Typed
<1>5. \A y \in Exec : \A i \in DOMAIN exec'[y].out :
         OutcomeSound(exec'[y], handler[<<y, i>>], i)
  BY <1>2 DEF Inv
<1> QED
  BY <1>4, <1>5 DEF Inv

\* Pushing an outcome that is sound for the answer to the current item.
LEMMA PushStep ==
    ASSUME Inv, NEW x \in Exec, NEW outcome \in Outcome,
           Running(x), Push(x, outcome), UNCHANGED <<up, handler, log>>,
           outcome = "PASS" => /\ handler[Here(x)].step = "answered"
                               /\ handler[Here(x)].action = "NONE",
           outcome = "BLOCKED" => /\ handler[Here(x)].step = "answered"
                                  /\ handler[Here(x)].action = "BLOCKED"
                                  /\ ~exec[x].failOnBlock,
           outcome = "error" => exec[x].continueOnFail
    PROVE  Inv'
<1> DEFINE e == [exec[x] EXCEPT !.out = Append(@, outcome),
                                !.at = @ + 1,
                                !.asking = FALSE,
                                !.status = IF exec[x].at = Items[x] THEN "finished" ELSE @]
<1>1. exec[x] \in Execution /\ Typed(x, exec[x]) /\ exec \in [Exec -> Execution]
  BY TypedExecutions DEF Inv
<1>2. /\ exec[x].out \in Seq(Outcome)
      /\ exec[x].at \in Nat \ {0}
      /\ exec[x].status = "running"
      /\ exec[x].at \in 1 .. Items[x]
      /\ Len(exec[x].out) = exec[x].at - 1
      /\ Items[x] \in Nat
  BY <1>1, ItemsAssumption DEF Execution, Typed, Running, Item
<1>3. exec' = [exec EXCEPT ![x] = e]
  BY <1>1 DEF Push
<1>4. /\ e.out = Append(exec[x].out, outcome)
      /\ e.at = exec[x].at + 1
      /\ e.status = IF exec[x].at = Items[x] THEN "finished" ELSE "running"
      /\ e.failOnBlock = exec[x].failOnBlock /\ e.continueOnFail = exec[x].continueOnFail
      /\ e \in Execution
  <2>1. /\ Append(exec[x].out, outcome) \in Seq(Outcome)
        /\ exec[x].at + 1 \in Nat \ {0}
        /\ (IF exec[x].at = Items[x] THEN "finished" ELSE exec[x].status)
              \in {"running", "stopped", "finished"}
    BY <1>2
  <2>2. /\ e.out = Append(exec[x].out, outcome)
        /\ e.at = exec[x].at + 1
        /\ e.status = IF exec[x].at = Items[x] THEN "finished" ELSE exec[x].status
        /\ e.failOnBlock = exec[x].failOnBlock /\ e.continueOnFail = exec[x].continueOnFail
    BY <1>1, Zenon DEF Execution
  <2>3. e \in Execution
    BY <1>1, <2>1 DEF Execution
  <2> HIDE DEF e
  <2> QED
    BY <1>2, <2>2, <2>3
<1>5. Len(e.out) = exec[x].at /\ DOMAIN e.out = 1 .. exec[x].at
  <2> HIDE DEF e
  <2> QED
    BY <1>2, <1>4
<1>6. Typed(x, e)
  <2>1. e.status = "running" => e.at \in Item(x)
    BY <1>2, <1>4 DEF Item
  <2>2. e.status = "finished" => e.at = Items[x] + 1
    BY <1>4
  <2>3. e.status # "stopped" /\ Len(e.out) = e.at - 1
    BY <1>2, <1>4, <1>5
  <2> HIDE DEF e
  <2> QED
    BY <1>4, <2>1, <2>2, <2>3 DEF Typed
<1>7. ASSUME NEW i \in DOMAIN e.out
      PROVE  OutcomeSound(e, handler[<<x, i>>], i)
  <2>1. CASE i = exec[x].at
    <3>1. e.out[i] = outcome
      BY <1>2, <1>4, <2>1
    <3> HIDE DEF e
    <3> QED
      BY <1>4, <2>1, <3>1 DEF OutcomeSound, Here
  <2>2. CASE i # exec[x].at
    <3>1. i \in DOMAIN exec[x].out /\ e.out[i] = exec[x].out[i]
      BY <1>2, <1>4, <1>5, <2>2
    <3>2. OutcomeSound(exec[x], handler[<<x, i>>], i)
      BY <3>1 DEF Inv
    <3> HIDE DEF e
    <3> QED
      BY <1>4, <3>1, <3>2 DEF OutcomeSound
  <2> QED
    BY <2>1, <2>2
<1> HIDE DEF e
<1> QED
  BY <1>3, <1>6, <1>7, NodeStep

\* An error replaces the item or stops the execution.
LEMMA CatchStep ==
    ASSUME Inv, NEW x \in Exec, Running(x), Catch(x), UNCHANGED <<up, handler, log>>
    PROVE  Inv'
<1>1. CASE exec[x].continueOnFail
  BY <1>1, PushStep DEF Catch, Outcome
<1>2. CASE ~exec[x].continueOnFail
  <2> DEFINE e == [exec[x] EXCEPT !.status = "stopped", !.asking = FALSE, !.out = <<>>]
  <2>1. exec[x] \in Execution /\ exec \in [Exec -> Execution]
    BY DEF Inv, TypeOK
  <2>2. exec' = [exec EXCEPT ![x] = e]
    BY <1>2, <2>1 DEF Catch
  <2>3. e \in Execution
    <3>1. <<>> \in Seq(Outcome)
      OBVIOUS
    <3> QED
      BY <2>1, <3>1 DEF Execution
  <2>4. e.status = "stopped" /\ e.out = <<>>
    BY <2>1 DEF Execution
  <2> HIDE DEF e
  <2>5. Typed(x, e) /\ DOMAIN e.out = {}
    BY <2>3, <2>4 DEF Typed
  <2> QED
    BY <2>2, <2>5, NodeStep
<1> QED
  BY <1>1, <1>2

\* A step of the server on one item: it had not been answered, and the log grows.
LEMMA ServerStep ==
    ASSUME Inv, NEW w \in Work, NEW h \in Handler,
           handler[w].step # "answered",
           handler' = [handler EXCEPT ![w] = h],
           log \subseteq log', log' \subseteq Work,
           UNCHANGED <<up, exec>>,
           AnswerSound(h, w, log')
    PROVE  Inv'
<1>1. handler \in [Work -> Handler]
  BY DEF Inv, TypeOK
<1>2. TypeOK'
  BY <1>1 DEF Inv, TypeOK
<1>3. \A v \in Work : AnswerSound(handler'[v], v, log')
  BY <1>1 DEF Inv, AnswerSound
<1>4. ASSUME NEW x \in Exec, NEW i \in DOMAIN exec[x].out
      PROVE  OutcomeSound(exec[x], handler'[<<x, i>>], i)
  <2>1. <<x, i>> \in Work
    BY OutcomesBehind, WorkIsItems DEF Inv
  <2>2. OutcomeSound(exec[x], handler[<<x, i>>], i)
    BY DEF Inv
  <2> QED
    BY <1>1, <2>1, <2>2 DEF OutcomeSound
<1> QED
  BY <1>2, <1>3, <1>4 DEF Inv

----------------------------------------------------------------------------
(* The initial states and the steps                                        *)

LEMMA InitInv == Init => Inv
<1> SUFFICES ASSUME Init PROVE Inv
  OBVIOUS
<1>1. NoWork \in Handler
  BY DEF NoWork, Handler, Kind, Text
<1>2. ASSUME NEW x \in Exec
      PROVE  Typed(x, exec[x]) /\ DOMAIN exec[x].out = {}
  <2>1. PICK f \in BOOLEAN, c \in BOOLEAN : exec[x] = NewExecution(f, c)
    BY DEF Init
  <2>2. Items[x] \in Nat \ {0}
    BY ItemsAssumption
  <2>3. NewExecution(f, c) \in Execution
    BY DEF NewExecution, Execution
  <2> QED
    BY <2>1, <2>2, <2>3 DEF Typed, NewExecution, Item
<1>3. exec \in [Exec -> Execution]
  BY <1>2 DEF Init, Typed
<1>4. TypeOK
  BY <1>1, <1>2, <1>3, TypedExecutions DEF Init
<1>5. \A w \in Work : AnswerSound(handler[w], w, log)
  BY DEF Init, NoWork, AnswerSound
<1> QED
  BY <1>2, <1>4, <1>5 DEF Inv

LEMMA CheckStep ==
    ASSUME Inv, NEW x \in Exec, NEW kind \in Kind, NEW text \in Text, Check(x, kind, text)
    PROVE  Inv'
<1> DEFINE e == [exec[x] EXCEPT !.asking = TRUE]
<1> DEFINE h == [NoWork EXCEPT !.step = "received", !.kind = kind, !.text = text]
<1>1. /\ exec[x] \in Execution
      /\ exec \in [Exec -> Execution]
      /\ handler \in [Work -> Handler]
      /\ Typed(x, exec[x])
  BY TypedExecutions DEF Inv
<1>2. Here(x) \in Work
  BY <1>1, WorkIsItems DEF Check, Running, Typed, Here
<1>3. exec' = [exec EXCEPT ![x] = e] /\ handler' = [handler EXCEPT ![Here(x)] = h]
  BY <1>1 DEF Check
<1>4. h \in Handler /\ h.step = "received"
  BY DEF NoWork, Handler, Kind, Text
<1>5. /\ e \in Execution
      /\ e.out = exec[x].out /\ e.status = exec[x].status
      /\ e.at = exec[x].at /\ e.failOnBlock = exec[x].failOnBlock
      /\ e.continueOnFail = exec[x].continueOnFail
  BY <1>1 DEF Execution
<1> HIDE DEF e, h
<1>6. Typed(x, e)
  BY <1>1, <1>5 DEF Typed
<1>7. exec' \in [Exec -> Execution] /\ \A y \in Exec : Typed(y, exec'[y])
  BY <1>1, <1>3, <1>5, <1>6, TypedExecutions DEF Inv
<1>8. handler' \in [Work -> Handler] /\ up' \in BOOLEAN /\ log' \subseteq Work
  BY <1>1, <1>3, <1>4 DEF Inv, TypeOK, Check
<1>9. TypeOK'
  BY <1>7, <1>8 DEF TypeOK, Typed
<1>10. \A w \in Work : AnswerSound(handler'[w], w, log')
  BY <1>1, <1>2, <1>3, <1>4 DEF Inv, AnswerSound, Check
<1>11. ASSUME NEW y \in Exec, NEW i \in DOMAIN exec'[y].out
       PROVE  OutcomeSound(exec'[y], handler'[<<y, i>>], i)
  <2>1. /\ exec'[y].out = exec[y].out
        /\ exec'[y].failOnBlock = exec[y].failOnBlock
        /\ exec'[y].continueOnFail = exec[y].continueOnFail
    BY <1>1, <1>3, <1>5
  <2>2. <<y, i>> \in Work /\ <<y, i>> # Here(x)
    BY <2>1, OutcomesBehind, WorkIsItems DEF Inv, Here
  <2>3. handler'[<<y, i>>] = handler[<<y, i>>]
    BY <1>1, <1>2, <1>3, <2>2
  <2>4. OutcomeSound(exec[y], handler[<<y, i>>], i)
    BY <2>1 DEF Inv
  <2> QED
    BY <2>1, <2>3, <2>4 DEF OutcomeSound
<1> QED
  BY <1>9, <1>10, <1>11 DEF Inv

LEMMA ReceiveStep ==
    ASSUME Inv, NEW x \in Exec, ReceiveAnswer(x)
    PROVE  Inv'
<1> DEFINE action == handler[Here(x)].action
<1>1. CASE action = "BLOCKED" /\ exec[x].failOnBlock
  BY <1>1, CatchStep DEF ReceiveAnswer, ActOn
<1>2. CASE action = "BLOCKED" /\ ~exec[x].failOnBlock
  BY <1>2, PushStep DEF ReceiveAnswer, ActOn, Outcome
<1>3. CASE action # "BLOCKED"
  <2>1. Here(x) \in Work
    BY TypedExecutions, WorkIsItems DEF Inv, ReceiveAnswer, Running, Typed, Here
  <2>2. action = "NONE"
    BY <1>3, <2>1 DEF Inv, TypeOK, Handler
  <2> QED
    BY <1>3, <2>2, PushStep DEF ReceiveAnswer, ActOn, Outcome
<1> QED
  BY <1>1, <1>2, <1>3

LEMMA HandleStep ==
    ASSUME Inv, NEW w \in Work, Handle(w)
    PROVE  Inv'
<1>1. handler[w] \in Handler /\ handler \in [Work -> Handler] /\ log \subseteq Work
  BY DEF Inv, TypeOK
<1> DEFINE answer(action, failed) ==
             [handler[w] EXCEPT !.step = "answered", !.action = action, !.failed = failed]
<1>2. ASSUME NEW action \in {"NONE", "BLOCKED"}, NEW failed \in BOOLEAN, Answer(w, action, failed)
      PROVE  /\ handler' = [handler EXCEPT ![w] = answer(action, failed)]
             /\ answer(action, failed) \in Handler
             /\ answer(action, failed).step = "answered"
             /\ answer(action, failed).action = action
             /\ answer(action, failed).failed = failed
             /\ answer(action, failed).kind = handler[w].kind
             /\ answer(action, failed).text = handler[w].text
  BY <1>1, <1>2 DEF Answer, Handler
<1> HIDE DEF answer
<1>3. ASSUME PreCall(w)
      PROVE  Inv'
  <2>1. PICK action \in {"NONE", "BLOCKED"} :
            Answer(w, action, FALSE) /\ (action = "NONE" => handler[w].text # "bad")
    BY <1>3 DEF PreCall, Valid
  <2>2. AnswerSound(answer(action, FALSE), w, log')
    BY <1>2, <1>3, <2>1 DEF AnswerSound, PreCall
  <2> QED
    BY <1>1, <1>2, <1>3, <2>1, <2>2, ServerStep DEF PreCall
<1>4. ASSUME CountInteractions(w)
      PROVE  Inv'
  <2>1. CASE \E failed \in BOOLEAN :
               Answer(w, "NONE", failed) /\ (handler[w].text # "empty" => failed)
    <3>1. PICK failed \in BOOLEAN :
             Answer(w, "NONE", failed) /\ (handler[w].text # "empty" => failed)
      BY <2>1
    <3>2. AnswerSound(answer("NONE", failed), w, log')
      BY <1>2, <1>4, <3>1 DEF AnswerSound, CountInteractions
    <3> QED
      BY <1>1, <1>2, <1>4, <3>1, <3>2, ServerStep DEF CountInteractions
  <2>2. CASE handler' = [handler EXCEPT ![w].step = "analysing"]
    <3> DEFINE h == [handler[w] EXCEPT !.step = "analysing"]
    <3>1. h \in Handler /\ handler' = [handler EXCEPT ![w] = h] /\ AnswerSound(h, w, log')
      BY <1>1, <1>4, <2>2 DEF Handler, AnswerSound, CountInteractions
    <3> HIDE DEF h
    <3> QED
      BY <1>1, <1>4, <3>1, ServerStep DEF CountInteractions
  <2> QED
    BY <1>4, <2>1, <2>2 DEF CountInteractions
<1>5. ASSUME PostCall(w)
      PROVE  Inv'
  <2>1. PICK analysed \in BOOLEAN, recorded \in BOOLEAN : RecordAndJudge(w, analysed, recorded)
    BY <1>5 DEF PostCall
  <2> DEFINE action == IF recorded /\ analysed /\ handler[w].text = "bad"
                       THEN "BLOCKED" ELSE "NONE"
  <2> DEFINE failed == ~(analysed /\ recorded)
  <2>2. /\ Answer(w, action, failed)
        /\ action \in {"NONE", "BLOCKED"} /\ failed \in BOOLEAN
    BY <2>1 DEF RecordAndJudge
  <2>3. log \subseteq log' /\ log' \subseteq Work /\ (recorded => w \in log')
    BY <1>1, <2>1 DEF RecordAndJudge
  <2>4. handler[w].text \in {"good", "bad", "empty"}
    BY <1>1 DEF Handler, Text
  <2>5. /\ handler[w].text = "bad" /\ action = "NONE" => failed
        /\ action = "BLOCKED" => recorded
        /\ ~failed => recorded
    OBVIOUS
  <2>6. handler[w].step = "analysing" /\ UNCHANGED <<up, exec>>
    BY <1>5 DEF PostCall
  <2> HIDE DEF action, failed
  <2>7. AnswerSound(answer(action, failed), w, log')
    <3>1. /\ answer(action, failed).action = action
          /\ answer(action, failed).failed = failed
          /\ answer(action, failed).kind = handler[w].kind
          /\ answer(action, failed).text = handler[w].text
      BY <1>2, <2>2
    <3>2. handler[w].kind = "response"
      BY <2>6 DEF Inv, AnswerSound
    <3> QED
      BY <2>3, <2>4, <2>5, <3>1, <3>2 DEF AnswerSound
  <2> QED
    BY <1>2, <2>2, <2>3, <2>6, <2>7, ServerStep
<1> QED
  BY <1>3, <1>4, <1>5 DEF Handle

LEMMA CrashStep ==
    ASSUME Inv, Crash
    PROVE  Inv'
<1>1. /\ handler \in [Work -> Handler] /\ exec' = exec /\ up' \in BOOLEAN
      /\ log \subseteq log' /\ log' \subseteq Work
  BY DEF Inv, TypeOK, Crash
<1>2. ASSUME NEW w \in Work
      PROVE  /\ handler'[w] \in Handler
             /\ handler[w].step = "answered" => handler'[w] = handler[w]
             /\ AnswerSound(handler'[w], w, log')
  <2>1. handler[w] \in Handler /\ AnswerSound(handler[w], w, log)
    BY DEF Inv, TypeOK
  <2>2. CASE handler[w].step \in {"received", "analysing"}
    <3>1. handler'[w] = [handler[w] EXCEPT !.step = "lost"]
      BY <2>2 DEF Crash
    <3> QED
      BY <2>1, <2>2, <3>1 DEF Handler, AnswerSound
  <2>3. CASE handler[w].step \notin {"received", "analysing"}
    <3>1. handler'[w] = handler[w]
      BY <2>3 DEF Crash
    <3> QED
      BY <1>1, <2>1, <3>1 DEF AnswerSound
  <2> QED
    BY <2>2, <2>3
<1>3. handler' \in [Work -> Handler]
  BY <1>2 DEF Crash
<1>4. TypeOK'
  BY <1>1, <1>3 DEF Inv, TypeOK
<1>5. ASSUME NEW x \in Exec, NEW i \in DOMAIN exec[x].out
      PROVE  OutcomeSound(exec[x], handler'[<<x, i>>], i)
  <2>1. <<x, i>> \in Work
    BY OutcomesBehind, WorkIsItems DEF Inv
  <2>2. OutcomeSound(exec[x], handler[<<x, i>>], i)
    BY DEF Inv
  <2> QED
    BY <1>2, <2>1, <2>2 DEF OutcomeSound
<1> QED
  BY <1>1, <1>2, <1>4, <1>5 DEF Inv

LEMMA NextInv == Inv /\ [Next]_vars => Inv'
<1> SUFFICES ASSUME Inv, [Next]_vars
             PROVE  Inv'
  OBVIOUS
<1>1. ASSUME NEW x \in Exec, RequestFails(x)
      PROVE  Inv'
  BY <1>1, CatchStep DEF RequestFails
<1>2. ASSUME NEW x \in Exec, Node(x)
      PROVE  Inv'
  BY <1>1, <1>2, CheckStep, ReceiveStep DEF Node
<1>3. ASSUME NEW w \in Work, Handle(w)
      PROVE  Inv'
  BY <1>3, HandleStep
<1>4. CASE Crash
  BY <1>4, CrashStep
<1>5. CASE Restart
  BY <1>5 DEF Restart, Inv, TypeOK
<1>6. CASE UNCHANGED vars
  BY <1>6 DEF vars, Inv, TypeOK
<1> QED
  BY <1>2, <1>3, <1>4, <1>5, <1>6 DEF Next

LEMMA Invariance == Spec => []Inv
BY InitInv, NextInv, PTL DEF Spec

----------------------------------------------------------------------------
(* Theorems                                                                *)

\* Type correctness: no execution is past its last item but a finished one, and
\* what has come out are the items before the current one.
THEOREM TypeCorrect == Spec => []TypeOK
<1>1. Inv => TypeOK
  BY DEF Inv
<1> QED
  BY <1>1, Invariance, PTL

\* An item comes out as PASS only with a justifying answer, or one to a failure.
THEOREM PassesAreJustified == Spec => []PassIsJustified
<1>1. Inv => PassIsJustified
  <2> SUFFICES ASSUME Inv, NEW x \in Exec, NEW i \in DOMAIN exec[x].out,
                      exec[x].out[i] = "PASS"
               PROVE  LET h == handler[<<x, i>>]
                      IN  /\ h.step = "answered"
                          /\ h.kind = "request" => h.text # "bad"
                          /\ h.kind = "response" /\ h.text # "empty" =>
                                h.failed \/ (h.text = "good" /\ <<x, i>> \in log)
    BY DEF PassIsJustified
  <2>1. <<x, i>> \in Work
    BY OutcomesBehind, WorkIsItems DEF Inv
  <2>2. AnswerSound(handler[<<x, i>>], <<x, i>>, log) /\ OutcomeSound(exec[x], handler[<<x, i>>], i)
    BY <2>1 DEF Inv
  <2> QED
    BY <2>2 DEF AnswerSound, OutcomeSound
<1> QED
  BY <1>1, Invariance, PTL

\* An item that was blocked comes out as an error where the execution continues on
\* failures, marked as blocked where the node is not to fail, and not at all
\* otherwise; only such an item is so marked, and a blocked response is in the log.
THEOREM BlockedStaysHere == Spec => []BlockedGoesNoFurther
<1>1. ASSUME Inv PROVE BlockedGoesNoFurther
  <2>1. ASSUME NEW x \in Exec, NEW i \in Item(x),
               handler[<<x, i>>].step = "answered", handler[<<x, i>>].action = "BLOCKED",
               handler[<<x, i>>].kind = "response"
        PROVE  <<x, i>> \in log
    BY <1>1, <2>1, WorkIsItems DEF Inv, AnswerSound
  <2>2. ASSUME NEW x \in Exec, NEW i \in DOMAIN exec[x].out
        PROVE  /\ exec[x].out[i] \in {"PASS", "BLOCKED", "error"}
               /\ OutcomeSound(exec[x], handler[<<x, i>>], i)
    BY <1>1, OutcomesBehind DEF Inv, Outcome
  <2> QED
    BY <2>1, <2>2 DEF BlockedGoesNoFurther, OutcomeSound
<1> QED
  BY <1>1, Invariance, PTL
============================================================================
