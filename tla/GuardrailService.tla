------------------------- MODULE GuardrailService --------------------------
(***************************************************************************)
(* The guardrail as a service: executions of the n8n node (execute in      *)
(* CtToolkit.node.ts) send the items of a workflow one by one to the HTTP  *)
(* server (check_guardrail in server.py) and act upon its answers.  The    *)
(* server checks a request against the kernel and fails closed; a response *)
(* it analyses, records and then judges, and there it fails open.  A       *)
(* handler outlives a client that gave up, but not the server.             *)
(*                                                                         *)
(* up           the server runs                                            *)
(* exec[x]      an execution: the settings of the node, whether it runs,   *)
(*              stopped or finished, the item it is at, whether it waits   *)
(*              for an answer, and what it gives to the next node          *)
(* handler[x,i] the server's work on item i of x: what it was sent, how far*)
(*              it is, and its answer; failed says that it let the text    *)
(*              pass because something went wrong (history)                *)
(* log          the interactions in the provenance log (a failed record    *)
(*              leaves none: what becomes of its row is in ProvenanceLog)  *)
(***************************************************************************)
EXTENDS Naturals, Sequences

CONSTANTS
    Exec,     \* executions of the node
    Items     \* how many items each has: an execution without items does nothing

ASSUME ItemsAssumption == Items \in [Exec -> Nat \ {0}]

VARIABLES up, exec, handler, log

vars == <<up, exec, handler, log>>

Item(x) == 1 .. Items[x]
Work == UNION {{<<x, i>> : i \in Item(x)} : x \in Exec}
Kind == {"request", "response"}
\* What the text deserves: nothing, a rejection, or it is empty.
Text == {"good", "bad", "empty"}
Outcome == {"PASS", "BLOCKED", "error"}

Handler == [step : {"none", "received", "analysing", "answered", "lost"},
            kind : Kind, text : Text, action : {"NONE", "BLOCKED"}, failed : BOOLEAN]
Execution == [failOnBlock : BOOLEAN, continueOnFail : BOOLEAN,
              status : {"running", "stopped", "finished"},
              at : Nat \ {0}, asking : BOOLEAN, out : Seq(Outcome)]

TypeOK ==
    /\ up \in BOOLEAN
    /\ exec \in [Exec -> Execution]
    /\ \A x \in Exec :
          /\ exec[x].status = "running" => exec[x].at \in Item(x)
          /\ exec[x].status = "finished" => exec[x].at = Items[x] + 1
          /\ Len(exec[x].out) = IF exec[x].status = "stopped" THEN 0 ELSE exec[x].at - 1
    /\ handler \in [Work -> Handler]
    /\ log \subseteq Work

NoWork == [step |-> "none", kind |-> "request", text |-> "empty",
           action |-> "NONE", failed |-> FALSE]

NewExecution(fails, continues) ==
    [failOnBlock |-> fails, continueOnFail |-> continues, status |-> "running",
     at |-> 1, asking |-> FALSE, out |-> <<>>]

Init ==
    /\ up = TRUE
    /\ exec \in [Exec -> {NewExecution(f, c) : f, c \in BOOLEAN}]
    /\ handler = [w \in Work |-> NoWork]
    /\ log = {}

----------------------------------------------------------------------------
(* The node                                                                *)

Running(x) == exec[x].status = "running"
Here(x) == <<x, exec[x].at>>

\* The item comes out, or what is left of it, and the next one has its turn.
Push(x, outcome) ==
    exec' = [exec EXCEPT ![x].out = Append(@, outcome),
                         ![x].at = @ + 1,
                         ![x].asking = FALSE,
                         ![x].status = IF exec[x].at = Items[x] THEN "finished" ELSE @]

\* Mutant: the handler of errors pushes the item and leaves the loop's index.
CatchAndStay(x) ==
    exec' = [exec EXCEPT ![x].out = Append(@, "error"), ![x].asking = FALSE]

\* Any error, of the node's own too: with continueOnFail the item is replaced
\* by the error, otherwise the execution stops and gives nothing.
Catch(x) ==
    IF exec[x].continueOnFail
      THEN Push(x, "error")
      ELSE exec' = [exec EXCEPT ![x].status = "stopped",
                                ![x].asking = FALSE,
                                ![x].out = <<>>]

Check(x, kind, text) ==
    /\ up
    /\ Running(x) /\ ~exec[x].asking
    /\ exec' = [exec EXCEPT ![x].asking = TRUE]
    /\ handler' = [handler EXCEPT ![Here(x)] =
                     [NoWork EXCEPT !.step = "received", !.kind = kind, !.text = text]]
    /\ UNCHANGED <<up, log>>

\* The request cannot be made, is refused, breaks off or times out.
RequestFails(x) ==
    /\ Running(x)
    /\ Catch(x)
    /\ UNCHANGED <<up, handler, log>>

\* Mutant: a blocked item comes out with its status whatever failOnBlock says.
ActOnAlways(x, action) ==
    Push(x, IF action = "BLOCKED" THEN "BLOCKED" ELSE "PASS")

ActOn(x, action) ==
    IF action = "BLOCKED" /\ exec[x].failOnBlock
      THEN Catch(x)
      ELSE Push(x, IF action = "BLOCKED" THEN "BLOCKED" ELSE "PASS")

ReceiveAnswer(x) ==
    /\ Running(x) /\ exec[x].asking
    /\ handler[Here(x)].step = "answered"
    /\ ActOn(x, handler[Here(x)].action)
    /\ UNCHANGED <<up, handler, log>>

----------------------------------------------------------------------------
(* The server                                                              *)

Answer(w, action, failed) ==
    handler' = [handler EXCEPT ![w].step = "answered",
                               ![w].action = action,
                               ![w].failed = failed]

\* Mutant: an error of the validation lets the request pass.
Validates(text, raises) == text # "bad" \/ raises

\* validate_user_rule rejects a bad text; it may raise for another reason too.
Valid(text, raises) == text # "bad" /\ ~raises

\* _handle_pre_call: whatever the validation raises blocks.
PreCall(w) ==
    /\ handler[w].step = "received" /\ handler[w].kind = "request"
    /\ \/ handler[w].text = "empty" /\ Answer(w, "NONE", FALSE)
       \/ /\ handler[w].text # "empty"
          /\ \E raises \in BOOLEAN :
                Answer(w, IF Valid(handler[w].text, raises) THEN "NONE" ELSE "BLOCKED", FALSE)
    /\ UNCHANGED <<up, exec, log>>

\* _handle_post_call up to the analysis; nothing to analyse, or no count of the
\* earlier interactions, and nothing is blocked.
CountInteractions(w) ==
    /\ handler[w].step = "received" /\ handler[w].kind = "response"
    /\ \/ handler[w].text = "empty" /\ Answer(w, "NONE", FALSE)
       \/ handler[w].text # "empty" /\ Answer(w, "NONE", TRUE)
       \/ /\ handler[w].text # "empty"
          /\ handler' = [handler EXCEPT ![w].step = "analysing"]
    /\ UNCHANGED <<up, exec, log>>

\* From the end of the analysis to the answer nothing else runs in the server.
\* An analysis that fails counts as one that found nothing, and is recorded; a
\* record that fails lets the response pass, whatever the analysis found.
RecordAndJudge(w, analysed, recorded) ==
    /\ log' = IF recorded THEN log \cup {w} ELSE log
    /\ Answer(w, IF recorded /\ analysed /\ handler[w].text = "bad" THEN "BLOCKED" ELSE "NONE",
              ~(analysed /\ recorded))

PostCall(w) ==
    /\ handler[w].step = "analysing"
    /\ \E analysed, recorded \in BOOLEAN : RecordAndJudge(w, analysed, recorded)
    /\ UNCHANGED <<up, exec>>

\* The crash may come after the record of a handler and before its answer.
Crash ==
    /\ up
    /\ up' = FALSE
    /\ handler' = [w \in Work |->
                     IF handler[w].step \in {"received", "analysing"}
                     THEN [handler[w] EXCEPT !.step = "lost"] ELSE handler[w]]
    /\ \/ log' = log
       \/ \E w \in Work : handler[w].step = "analysing" /\ log' = log \cup {w}
    /\ UNCHANGED exec

Restart ==
    /\ ~up
    /\ up' = TRUE
    /\ UNCHANGED <<exec, handler, log>>

Node(x) == \/ \E kind \in Kind, text \in Text : Check(x, kind, text)
           \/ ReceiveAnswer(x)
           \/ RequestFails(x)
Handle(w) == PreCall(w) \/ CountInteractions(w) \/ PostCall(w)

Next ==
    \/ \E x \in Exec : Node(x)
    \/ \E w \in Work : Handle(w)
    \/ Crash \/ Restart

Spec == Init /\ [][Next]_vars

----------------------------------------------------------------------------
(* Properties                                                              *)

\* What an item that comes out as PASS stands for: the server's answer for this
\* very item; a bad request never, and a bad response, or one that is not in the
\* log, only if something failed in the server while it worked on it.
PassIsJustified ==
    \A x \in Exec : \A i \in DOMAIN exec[x].out :
        exec[x].out[i] = "PASS" =>
            LET h == handler[<<x, i>>]
            IN  /\ h.step = "answered"
                /\ h.kind = "request" => h.text # "bad"
                /\ h.kind = "response" /\ h.text # "empty" =>
                      h.failed \/ (h.text = "good" /\ <<x, i>> \in log)

\* What becomes of an item that the server has blocked (a bad text that it lets
\* pass after a failure is in PassIsJustified): it comes out as an error, with
\* continueOnFail, or marked as blocked, without failOnBlock; with failOnBlock alone
\* it does not come out, nor does any item after it.  Nothing is marked as blocked
\* that was not, and a response is blocked only once it is in the log.
BlockedGoesNoFurther ==
    \A x \in Exec : \A i \in Item(x) :
        LET h == handler[<<x, i>>]
            blocked == h.step = "answered" /\ h.action = "BLOCKED"
            out == exec[x].out
        IN  /\ blocked /\ h.kind = "response" => <<x, i>> \in log
            /\ i \in DOMAIN out /\ blocked =>
                  \/ out[i] = "error" /\ exec[x].continueOnFail
                  \/ out[i] = "BLOCKED" /\ ~exec[x].failOnBlock
            /\ i \in DOMAIN out /\ out[i] = "BLOCKED" => blocked

\* CtToolkit.node.ts:64: an execution with failOnBlock stops when an item of it is
\* blocked, whatever it does about failures.
StopsOnBlock ==
    [][\A x \in Exec :
          ReceiveAnswer(x) /\ handler[Here(x)].action = "BLOCKED" /\ exec[x].failOnBlock
             => exec'[x].status = "stopped"]_vars
============================================================================
