--------------------------- MODULE StagedApproval ---------------------------
(***************************************************************************)
(* Staged approval: a rule that conflicts with a plastic commitment of the *)
(* kernel is approved at once, declined, or staged for a cooldown          *)
(* (ReflectiveEndorsement, endorsement/reflective.py); every chat promotes *)
(* the staged rules whose cooldown has expired, calls the provider, and    *)
(* then has a staged rule observed by a shadow request against a copy of   *)
(* the kernel, inline or in the background (TheseusWrapper,                *)
(* core/wrapper.py).  A shadow request that diverges critically rejects    *)
(* the rule.                                                               *)
(*                                                                         *)
(* StagedUpdateManager has no lock, and get_promotable is a listing        *)
(* followed by one deletion per record, so each of these is a step; a      *)
(* deletion that finds the record gone is a KeyError that ends the chat.   *)
(*                                                                         *)
(* rules    the endorsement records of conflicting rules, in the order of  *)
(*          registration; left is the time to cooldown_until               *)
(* staged   the dictionary of the manager, ordered by rule number          *)
(* kernel   whether it is read-only, as the kernel of a sub-agent is, and  *)
(*          which rule is in force for a commitment, 0 for its default     *)
(* chat     the steps of a chat: outside, promoting, serving, or waiting   *)
(*          for its inline shadow request; found: listed and not deleted   *)
(*          yet; taken: deleted and not applied yet                        *)
(* shadow   the rule a shadow request runs against, per thread running it  *)
(* queued   background shadow requests submitted and not begun             *)
(* fate     (history) whether a rule was promoted or rejected              *)
(* critical (history) the rules a shadow request found critical            *)
(***************************************************************************)
EXTENDS Integers, Sequences, FiniteSets

CONSTANTS
    Chat,          \* threads calling chat
    Worker,        \* background threads, used if Background
    Background,    \* config.shadow_background
    Commitment,    \* plastic commitments of the kernel
    Cooldowns,     \* what CooldownCalculator may return
    MaxRules,      \* bound: conflicting rules proposed
    MaxQueued      \* bound: background shadow requests waiting

ASSUME StagedAssumption ==
    /\ Chat \cap Worker = {}
    /\ Background \in BOOLEAN
    /\ Cooldowns \subseteq Nat
    /\ MaxRules \in Nat
    /\ MaxQueued \in Nat

VARIABLES rules, staged, kernel, chat, shadow, queued, fate, critical

vars == <<rules, staged, kernel, chat, shadow, queued, fate, critical>>

RuleId == 1 .. MaxRules
Rule == [commitment : Commitment, decision : {"approved", "staged", "declined"}, left : Nat]
ChatState == [pc    : {"idle", "promoting", "serving", "shadowing"},
              found : SUBSET RuleId,
              taken : SUBSET RuleId]
Resting == [pc |-> "idle", found |-> {}, taken |-> {}]
Runner == Chat \cup Worker

Fields ==
    /\ rules \in Seq(Rule) /\ Len(rules) <= MaxRules
    /\ staged \subseteq DOMAIN rules
    /\ kernel \in [readOnly : BOOLEAN, rule : [Commitment -> {0} \cup DOMAIN rules]]
    /\ chat \in [Chat -> ChatState]
    /\ shadow \in [Runner -> {0} \cup DOMAIN rules]
    /\ queued \in 0 .. MaxQueued
    /\ fate \in [RuleId -> {"none", "promoted", "rejected"}]
    /\ critical \subseteq DOMAIN rules

\* Only a promoting chat has records in hand, and only one that waits for its
\* inline shadow request runs one.
ChatsTidy ==
    \A t \in Chat :
        /\ chat[t].pc # "promoting" => chat[t].found = {} /\ chat[t].taken = {}
        /\ shadow[t] # 0 => chat[t].pc = "shadowing"

TypeOK == Fields /\ ChatsTidy

Init ==
    /\ rules = <<>>
    /\ staged = {}
    /\ \E readOnly \in BOOLEAN :
          kernel = [readOnly |-> readOnly, rule |-> [c \in Commitment |-> 0]]
    /\ chat = [t \in Chat |-> Resting]
    /\ shadow = [r \in Runner |-> 0]
    /\ queued = 0
    /\ fate = [n \in RuleId |-> "none"]
    /\ critical = {}

First(S) == CHOOSE n \in S : \A m \in S : n <= m

Active == {n \in staged : rules[n].left > 0}

\* Mutant: the cooldown never counts as expired.
PromotableNever == {n \in staged : rules[n].left < 0}

Promotable == {n \in staged : rules[n].left = 0}

----------------------------------------------------------------------------
(* The endorsement of a conflicting rule                                   *)

Record(c, d, left) ==
    /\ Len(rules) < MaxRules
    /\ rules' = Append(rules, [commitment |-> c, decision |-> d, left |-> left])
    /\ UNCHANGED <<chat, shadow, queued, fate, critical>>

\* Approving a rule for a read-only kernel raises and leaves no record.
Approve(c) ==
    /\ ~kernel.readOnly
    /\ Record(c, "approved", 0)
    /\ kernel' = [kernel EXCEPT !.rule[c] = Len(rules')]
    /\ UNCHANGED staged

Stage(c, cooldown) ==
    /\ Record(c, "staged", cooldown)
    /\ staged' = staged \cup {Len(rules')}
    /\ UNCHANGED kernel

\* REJECTED, PENDING, and any other answer of the approval channel.
Decline(c) ==
    /\ Record(c, "declined", 0)
    /\ UNCHANGED <<staged, kernel>>

----------------------------------------------------------------------------
(* A chat                                                                  *)

\* get_promotable, the listing.
BeginChat(t) ==
    /\ chat[t].pc = "idle"
    /\ chat' = [chat EXCEPT ![t] = [pc |-> "promoting", found |-> Promotable, taken |-> {}]]
    /\ UNCHANGED <<rules, staged, kernel, shadow, queued, fate, critical>>

\* Mutant: a record that is gone is taken nevertheless.
DeleteTolerant(t) ==
    /\ chat[t].pc = "promoting" /\ chat[t].found # {}
    /\ staged' = staged \ {First(chat[t].found)}
    /\ chat' = [chat EXCEPT ![t].found = @ \ {First(@)},
                            ![t].taken = @ \cup {First(chat[t].found)}]
    /\ UNCHANGED <<rules, kernel, shadow, queued, fate, critical>>

\* get_promotable, the deletion of one record.
Delete(t) ==
    /\ chat[t].pc = "promoting" /\ chat[t].found # {}
    /\ LET n == First(chat[t].found) IN
          \/ /\ n \in staged
             /\ staged' = staged \ {n}
             /\ chat' = [chat EXCEPT ![t].found = @ \ {n}, ![t].taken = @ \cup {n}]
          \/ /\ n \notin staged
             /\ chat' = [chat EXCEPT ![t] = Resting]
             /\ UNCHANGED staged
    /\ UNCHANGED <<rules, kernel, shadow, queued, fate, critical>>

\* Mutant: the loop ends after the first record.
ApplyFirstOnly(t) ==
    /\ chat[t].pc = "promoting" /\ chat[t].found = {} /\ chat[t].taken # {}
    /\ LET n == First(chat[t].taken) IN
          /\ chat' = [chat EXCEPT ![t].taken = {}]
          /\ kernel' = [kernel EXCEPT !.rule[rules[n].commitment] = n]
          /\ fate' = [fate EXCEPT ![n] = "promoted"]
    /\ UNCHANGED <<rules, staged, shadow, queued, critical>>

\* _process_staged_updates, the promotion of one record; what a read-only
\* kernel raises is logged.
Apply(t) ==
    /\ chat[t].pc = "promoting" /\ chat[t].found = {} /\ chat[t].taken # {}
    /\ LET n == First(chat[t].taken) IN
          /\ chat' = [chat EXCEPT ![t].taken = @ \ {n}]
          /\ IF kernel.readOnly
             THEN UNCHANGED <<kernel, fate>>
             ELSE /\ kernel' = [kernel EXCEPT !.rule[rules[n].commitment] = n]
                  /\ fate' = [fate EXCEPT ![n] = "promoted"]
    /\ UNCHANGED <<rules, staged, shadow, queued, critical>>

\* Mutant: the chat goes on to the provider with promotions still in hand.
CallProviderEarly(t) ==
    /\ chat[t].pc = "promoting" /\ chat[t].found = {}
    /\ chat' = [chat EXCEPT ![t].pc = "serving"]
    /\ UNCHANGED <<rules, staged, kernel, shadow, queued, fate, critical>>

CallProvider(t) ==
    /\ chat[t].pc = "promoting" /\ chat[t].found = {} /\ chat[t].taken = {}
    /\ chat' = [chat EXCEPT ![t].pc = "serving"]
    /\ UNCHANGED <<rules, staged, kernel, shadow, queued, fate, critical>>

ProviderFails(t) ==
    /\ chat[t].pc = "serving"
    /\ chat' = [chat EXCEPT ![t] = Resting]
    /\ UNCHANGED <<rules, staged, kernel, shadow, queued, fate, critical>>

----------------------------------------------------------------------------
(* Shadow requests.  The rule they run against is chosen when they begin;  *)
(* no copy of a read-only kernel can be given the rule.                    *)

Observing == IF Active = {} \/ kernel.readOnly THEN {} ELSE {First(Active)}

Observe(r) ==
    shadow' = [shadow EXCEPT ![r] = IF Observing = {} THEN 0 ELSE First(Observing)]

\* A chat is answered; what it does then depends on there being an active
\* staged rule and on the configuration.
AnswerPlainly(t) ==
    /\ chat[t].pc = "serving"
    /\ Active = {}
    /\ chat' = [chat EXCEPT ![t] = Resting]
    /\ UNCHANGED <<rules, staged, kernel, shadow, queued, fate, critical>>

AnswerAndSubmit(t) ==
    /\ chat[t].pc = "serving"
    /\ Background /\ Active # {} /\ queued < MaxQueued
    /\ queued' = queued + 1
    /\ chat' = [chat EXCEPT ![t] = Resting]
    /\ UNCHANGED <<rules, staged, kernel, shadow, fate, critical>>

AnswerAfterShadow(t) ==
    /\ chat[t].pc = "serving"
    /\ ~Background /\ Active # {}
    /\ Observe(t)
    /\ chat' = [chat EXCEPT ![t].pc = IF Observing = {} THEN "idle" ELSE "shadowing"]
    /\ UNCHANGED <<rules, staged, kernel, queued, fate, critical>>

BeginShadow(w) ==
    /\ queued > 0 /\ shadow[w] = 0
    /\ queued' = queued - 1
    /\ Observe(w)
    /\ UNCHANGED <<rules, staged, kernel, chat, fate, critical>>

Over(r) ==
    /\ shadow[r] # 0
    /\ shadow' = [shadow EXCEPT ![r] = 0]
    /\ chat' = IF r \in Chat THEN [chat EXCEPT ![r] = Resting] ELSE chat
    /\ UNCHANGED <<rules, kernel, queued>>

\* The sandbox stayed close enough, or the shadow request failed.
EndShadow(r) ==
    /\ Over(r)
    /\ UNCHANGED <<staged, fate, critical>>

\* Mutant: the finding is reported and the rule stays staged.
CriticalShadowKeeps(r) ==
    /\ Over(r)
    /\ critical' = critical \cup {shadow[r]}
    /\ UNCHANGED <<staged, fate>>

\* reject_staged does nothing if the rule is not staged any more, and what it
\* returns is not looked at.
CriticalShadow(r) ==
    /\ Over(r)
    /\ critical' = critical \cup {shadow[r]}
    /\ staged' = staged \ {shadow[r]}
    /\ fate' = IF shadow[r] \in staged
               THEN [fate EXCEPT ![shadow[r]] = "rejected"] ELSE fate

----------------------------------------------------------------------------
(* The clock                                                               *)

Later(rule) == [rule EXCEPT !.left = IF @ > 0 THEN @ - 1 ELSE 0]

Tick ==
    /\ \E n \in DOMAIN rules : rules[n].left > 0
    /\ rules' = [n \in DOMAIN rules |-> Later(rules[n])]
    /\ UNCHANGED <<staged, kernel, chat, shadow, queued, fate, critical>>

ChatStep(t) ==
    \/ BeginChat(t) \/ Delete(t) \/ Apply(t) \/ CallProvider(t)
    \/ AnswerPlainly(t) \/ AnswerAndSubmit(t) \/ AnswerAfterShadow(t)

ShadowEnds(r) == EndShadow(r) \/ CriticalShadow(r)

Next ==
    \/ \E c \in Commitment : \/ Approve(c) \/ Decline(c)
                             \/ \E d \in Cooldowns : Stage(c, d)
    \/ \E t \in Chat : ChatStep(t) \/ ProviderFails(t)
    \/ \E w \in Worker : BeginShadow(w)
    \/ \E r \in Runner : ShadowEnds(r)
    \/ Tick

Spec == Init /\ [][Next]_vars

\* Chats keep coming, a provider call and a shadow request end, time passes.
Fairness ==
    /\ \A t \in Chat : WF_vars(ChatStep(t))
    /\ \A w \in Worker : WF_vars(BeginShadow(w))
    /\ \A r \in Runner : WF_vars(ShadowEnds(r))
    /\ WF_vars(Tick)

FairSpec == Spec /\ Fairness

----------------------------------------------------------------------------
(* Properties                                                              *)

Life(n) ==
    CASE n \notin DOMAIN rules                     -> "new"
      [] n \in DOMAIN rules /\ rules[n].decision # "staged" -> rules[n].decision
      [] fate[n] # "none"                          -> fate[n]
      [] n \in staged \/ \E t \in Chat : n \in chat[t].taken -> "cooling"
      [] OTHER                                     -> "lost"

\* Whatever chats and shadow requests do to each other, a staged rule comes into
\* force at most once, only after its cooldown, and never once it has been
\* rejected; nothing but an approval or a promotion changes the kernel.
Contract == INSTANCE AbstractApproval WITH
    life    <- [n \in RuleId |-> Life(n)],
    over    <- {n \in DOMAIN rules : rules[n].left = 0},
    of      <- [n \in DOMAIN rules |-> rules[n].commitment],
    inForce <- kernel.rule

KeepsContract == Contract!AbsSpec

\* staged-approval.md:77: a rule whose shadow request diverged critically never
\* is in force afterwards.
CriticalStaysOut == \A c \in Commitment : kernel.rule[c] \notin critical

\* reflective.py:259: a staged rule of a writable kernel is promoted after its
\* cooldown unless it is rejected; none is dropped on the way.
NothingLost == kernel.readOnly \/ \A n \in RuleId : Life(n) # "lost"

\* Every staged rule of a writable kernel is promoted or rejected in the end, if
\* chats keep coming; a read-only kernel loses it instead.
StagedIsDecided ==
    \A n \in RuleId :
        Life(n) = "cooling" ~>
            Life(n) \in {"promoted", "rejected"} \cup (IF kernel.readOnly THEN {"lost"} ELSE {})
============================================================================
