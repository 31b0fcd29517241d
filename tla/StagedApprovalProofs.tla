------------------------ MODULE StagedApprovalProofs ------------------------
(***************************************************************************)
(* Theorems about StagedApproval, for any chats, background threads,       *)
(* commitments, cooldowns and bounds: what is true of the rules whatever   *)
(* chats and shadow requests do to each other, and what is true besides    *)
(* when chats come one at a time and shadow requests run inline.           *)
(***************************************************************************)
EXTENDS StagedApproval, FiniteSetTheorems, TLAPS

IsStaged(n) == n \in DOMAIN rules /\ rules[n].decision = "staged"

\* A rule that is cooling is staged or taken, and nothing has been decided on it.
Open(n) == IsStaged(n) /\ fate[n] = "none"

\* A listed record is one of a staged rule whose cooldown is over, as is a deleted
\* one, which is in the hands of one chat and no longer in the dictionary.
RecordsExpired ==
    \A t \in Chat :
        /\ \A n \in chat[t].found : IsStaged(n) /\ rules[n].left = 0
        /\ \A n \in chat[t].taken : /\ Open(n) /\ rules[n].left = 0
                                    /\ n \notin staged
                                    /\ \A u \in Chat : n \in chat[u].taken => u = t

StagedOpen ==
    /\ \A n \in staged : Open(n)
    /\ \A n \in RuleId : fate[n] # "none" => IsStaged(n)
    /\ \A r \in Runner : shadow[r] # 0 => IsStaged(shadow[r])

\* The rule in force has been approved, or promoted.
InForceJustified ==
    \A c \in Commitment :
        LET n == kernel.rule[c] IN
        n = 0 \/ rules[n].decision = "approved" \/ fate[n] = "promoted"

Inv == Fields /\ ChatsTidy /\ RecordsExpired /\ StagedOpen /\ InForceJustified

\* One chat at a time, whose shadow requests run inline.
OneChatInline == ~Background /\ \A t, u \in Chat : t = u

\* Then no record a chat or a shadow request relies on is taken away from it, a
\* critical finding always rejects, and every staged rule is accounted for.
Undisturbed ==
    /\ queued = 0 /\ \A w \in Worker : shadow[w] = 0
    /\ \A t \in Chat : chat[t].found \subseteq staged /\ (shadow[t] # 0 => shadow[t] \in staged)
    /\ \A n \in critical : fate[n] = "rejected"
    /\ kernel.readOnly \/ \A n \in DOMAIN rules :
          Open(n) => n \in staged \/ \E t \in Chat : n \in chat[t].taken

SoloInv == Inv /\ Undisturbed

----------------------------------------------------------------------------
(* What the steps do to the data                                           *)

\* The first of some rule numbers (the iteration over a dictionary) is one of them.
LEMMA FirstIsIn ==
    ASSUME NEW S \in SUBSET RuleId, S # {}
    PROVE  First(S) \in S
<1> DEFINE Below == {1 .. n : n \in S}
           Smaller == StrictSubsetOrdering(RuleId)
<1>0. MaxRules \in Nat /\ RuleId = 1 .. MaxRules
  BY StagedAssumption DEF RuleId
<1>1. IsWellFoundedOn(Smaller, FiniteSubsetsOf(RuleId))
  BY FS_StrictSubsetOrderingWellFounded
<1>2. Below \subseteq FiniteSubsetsOf(RuleId) /\ Below # {}
  <2>1. \A n \in S : n \in Int /\ 1 .. n \subseteq RuleId
    BY <1>0
  <2>2. \A n \in S : IsFiniteSet(1 .. n)
    BY <2>1, FS_Interval
  <2> QED
    BY <2>1, <2>2 DEF FiniteSubsetsOf
<1>3. PICK T \in Below : \A U \in Below : <<U, T>> \notin Smaller
  <2> HIDE DEF Below, Smaller
  <2> QED
    BY <1>1, <1>2, WFMin
<1>4. PICK n \in S : T = 1 .. n
  OBVIOUS
<1>5. ASSUME NEW m \in S, ~(n <= m) PROVE FALSE
  <2>1. /\ 1 .. m \subseteq 1 .. n /\ 1 .. n \subseteq RuleId
        /\ n \in 1 .. n /\ n \notin 1 .. m
    BY <1>0, <1>5
  <2>2. <<1 .. m, 1 .. n>> \in Smaller
    BY <2>1 DEF StrictSubsetOrdering
  <2>3. 1 .. m \in Below
    OBVIOUS
  <2> QED
    BY <1>3, <1>4, <2>2, <2>3
<1> QED
  BY <1>5 DEF First

\* Registration appends a record and leaves the others as they are.
LEMMA RecordAppends ==
    ASSUME Fields, NEW c \in Commitment,
           NEW d \in {"approved", "staged", "declined"}, NEW left \in Nat,
           Record(c, d, left)
    PROVE  /\ Len(rules') = Len(rules) + 1
           /\ Len(rules') \in RuleId /\ Len(rules') \notin DOMAIN rules
           /\ rules' \in Seq(Rule) /\ Len(rules') <= MaxRules
           /\ DOMAIN rules' = DOMAIN rules \cup {Len(rules')}
           /\ \A n \in DOMAIN rules : rules'[n] = rules[n]
           /\ rules'[Len(rules')] = [commitment |-> c, decision |-> d, left |-> left]
<1> DEFINE new == [commitment |-> c, decision |-> d, left |-> left]
<1>1. new \in Rule
  BY DEF Rule
<1>2. rules \in Seq(Rule) /\ Len(rules) \in Nat /\ DOMAIN rules = 1 .. Len(rules)
  BY DEF Fields
<1>3. rules' = Append(rules, new) /\ Len(rules) < MaxRules
  BY DEF Record
<1> HIDE DEF new
<1>4. /\ rules' \in Seq(Rule) /\ Len(rules') = Len(rules) + 1
      /\ \A n \in 1 .. Len(rules) : rules'[n] = rules[n]
      /\ rules'[Len(rules) + 1] = new
  BY <1>1, <1>2, <1>3
<1>5. DOMAIN rules' = 1 .. Len(rules')
  BY <1>4
<1> QED
  BY <1>2, <1>3, <1>4, <1>5, StagedAssumption DEF RuleId, new

\* Time passes for every record, and what is over stays over.
LEMMA TickCools ==
    ASSUME Fields, Tick
    PROVE  /\ rules' \in Seq(Rule) /\ Len(rules') = Len(rules)
           /\ DOMAIN rules' = DOMAIN rules
           /\ \A n \in DOMAIN rules :
                 /\ rules'[n].commitment = rules[n].commitment
                 /\ rules'[n].decision = rules[n].decision
                 /\ rules[n].left = 0 => rules'[n].left = 0
<1>1. rules \in Seq(Rule) /\ Len(rules) \in Nat /\ DOMAIN rules = 1 .. Len(rules)
  BY DEF Fields
<1>2. \A n \in DOMAIN rules : rules[n] \in Rule
  BY <1>1
<1>3. rules' = [n \in 1 .. Len(rules) |-> Later(rules[n])]
  BY <1>1 DEF Tick
<1>4. \A n \in DOMAIN rules : /\ Later(rules[n]) \in Rule
                              /\ Later(rules[n]).commitment = rules[n].commitment
                              /\ Later(rules[n]).decision = rules[n].decision
                              /\ rules[n].left = 0 => Later(rules[n]).left = 0
  BY <1>2 DEF Rule, Later
<1>5. rules' \in Seq(Rule) /\ Len(rules') = Len(rules) /\ DOMAIN rules' = 1 .. Len(rules)
  BY <1>1, <1>3, <1>4
<1> QED
  BY <1>1, <1>3, <1>4, <1>5

\* Rule numbers are those of the registered rules, and 0 is none.
LEMMA Numbers ==
    ASSUME Fields
    PROVE  /\ DOMAIN rules \subseteq RuleId
           /\ 0 \notin RuleId
           /\ \A n \in DOMAIN rules : rules[n] \in Rule
<1>1. rules \in Seq(Rule) /\ Len(rules) \in Nat /\ DOMAIN rules = 1 .. Len(rules)
  BY DEF Fields
<1> QED
  BY <1>1, StagedAssumption DEF Fields, RuleId

\* What a shadow request is run against is a staged rule.
LEMMA ObservedIsStaged ==
    ASSUME Fields
    PROVE  /\ Observing \subseteq staged
           /\ Observing # {} => First(Observing) \in staged
<1>1. Active \in SUBSET RuleId /\ Active \subseteq staged
  BY Numbers DEF Active, Fields
<1>2. Active # {} => First(Active) \in Active
  BY <1>1, FirstIsIn
<1>3. Observing \subseteq staged
  BY <1>1, <1>2 DEF Observing
<1> QED
  BY <1>3, FirstIsIn, Numbers DEF Fields

----------------------------------------------------------------------------
(* The invariant                                                           *)

LEMMA InitInv == Init => Inv
<1> SUFFICES ASSUME Init PROVE Inv
  OBVIOUS
<1>1. PICK readOnly \in BOOLEAN :
         kernel = [readOnly |-> readOnly, rule |-> [c \in Commitment |-> 0]]
  BY DEF Init
<1>2. rules \in Seq(Rule) /\ Len(rules) = 0 /\ DOMAIN rules = {}
  BY DEF Init
<1>3. /\ kernel \in [readOnly : BOOLEAN, rule : [Commitment -> {0} \cup DOMAIN rules]]
      /\ \A c \in Commitment : kernel.rule[c] = 0
  BY <1>1
<1>4. chat \in [Chat -> ChatState] /\ \A t \in Chat : chat[t] = Resting
  BY DEF Init, ChatState, Resting
<1>5. Fields
  BY <1>2, <1>3, <1>4, StagedAssumption DEF Init, Fields
<1> QED
  BY <1>3, <1>4, <1>5
  DEF Init, Inv, ChatsTidy, RecordsExpired, StagedOpen, InForceJustified, Resting, Runner

\* The endorsement of a conflicting rule (endorsement/reflective.py).
LEMMA EndorseStep ==
    ASSUME Inv, NEW c \in Commitment,
           Approve(c) \/ Decline(c) \/ \E d \in Cooldowns : Stage(c, d)
    PROVE  Inv'
<1> USE DEF Inv
<1> DEFINE new == Len(rules')
<1>1. PICK d \in {"approved", "staged", "declined"}, left \in Nat :
         /\ Record(c, d, left)
         /\ staged' = IF d = "staged" THEN staged \cup {new} ELSE staged
         /\ kernel' = IF d = "approved" THEN [kernel EXCEPT !.rule[c] = new] ELSE kernel
  BY StagedAssumption DEF Approve, Decline, Stage
<1>2. /\ new \in RuleId /\ new \notin DOMAIN rules
      /\ rules' \in Seq(Rule) /\ new <= MaxRules
      /\ DOMAIN rules' = DOMAIN rules \cup {new}
      /\ \A n \in DOMAIN rules : rules'[n] = rules[n]
      /\ rules'[new] = [commitment |-> c, decision |-> d, left |-> left]
  BY <1>1, RecordAppends, Zenon
<1>3. UNCHANGED <<chat, shadow, queued, fate, critical>>
  BY <1>1 DEF Record
<1> HIDE DEF new
<1>4. /\ kernel' \in [readOnly : BOOLEAN, rule : [Commitment -> {0} \cup DOMAIN rules']]
      /\ \A b \in Commitment :
            kernel'.rule[b] = IF d = "approved" /\ b = c THEN new ELSE kernel.rule[b]
  BY <1>1, <1>2 DEF Fields
<1>5. Fields'
  BY <1>1, <1>2, <1>3, <1>4 DEF Fields, new
<1>6. ChatsTidy'
  BY <1>3 DEF ChatsTidy
<1>7. RecordsExpired'
  BY <1>1, <1>2, <1>3 DEF RecordsExpired, Open, IsStaged
<1>8. StagedOpen'
  BY <1>1, <1>2, <1>3 DEF StagedOpen, Open, IsStaged
<1>9. InForceJustified'
  <2> SUFFICES ASSUME NEW b \in Commitment
               PROVE  LET n == kernel'.rule[b] IN
                      n = 0 \/ rules'[n].decision = "approved" \/ fate'[n] = "promoted"
    BY DEF InForceJustified
  <2>1. kernel.rule[b] \in {0} \cup DOMAIN rules
    BY DEF Fields
  <2> QED
    BY <1>2, <1>3, <1>4, <2>1 DEF InForceJustified
<1> QED
  BY <1>5, <1>6, <1>7, <1>8, <1>9

\* get_promotable, listing and deleting; a record that is gone ends the chat.
LEMMA PromotableStep ==
    ASSUME Inv, NEW t \in Chat, BeginChat(t) \/ Delete(t)
    PROVE  Inv'
<1> USE DEF Inv
<1>1. CASE BeginChat(t)
  <2>1. Promotable \subseteq staged /\ \A n \in Promotable : rules[n].left = 0
    BY DEF Promotable
  <2>2. chat' \in [Chat -> ChatState]
    BY <1>1, <2>1, Numbers DEF BeginChat, Fields, ChatState
  <2>3. \A u \in Chat : chat'[u] = IF u = t THEN [pc |-> "promoting", found |-> Promotable, taken |-> {}]
                                            ELSE chat[u]
    BY <1>1 DEF BeginChat, Fields
  <2>4. UNCHANGED <<rules, staged, kernel, shadow, queued, fate, critical>>
    BY <1>1 DEF BeginChat
  <2>5. Fields' /\ InForceJustified' /\ StagedOpen'
    BY <2>2, <2>4 DEF Fields, InForceJustified, StagedOpen, Open, IsStaged
  <2>6. ChatsTidy'
    BY <1>1, <2>3, <2>4 DEF ChatsTidy, BeginChat
  <2>7. RecordsExpired'
    BY <2>1, <2>3, <2>4 DEF RecordsExpired, StagedOpen, Open, IsStaged
  <2> QED
    BY <2>5, <2>6, <2>7
<1>2. CASE Delete(t)
  <2> DEFINE n == First(chat[t].found)
             rest == chat[t].found \ {n}
             more == chat[t].taken \cup {n}
  <2>1. chat[t] \in ChatState /\ chat[t].pc = "promoting" /\ chat[t].found # {}
    BY <1>2 DEF Delete, Fields
  <2>2. n \in chat[t].found /\ n \in RuleId
    BY <2>1, FirstIsIn DEF ChatState
  <2>3. UNCHANGED <<rules, kernel, shadow, queued, fate, critical>>
    BY <1>2 DEF Delete
  <2>4. CASE n \in staged
    <3>1. staged' = staged \ {n}
      BY <1>2, <2>4 DEF Delete
    <3>2. chat' = [chat EXCEPT ![t].found = @ \ {n}, ![t].taken = @ \cup {n}]
      BY <1>2, <2>4 DEF Delete
    <3> HIDE DEF n
    <3>3. /\ \A u \in Chat : u # t => chat'[u] = chat[u]
          /\ chat'[t].pc = "promoting" /\ chat'[t].found = rest /\ chat'[t].taken = more
      BY <2>1, <3>2 DEF Fields, ChatState
    <3>4. chat' \in [Chat -> ChatState]
      BY <2>1, <2>2, <3>2 DEF Fields, ChatState
    <3>5. Fields' /\ InForceJustified' /\ StagedOpen'
      BY <2>3, <3>1, <3>4 DEF Fields, InForceJustified, StagedOpen, Open, IsStaged
    <3>6. ChatsTidy'
      BY <2>1, <2>3, <3>3 DEF ChatsTidy
    <3>7. RecordsExpired'
      BY <2>2, <2>3, <2>4, <3>1, <3>3 DEF RecordsExpired, StagedOpen, Open, IsStaged
    <3> QED
      BY <3>5, <3>6, <3>7
  <2>5. CASE n \notin staged
    <3>1. UNCHANGED staged /\ chat' = [chat EXCEPT ![t] = Resting]
      BY <1>2, <2>5 DEF Delete
    <3>2. \A u \in Chat : chat'[u] = IF u = t THEN Resting ELSE chat[u]
      BY <3>1 DEF Fields
    <3>3. chat' \in [Chat -> ChatState]
      BY <3>1 DEF Fields, ChatState, Resting
    <3>4. Fields' /\ InForceJustified' /\ StagedOpen'
      BY <2>3, <3>1, <3>3 DEF Fields, InForceJustified, StagedOpen, Open, IsStaged
    <3>5. ChatsTidy'
      BY <2>1, <2>3, <3>2 DEF ChatsTidy, Resting
    <3>6. RecordsExpired'
      BY <2>3, <3>1, <3>2 DEF RecordsExpired, Open, IsStaged, Resting
    <3> QED
      BY <3>4, <3>5, <3>6
  <2> QED
    BY <2>4, <2>5
<1> QED
  BY <1>1, <1>2

\* _process_staged_updates: the promotion of a record in hand, whose rule comes
\* into force, or which a read-only kernel refuses.
LEMMA ApplyStep ==
    ASSUME Inv, NEW t \in Chat, Apply(t)
    PROVE  Inv'
<1> USE DEF Inv
<1> DEFINE n == First(chat[t].taken)
           rest == chat[t].taken \ {n}
<1>1. /\ chat[t] \in ChatState /\ chat[t].pc = "promoting"
      /\ chat[t].found = {} /\ chat[t].taken # {}
  BY DEF Apply, Fields
<1>2. n \in chat[t].taken /\ n \in RuleId
  BY <1>1, FirstIsIn DEF ChatState
<1>3. n \in DOMAIN rules /\ IsStaged(n) /\ fate[n] = "none" /\ n \notin staged
  BY <1>2 DEF RecordsExpired, Open, IsStaged
<1>4. rules[n].commitment \in Commitment
  BY <1>3, Numbers DEF Rule
<1>5. chat' = [chat EXCEPT ![t].taken = @ \ {n}]
  BY DEF Apply
<1>6. \/ UNCHANGED <<kernel, fate>>
      \/ /\ kernel' = [kernel EXCEPT !.rule[rules[n].commitment] = n]
         /\ fate' = [fate EXCEPT ![n] = "promoted"]
  BY DEF Apply
<1>7. UNCHANGED <<rules, staged, shadow, queued, critical>>
  BY DEF Apply
<1> HIDE DEF n
<1>8. /\ chat' \in [Chat -> ChatState]
      /\ \A u \in Chat : u # t => chat'[u] = chat[u]
      /\ chat'[t].pc = "promoting" /\ chat'[t].found = {} /\ chat'[t].taken = rest
  BY <1>1, <1>5 DEF Fields, ChatState
<1>9. /\ fate' \in [RuleId -> {"none", "promoted", "rejected"}]
      /\ \A m \in RuleId : fate'[m] = fate[m] \/ (m = n /\ fate'[m] = "promoted")
  BY <1>2, <1>6 DEF Fields
<1>10. /\ kernel' \in [readOnly : BOOLEAN, rule : [Commitment -> {0} \cup DOMAIN rules]]
       /\ \A c \in Commitment :
             kernel'.rule[c] = kernel.rule[c] \/ (kernel'.rule[c] = n /\ fate'[n] = "promoted")
  <2>1. CASE UNCHANGED <<kernel, fate>>
    BY <2>1 DEF Fields
  <2>2. CASE /\ kernel' = [kernel EXCEPT !.rule[rules[n].commitment] = n]
             /\ fate' = [fate EXCEPT ![n] = "promoted"]
    <3>1. fate'[n] = "promoted"
      BY <1>2, <2>2 DEF Fields
    <3>2. /\ kernel' \in [readOnly : BOOLEAN, rule : [Commitment -> {0} \cup DOMAIN rules]]
          /\ \A c \in Commitment : kernel'.rule[c] = kernel.rule[c] \/ kernel'.rule[c] = n
      BY <1>3, <1>4, <2>2 DEF Fields
    <3> QED
      BY <3>1, <3>2
  <2> QED
    BY <1>6, <2>1, <2>2
<1>11. Fields'
  BY <1>7, <1>8, <1>9, <1>10 DEF Fields
<1>12. ChatsTidy'
  BY <1>1, <1>7, <1>8 DEF ChatsTidy
<1>13. RecordsExpired'
  BY <1>1, <1>2, <1>7, <1>8, <1>9, Numbers DEF RecordsExpired, Open, IsStaged
<1>14. StagedOpen'
  BY <1>3, <1>7, <1>9, Numbers DEF StagedOpen, Open, IsStaged, Fields
<1>15. InForceJustified'
  <2> SUFFICES ASSUME NEW c \in Commitment
               PROVE  LET m == kernel'.rule[c] IN
                      m = 0 \/ rules'[m].decision = "approved" \/ fate'[m] = "promoted"
    BY DEF InForceJustified
  <2>1. kernel.rule[c] = 0 \/ kernel.rule[c] \in RuleId
    BY Numbers DEF Fields
  <2>2. CASE kernel'.rule[c] = kernel.rule[c]
    BY <1>7, <1>9, <2>1, <2>2 DEF InForceJustified
  <2>3. CASE kernel'.rule[c] = n /\ fate'[n] = "promoted"
    BY <2>3
  <2> QED
    BY <1>10, <2>2, <2>3
<1> QED
  BY <1>11, <1>12, <1>13, <1>14, <1>15

\* The call of the provider and what follows it: no step of it touches a record.
LEMMA ServeStep ==
    ASSUME Inv, NEW t \in Chat,
           \/ CallProvider(t) \/ ProviderFails(t)
           \/ AnswerPlainly(t) \/ AnswerAndSubmit(t) \/ AnswerAfterShadow(t)
    PROVE  Inv'
<1> USE DEF Inv
<1>1. /\ chat[t] \in ChatState
      /\ chat[t].pc \in {"promoting", "serving"}
      /\ chat[t].found = {} /\ chat[t].taken = {}
  BY DEF Fields, ChatsTidy, CallProvider, ProviderFails, AnswerPlainly, AnswerAndSubmit,
         AnswerAfterShadow
<1>2. UNCHANGED <<rules, staged, kernel, fate, critical>>
  BY DEF CallProvider, ProviderFails, AnswerPlainly, AnswerAndSubmit, AnswerAfterShadow
<1>3. /\ chat' \in [Chat -> ChatState]
      /\ \A u \in Chat : u # t => chat'[u] = chat[u]
      /\ chat'[t].found = {} /\ chat'[t].taken = {}
  <2>1. CASE chat' = [chat EXCEPT ![t] = Resting]
    BY <2>1 DEF Fields, ChatState, Resting
  <2>2. ASSUME NEW pc \in {"idle", "serving", "shadowing"}, chat' = [chat EXCEPT ![t].pc = pc]
        PROVE  /\ chat' \in [Chat -> ChatState]
               /\ \A u \in Chat : u # t => chat'[u] = chat[u]
               /\ chat'[t].found = {} /\ chat'[t].taken = {}
    BY <1>1, <2>2 DEF Fields, ChatState
  <2> QED
    BY <2>1, <2>2 DEF CallProvider, ProviderFails, AnswerPlainly, AnswerAndSubmit,
                      AnswerAfterShadow
<1>4. queued' \in 0 .. MaxQueued
  BY StagedAssumption DEF Fields, CallProvider, ProviderFails, AnswerPlainly,
                          AnswerAndSubmit, AnswerAfterShadow
<1>5. /\ shadow' \in [Runner -> {0} \cup DOMAIN rules]
      /\ \A r \in Runner : r # t => shadow'[r] = shadow[r]
      /\ shadow'[t] # 0 => shadow'[t] \in staged /\ chat'[t].pc = "shadowing"
  <2>0. t \in Runner
    BY DEF Runner
  <2>1. CASE AnswerAfterShadow(t)
    BY <1>1, <2>0, <2>1, ObservedIsStaged DEF AnswerAfterShadow, Observe, Fields, ChatState
  <2>2. CASE ~AnswerAfterShadow(t)
    <3>1. UNCHANGED shadow
      BY <2>2 DEF CallProvider, ProviderFails, AnswerPlainly, AnswerAndSubmit
    <3>2. shadow[t] = 0
      BY <1>1 DEF ChatsTidy
    <3> QED
      BY <3>1, <3>2 DEF Fields
  <2> QED
    BY <2>1, <2>2
<1>6. Fields' /\ InForceJustified'
  BY <1>2, <1>3, <1>4, <1>5 DEF Fields, InForceJustified
<1>7. ChatsTidy'
  BY <1>3, <1>5 DEF ChatsTidy, Runner
<1>8. RecordsExpired'
  BY <1>2, <1>3 DEF RecordsExpired, Open, IsStaged
<1>9. StagedOpen'
  BY <1>2, <1>5 DEF StagedOpen, Open, IsStaged
<1> QED
  BY <1>6, <1>7, <1>8, <1>9

\* A background thread begins a shadow request that was submitted.
LEMMA BeginShadowStep ==
    ASSUME Inv, NEW w \in Worker, BeginShadow(w)
    PROVE  Inv'
<1> USE DEF Inv
<1>1. w \in Runner /\ w \notin Chat
  BY StagedAssumption DEF Runner
<1>2. UNCHANGED <<rules, staged, kernel, chat, fate, critical>>
  BY DEF BeginShadow
<1>3. queued' \in 0 .. MaxQueued
  BY StagedAssumption DEF Fields, BeginShadow
<1>4. /\ shadow' \in [Runner -> {0} \cup DOMAIN rules]
      /\ \A r \in Runner : r # w => shadow'[r] = shadow[r]
      /\ shadow'[w] # 0 => shadow'[w] \in staged
  BY <1>1, ObservedIsStaged DEF BeginShadow, Observe, Fields
<1>5. Fields' /\ InForceJustified'
  BY <1>2, <1>3, <1>4 DEF Fields, InForceJustified
<1>6. ChatsTidy'
  BY <1>1, <1>2, <1>4 DEF ChatsTidy, Runner
<1>7. RecordsExpired'
  BY <1>2 DEF RecordsExpired, Open, IsStaged
<1>8. StagedOpen'
  BY <1>2, <1>4 DEF StagedOpen, Open, IsStaged
<1> QED
  BY <1>5, <1>6, <1>7, <1>8

\* A shadow request ends; a critical one rejects its rule if it is still staged.
LEMMA ShadowEndsStep ==
    ASSUME Inv, NEW r \in Runner, ShadowEnds(r)
    PROVE  Inv'
<1> USE DEF Inv
<1> DEFINE n == shadow[r]
<1>1. /\ shadow[r] # 0
      /\ shadow' = [shadow EXCEPT ![r] = 0]
      /\ chat' = IF r \in Chat THEN [chat EXCEPT ![r] = Resting] ELSE chat
      /\ UNCHANGED <<rules, kernel, queued>>
  BY DEF ShadowEnds, EndShadow, CriticalShadow, Over
<1>2. n \in DOMAIN rules /\ IsStaged(n) /\ n \in RuleId
  BY <1>1, Numbers DEF Fields, StagedOpen
<1>3. /\ staged' \subseteq staged
      /\ fate' \in [RuleId -> {"none", "promoted", "rejected"}]
      /\ critical' \subseteq DOMAIN rules
      /\ \A m \in RuleId : fate'[m] = fate[m] \/ (m = n /\ m \in staged /\ m \notin staged')
  <2>1. CASE EndShadow(r)
    BY <2>1 DEF EndShadow, Fields
  <2>2. CASE CriticalShadow(r)
    <3>1. /\ critical' = critical \cup {n} /\ staged' = staged \ {n}
          /\ fate' = IF n \in staged THEN [fate EXCEPT ![n] = "rejected"] ELSE fate
      BY <2>2 DEF CriticalShadow
    <3> HIDE DEF n
    <3> QED
      BY <1>2, <3>1 DEF Fields
  <2> QED
    BY <2>1, <2>2 DEF ShadowEnds
<1>4. r \in Chat => chat[r].found = {} /\ chat[r].taken = {}
  BY <1>1 DEF ChatsTidy
<1>5. /\ chat' \in [Chat -> ChatState]
      /\ \A t \in Chat : /\ t # r => chat'[t] = chat[t]
                         /\ chat'[t].found = chat[t].found
                         /\ chat'[t].taken = chat[t].taken
  BY <1>1, <1>4 DEF Fields, ChatState, Resting
<1> HIDE DEF n
<1>6. Fields'
  BY <1>1, <1>3, <1>5 DEF Fields
<1>7. ChatsTidy'
  BY <1>1, <1>5 DEF ChatsTidy, Fields, Runner, Resting
<1>8. RecordsExpired'
  BY <1>1, <1>3, <1>5, Numbers DEF RecordsExpired, Open, IsStaged
<1>9. StagedOpen'
  BY <1>1, <1>2, <1>3, Numbers DEF StagedOpen, Open, IsStaged, Fields
<1>10. InForceJustified'
  <2> SUFFICES ASSUME NEW c \in Commitment
               PROVE  LET m == kernel.rule[c] IN
                      m = 0 \/ rules[m].decision = "approved" \/ fate'[m] = "promoted"
    BY <1>1 DEF InForceJustified
  <2>1. kernel.rule[c] = 0 \/ kernel.rule[c] \in RuleId
    BY Numbers DEF Fields
  <2> QED
    BY <1>3, <2>1 DEF InForceJustified, StagedOpen, Open
<1> QED
  BY <1>6, <1>7, <1>8, <1>9, <1>10

LEMMA TickStep ==
    ASSUME Inv, Tick
    PROVE  Inv'
<1> USE DEF Inv
<1>1. UNCHANGED <<staged, kernel, chat, shadow, queued, fate, critical>>
  BY DEF Tick
<1>2. Fields'
  BY <1>1, TickCools DEF Fields
<1>3. ChatsTidy'
  BY <1>1 DEF ChatsTidy
<1>4. RecordsExpired'
  BY <1>1, TickCools DEF RecordsExpired, Open, IsStaged
<1>5. StagedOpen'
  BY <1>1, TickCools DEF StagedOpen, Open, IsStaged
<1>6. InForceJustified'
  BY <1>1, TickCools DEF InForceJustified, Fields
<1> QED
  BY <1>2, <1>3, <1>4, <1>5, <1>6

LEMMA InvStep == Inv /\ [Next]_vars => Inv'
<1> SUFFICES ASSUME Inv, [Next]_vars PROVE Inv'
  OBVIOUS
<1>1. CASE UNCHANGED vars
  BY <1>1 DEF Inv, Fields, ChatsTidy, RecordsExpired, StagedOpen, InForceJustified, Open,
              IsStaged, vars
<1>2. CASE Next
  BY <1>2, EndorseStep, PromotableStep, ApplyStep, ServeStep, BeginShadowStep,
     ShadowEndsStep, TickStep
  DEF Next, ChatStep
<1> QED
  BY <1>1, <1>2

LEMMA Invariance == Spec => []Inv
<1>1. Init => Inv
  BY InitInv
<1>2. Inv /\ [Next]_vars => Inv'
  BY InvStep
<1> QED
  BY <1>1, <1>2, PTL DEF Spec

----------------------------------------------------------------------------
(* One chat at a time, shadow requests inline                              *)

LEMMA SoloPromotable ==
    ASSUME OneChatInline, SoloInv, NEW t \in Chat, BeginChat(t) \/ Delete(t)
    PROVE  Undisturbed'
<1> USE DEF SoloInv, Inv, Undisturbed
<1>1. /\ chat[t] \in ChatState /\ \A u \in Chat : u = t
      /\ chat \in [Chat -> ChatState]
      /\ shadow[t] = 0
  BY DEF OneChatInline, Fields, ChatsTidy, BeginChat, Delete
<1>2. UNCHANGED <<rules, kernel, shadow, queued, fate, critical>>
  BY DEF BeginChat, Delete
<1>3. CASE BeginChat(t)
  <2>1. chat'[t].found \subseteq staged' /\ chat'[t].taken = chat[t].taken
    BY <1>1, <1>3 DEF BeginChat, Promotable, ChatsTidy
  <2> QED
    BY <1>1, <1>2, <1>3, <2>1 DEF BeginChat, Open, IsStaged
<1>4. CASE Delete(t)
  <2> DEFINE n == First(chat[t].found)
  <2>1. chat[t].found # {} /\ n \in chat[t].found /\ n \in staged
    BY <1>1, <1>4, FirstIsIn DEF Delete, ChatState
  <2>2. /\ staged' = staged \ {n}
        /\ chat' = [chat EXCEPT ![t].found = @ \ {n}, ![t].taken = @ \cup {n}]
    BY <1>4, <2>1 DEF Delete
  <2> HIDE DEF n
  <2>3. chat'[t].found = chat[t].found \ {n} /\ chat'[t].taken = chat[t].taken \cup {n}
    BY <1>1, <2>2 DEF ChatState
  <2> QED
    BY <1>1, <1>2, <2>1, <2>2, <2>3 DEF Open, IsStaged
<1> QED
  BY <1>3, <1>4

LEMMA SoloApply ==
    ASSUME OneChatInline, SoloInv, NEW t \in Chat, Apply(t)
    PROVE  Undisturbed'
<1> USE DEF SoloInv, Inv, Undisturbed
<1> DEFINE n == First(chat[t].taken)
<1>1. /\ chat[t] \in ChatState /\ \A u \in Chat : u = t
      /\ chat \in [Chat -> ChatState]
      /\ chat[t].taken # {}
  BY DEF OneChatInline, Fields, Apply
<1>2. n \in chat[t].taken /\ n \in RuleId /\ fate[n] = "none"
  BY <1>1, FirstIsIn DEF ChatState, RecordsExpired, Open
<1>3. /\ chat' = [chat EXCEPT ![t].taken = @ \ {n}]
      /\ \/ kernel.readOnly /\ UNCHANGED <<kernel, fate>>
         \/ /\ kernel' = [kernel EXCEPT !.rule[rules[n].commitment] = n]
            /\ fate' = [fate EXCEPT ![n] = "promoted"]
      /\ UNCHANGED <<rules, staged, shadow, queued, critical>>
  BY DEF Apply
<1> HIDE DEF n
<1>4. chat'[t].found = chat[t].found /\ chat'[t].taken = chat[t].taken \ {n}
  BY <1>1, <1>3 DEF ChatState
<1>5. \A m \in RuleId : m # n => fate'[m] = fate[m]
  BY <1>3 DEF Fields
<1>6. \/ kernel.readOnly /\ kernel'.readOnly
      \/ fate'[n] = "promoted"
  BY <1>2, <1>3 DEF Fields
<1>7. critical \subseteq RuleId /\ n \notin critical
  BY <1>2, Numbers DEF Fields
<1>8. kernel'.readOnly = kernel.readOnly
  BY <1>3 DEF Fields
<1> QED
  BY <1>1, <1>3, <1>4, <1>5, <1>6, <1>7, <1>8, Numbers DEF Open, IsStaged

LEMMA SoloServe ==
    ASSUME OneChatInline, SoloInv, NEW t \in Chat,
           \/ CallProvider(t) \/ ProviderFails(t)
           \/ AnswerPlainly(t) \/ AnswerAndSubmit(t) \/ AnswerAfterShadow(t)
    PROVE  Undisturbed'
<1> USE DEF SoloInv, Inv, Undisturbed
<1>1. /\ chat[t] \in ChatState /\ \A u \in Chat : u = t
      /\ chat \in [Chat -> ChatState]
      /\ chat[t].found = {} /\ chat[t].taken = {} /\ shadow[t] = 0
  BY DEF OneChatInline, Fields, ChatsTidy, CallProvider, ProviderFails, AnswerPlainly,
         AnswerAndSubmit, AnswerAfterShadow
<1>2. UNCHANGED <<rules, staged, kernel, queued, fate, critical>>
  BY DEF OneChatInline, CallProvider, ProviderFails, AnswerPlainly, AnswerAndSubmit,
         AnswerAfterShadow
<1>3. chat'[t].found = {} /\ chat'[t].taken = {}
  BY <1>1 DEF ChatState, Resting, CallProvider, ProviderFails, AnswerPlainly,
              AnswerAndSubmit, AnswerAfterShadow
<1>4. /\ shadow'[t] # 0 => shadow'[t] \in staged
      /\ \A w \in Worker : shadow'[w] = 0
  <2>1. t \in Runner /\ \A w \in Worker : w \in Runner /\ w # t
    BY StagedAssumption DEF Runner
  <2>2. CASE AnswerAfterShadow(t)
    BY <2>1, <2>2, ObservedIsStaged DEF AnswerAfterShadow, Observe, Fields
  <2>3. CASE ~AnswerAfterShadow(t)
    BY <1>1, <2>3 DEF OneChatInline, CallProvider, ProviderFails, AnswerPlainly, AnswerAndSubmit
  <2> QED
    BY <2>2, <2>3
<1> QED
  BY <1>1, <1>2, <1>3, <1>4 DEF Open, IsStaged

LEMMA SoloShadowEnds ==
    ASSUME OneChatInline, SoloInv, NEW r \in Runner, ShadowEnds(r)
    PROVE  Undisturbed'
<1> USE DEF SoloInv, Inv, Undisturbed
<1> DEFINE n == shadow[r]
<1>1. /\ n # 0
      /\ shadow' = [shadow EXCEPT ![r] = 0]
      /\ chat' = IF r \in Chat THEN [chat EXCEPT ![r] = Resting] ELSE chat
      /\ UNCHANGED <<rules, kernel, queued>>
  BY DEF ShadowEnds, EndShadow, CriticalShadow, Over
<1>2. r \in Chat /\ n \in staged /\ n \in RuleId
  BY <1>1, Numbers DEF Runner, Fields
<1>3. /\ \A u \in Chat : u = r
      /\ chat[r].found = {} /\ chat[r].taken = {}
      /\ chat'[r] = Resting
  BY <1>1, <1>2 DEF OneChatInline, ChatsTidy, Fields
<1>4. shadow'[r] = 0 /\ \A w \in Worker : shadow'[w] = 0
  BY <1>1 DEF Fields, Runner
<1>5. CASE EndShadow(r)
  BY <1>1, <1>3, <1>4, <1>5 DEF EndShadow, Resting, Open, IsStaged
<1>6. CASE CriticalShadow(r)
  <2>1. /\ critical' = critical \cup {n} /\ staged' = staged \ {n}
        /\ fate' = [fate EXCEPT ![n] = "rejected"]
    BY <1>2, <1>6 DEF CriticalShadow
  <2> HIDE DEF n
  <2>2. fate'[n] = "rejected" /\ \A m \in RuleId : m # n => fate'[m] = fate[m]
    BY <1>2, <2>1 DEF Fields
  <2>3. critical \subseteq RuleId
    BY Numbers DEF Fields
  <2> QED
    BY <1>1, <1>3, <1>4, <2>1, <2>2, <2>3, Numbers DEF Resting, Open, IsStaged
<1> QED
  BY <1>5, <1>6 DEF ShadowEnds

LEMMA SoloRest ==
    ASSUME OneChatInline, SoloInv,
           \/ \E c \in Commitment : \/ Approve(c) \/ Decline(c)
                                    \/ \E d \in Cooldowns : Stage(c, d)
           \/ \E w \in Worker : BeginShadow(w)
           \/ Tick
    PROVE  Undisturbed'
<1> USE DEF SoloInv, Inv, Undisturbed
<1>1. CASE Tick
  <2>1. UNCHANGED <<staged, kernel, chat, shadow, queued, fate, critical>>
    BY <1>1 DEF Tick
  <2> QED
    BY <1>1, <2>1, TickCools DEF Open, IsStaged
<1>2. CASE \E w \in Worker : BeginShadow(w)
  BY <1>2 DEF BeginShadow
<1>3. ASSUME NEW c \in Commitment,
             Approve(c) \/ Decline(c) \/ \E d \in Cooldowns : Stage(c, d)
      PROVE  Undisturbed'
  <2>1. PICK d \in {"approved", "staged", "declined"}, left \in Nat :
           /\ Record(c, d, left)
           /\ staged' = IF d = "staged" THEN staged \cup {Len(rules')} ELSE staged
           /\ kernel' = kernel \/ kernel' = [kernel EXCEPT !.rule[c] = Len(rules')]
    BY <1>3, StagedAssumption DEF Approve, Decline, Stage
  <2>2. /\ Len(rules') \notin DOMAIN rules
        /\ DOMAIN rules' = DOMAIN rules \cup {Len(rules')}
        /\ \A n \in DOMAIN rules : rules'[n] = rules[n]
        /\ rules'[Len(rules')] = [commitment |-> c, decision |-> d, left |-> left]
    BY <2>1, RecordAppends, Zenon
  <2>3. kernel'.readOnly = kernel.readOnly
    BY <2>1 DEF Fields
  <2>4. UNCHANGED <<chat, shadow, queued, fate, critical>>
    BY <2>1 DEF Record
  <2>5. staged \subseteq staged' /\ (d = "staged" => Len(rules') \in staged')
    BY <2>1
  <2>6. rules'[Len(rules')].decision = d
    BY <2>2
  <2>7. ASSUME NEW n \in DOMAIN rules', Open(n)'
        PROVE  Open(n) \/ n \in staged'
    BY <2>2, <2>4, <2>5, <2>6, <2>7 DEF Open, IsStaged
  <2> QED
    BY <2>3, <2>4, <2>5, <2>7 DEF Open, IsStaged
<1> QED
  BY <1>1, <1>2, <1>3

LEMMA SoloInvariance == ASSUME OneChatInline PROVE Spec => []SoloInv
<1>1. Init => SoloInv
  <2> SUFFICES ASSUME Init PROVE Undisturbed
    BY InitInv DEF SoloInv
  <2>1. \A t \in Chat : chat[t] = Resting
    BY DEF Init
  <2> QED
    BY <2>1 DEF Init, Undisturbed, Runner, Resting
<1>2. SoloInv /\ [Next]_vars => SoloInv'
  <2> SUFFICES ASSUME SoloInv, [Next]_vars PROVE SoloInv'
    OBVIOUS
  <2>1. Inv'
    BY InvStep DEF SoloInv
  <2>2. CASE UNCHANGED vars
    BY <2>1, <2>2 DEF SoloInv, Undisturbed, Open, IsStaged, vars
  <2>3. CASE Next
    BY <2>1, <2>3, SoloPromotable, SoloApply, SoloServe, SoloShadowEnds, SoloRest
    DEF Next, ChatStep, SoloInv
  <2> QED
    BY <2>2, <2>3
<1> QED
  BY <1>1, <1>2, PTL DEF Spec

----------------------------------------------------------------------------
(* The lives of the rules                                                  *)

Held(n) == n \in staged \/ \E t \in Chat : n \in chat[t].taken

\* The cases of Life exclude each other, since what has been decided on is held
\* by nobody.
LifeOf(n) ==
    /\ n \notin DOMAIN rules => Life(n) = "new"
    /\ n \in DOMAIN rules /\ rules[n].decision # "staged" => Life(n) = rules[n].decision
    /\ IsStaged(n) /\ fate[n] # "none" => Life(n) = fate[n]
    /\ Open(n) /\ Held(n) => Life(n) = "cooling"
    /\ Open(n) /\ ~Held(n) => Life(n) = "lost"

LifeTable == \A n \in RuleId : LifeOf(n)

LEMMA LifeIs == Inv => LifeTable
<1> SUFFICES ASSUME Inv, NEW n \in RuleId PROVE LifeOf(n)
  BY DEF LifeTable
<1>1. /\ fate[n] # "none" => IsStaged(n) /\ ~Held(n)
      /\ Held(n) => IsStaged(n)
  BY DEF Inv, StagedOpen, RecordsExpired, Open, Held
<1>2. n \notin DOMAIN rules => Life(n) = "new"
  BY <1>1, Zenon DEF Life, IsStaged, Held
<1>3. n \in DOMAIN rules /\ rules[n].decision # "staged" => Life(n) = rules[n].decision
  BY <1>1, Zenon DEF Life, IsStaged, Held
<1>4. IsStaged(n) /\ fate[n] # "none" => Life(n) = fate[n]
  BY <1>1, Zenon DEF Life, IsStaged, Held
<1>5. Open(n) /\ Held(n) => Life(n) = "cooling"
  BY Zenon DEF Life, Open, IsStaged, Held
<1>6. Open(n) /\ ~Held(n) => Life(n) = "lost"
  BY Zenon DEF Life, Open, IsStaged, Held
<1> QED
  BY <1>2, <1>3, <1>4, <1>5, <1>6 DEF LifeOf

LEMMA LifeIsNext == Inv' => LifeTable'
  BY LifeIs, PTL

----------------------------------------------------------------------------
(* StagedApproval implements AbstractApproval                              *)

\* The state of AbstractApproval that the instance Contract maps a state to.
Lives == [n \in RuleId |-> Life(n)]
Expired == {n \in DOMAIN rules : rules[n].left = 0}
About == [n \in DOMAIN rules |-> rules[n].commitment]
Seen == <<Lives, Expired, About, kernel.rule>>

LEMMA SameSeen ==
    ASSUME UNCHANGED Seen PROVE UNCHANGED Contract!absVars
BY DEF Seen, Lives, Expired, About, Contract!absVars

\* A step that neither decides on a rule nor lets a record out of all hands is none
\* of the contract.
LEMMA LivesKept ==
    ASSUME Inv, Inv',
           DOMAIN rules' = DOMAIN rules,
           \A n \in DOMAIN rules : rules'[n].decision = rules[n].decision,
           UNCHANGED fate,
           \A n \in RuleId : Held(n)' = Held(n)
    PROVE  UNCHANGED Lives
<1>1. \A n \in RuleId : Life(n)' = Life(n)
  BY LifeIs, LifeIsNext DEF LifeTable, LifeOf, Open, IsStaged
<1> QED
  BY <1>1 DEF Lives

LEMMA ContractInit == Init => Contract!AbsInit
<1> SUFFICES ASSUME Init PROVE Contract!AbsInit
  OBVIOUS
<1>1. DOMAIN rules = {}
  BY DEF Init
<1>2. \A n \in RuleId : Life(n) = "new"
  BY <1>1, InitInv, LifeIs DEF LifeTable, LifeOf
<1>3. kernel.rule = [c \in Commitment |-> 0]
  BY DEF Init
<1> QED
  BY <1>1, <1>2, <1>3 DEF Contract!AbsInit

\* Registering a record decides on its rule.
LEMMA ContractEndorse ==
    ASSUME Inv, Inv', NEW c \in Commitment,
           Approve(c) \/ Decline(c) \/ \E d \in Cooldowns : Stage(c, d)
    PROVE  \E n \in RuleId, d \in {"approved", "cooling", "declined"} : Contract!Decide(n, c, d)
<1>1. PICK d \in {"approved", "staged", "declined"}, left \in Nat :
         /\ Record(c, d, left)
         /\ staged' = IF d = "staged" THEN staged \cup {Len(rules')} ELSE staged
         /\ kernel' = IF d = "approved" THEN [kernel EXCEPT !.rule[c] = Len(rules')] ELSE kernel
  BY StagedAssumption DEF Approve, Decline, Stage
<1>2. /\ Len(rules') \in RuleId /\ Len(rules') \notin DOMAIN rules
      /\ DOMAIN rules' = DOMAIN rules \cup {Len(rules')}
      /\ \A n \in DOMAIN rules : rules'[n] = rules[n]
      /\ rules'[Len(rules')] = [commitment |-> c, decision |-> d, left |-> left]
  BY <1>1, RecordAppends, Zenon DEF Inv
<1>3. PICK new \in RuleId :
         /\ new = Len(rules')
         /\ staged' = IF d = "staged" THEN staged \cup {new} ELSE staged
         /\ kernel' = IF d = "approved" THEN [kernel EXCEPT !.rule[c] = new] ELSE kernel
  BY <1>1, <1>2
<1>4. /\ new \in RuleId /\ new \notin DOMAIN rules
      /\ DOMAIN rules' = DOMAIN rules \cup {new}
      /\ \A n \in DOMAIN rules : rules'[n] = rules[n]
      /\ rules'[new] = [commitment |-> c, decision |-> d, left |-> left]
  BY <1>2, <1>3
<1>5. UNCHANGED <<chat, fate>>
  BY <1>1 DEF Record
<1> DEFINE decided == IF d = "staged" THEN "cooling" ELSE d
<1>6. Life(new) = "new"
  BY <1>4, LifeIs DEF LifeTable, LifeOf
<1>7. Life(new)' = decided
  <2>1. fate[new] = "none"
    BY <1>4 DEF Inv, StagedOpen, IsStaged, Fields
  <2>2. d = "staged" => new \in staged'
    BY <1>3
  <2>3. new \in RuleId /\ new \in DOMAIN rules' /\ rules'[new].decision = d
    BY <1>4
  <2>4. CASE d = "staged"
    <3>1. (Open(new) /\ Held(new))'
      BY <1>5, <2>1, <2>2, <2>3, <2>4 DEF Open, IsStaged, Held
    <3> QED
      BY <1>4, <2>4, <3>1, LifeIsNext DEF LifeTable, LifeOf
  <2>5. CASE d # "staged"
    BY <2>3, <2>5, LifeIsNext DEF LifeTable, LifeOf
  <2> QED
    BY <2>4, <2>5
<1>8. \A n \in RuleId : n # new => Life(n)' = Life(n)
  <2>1. \A n \in RuleId : n # new => Held(n)' = Held(n)
    BY <1>3, <1>5 DEF Held
  <2> QED
    BY <1>4, <1>5, <2>1, LifeIs, LifeIsNext DEF LifeTable, LifeOf, Open, IsStaged
<1>9. Lives' = [Lives EXCEPT ![new] = decided] /\ Lives[new] = "new"
  BY <1>4, <1>6, <1>7, <1>8 DEF Lives
<1>10. /\ Expired' \in {Expired, Expired \cup {new}}
      /\ About' = [m \in DOMAIN About \cup {new} |-> IF m = new THEN c ELSE About[m]]
  BY <1>4 DEF Expired, About
<1>11. kernel.rule' = IF decided = "approved" THEN [kernel.rule EXCEPT ![c] = new] ELSE kernel.rule
  BY <1>3 DEF Inv, Fields
<1>12. Contract!Decide(new, c, decided)
  BY <1>9, <1>10, <1>11 DEF Contract!Decide, Lives, Expired, About
<1> QED
  BY <1>4, <1>12

\* get_promotable: listing and deleting change nothing the contract sees, unless a
\* record listed before is gone: then those in hand are lost.
LEMMA ContractPromotable ==
    ASSUME Inv, Inv', NEW t \in Chat, BeginChat(t) \/ Delete(t)
    PROVE  \/ UNCHANGED Seen
           \/ \E S \in SUBSET RuleId : Contract!Lose(S)
<1>1. UNCHANGED <<rules, kernel, shadow, queued, fate, critical>>
  BY DEF BeginChat, Delete
<1>2. UNCHANGED <<Expired, About, kernel.rule>>
  BY <1>1 DEF Expired, About
<1>3. chat \in [Chat -> ChatState] /\ chat[t] \in ChatState
  BY DEF Inv, Fields
<1>4. CASE BeginChat(t)
  <2>1. \A u \in Chat : chat'[u].taken = chat[u].taken
    BY <1>3, <1>4 DEF BeginChat, Inv, ChatsTidy
  <2>2. \A n \in RuleId : Held(n)' = Held(n)
    BY <1>4, <2>1 DEF BeginChat, Held
  <2> QED
    BY <1>1, <1>2, <2>2, LivesKept DEF Seen
<1>5. CASE Delete(t)
  <2> DEFINE n == First(chat[t].found)
  <2>1. n \in chat[t].found
    BY <1>3, <1>5, FirstIsIn DEF Delete, ChatState
  <2>2. CASE n \in staged
    <3>1. staged' = staged \ {n}
      BY <1>5, <2>2 DEF Delete
    <3>2. \A u \in Chat : chat'[u].taken = IF u = t THEN chat[u].taken \cup {n} ELSE chat[u].taken
      <4>1. chat' = [chat EXCEPT ![t].found = @ \ {n}, ![t].taken = @ \cup {n}]
        BY <1>5, <2>2 DEF Delete
      <4> HIDE DEF n
      <4>2. chat'[t].taken = chat[t].taken \cup {n} /\ \A u \in Chat : u # t => chat'[u] = chat[u]
        BY <1>3, <4>1 DEF ChatState
      <4> QED
        BY <4>2
    <3> HIDE DEF n
    <3>3. \A m \in RuleId : Held(m)' = Held(m)
      BY <2>2, <3>1, <3>2 DEF Held
    <3> QED
      BY <1>1, <1>2, <3>3, LivesKept DEF Seen
  <2>3. CASE n \notin staged
    <3> DEFINE S == chat[t].taken
    <3>1. /\ UNCHANGED staged
          /\ \A u \in Chat : chat'[u].taken = IF u = t THEN {} ELSE chat[u].taken
      BY <1>3, <1>5, <2>3 DEF Delete, Resting
    <3>2. /\ S \in SUBSET RuleId
          /\ \A m \in S : /\ Open(m) /\ rules[m].left = 0 /\ m \notin staged
                          /\ \A u \in Chat : m \in chat[u].taken => u = t
      BY <1>3 DEF ChatState, Inv, RecordsExpired
    <3>3. ASSUME NEW m \in S
          PROVE  Life(m) = "cooling" /\ Life(m)' = "lost" /\ m \in Expired
      <4>1. Open(m) /\ Held(m) /\ m \in RuleId
        BY <3>2 DEF Held
      <4>2. Open(m)' /\ ~Held(m)'
        BY <1>1, <3>1, <3>2 DEF Open, IsStaged, Held
      <4>3. m \in Expired
        BY <3>2 DEF Open, IsStaged, Expired
      <4> QED
        BY <4>1, <4>2, <4>3, LifeIs, LifeIsNext DEF LifeTable, LifeOf
    <3>4. ASSUME NEW m \in RuleId, m \notin S
          PROVE  Life(m)' = Life(m)
      <4>1. Held(m)' = Held(m)
        BY <3>1, <3>4 DEF Held
      <4> QED
        BY <1>1, <4>1, LifeIs, LifeIsNext DEF LifeTable, LifeOf, Open, IsStaged
    <3> HIDE DEF S
    <3>5. /\ \A m \in S : Lives[m] = "cooling" /\ m \in Expired
          /\ Lives' = [m \in RuleId |-> IF m \in S THEN "lost" ELSE Lives[m]]
      BY <3>2, <3>3, <3>4 DEF Lives
    <3>6. Contract!Lose(S)
      BY <1>2, <3>5 DEF Contract!Lose, Lives, Expired, About
    <3> QED
      BY <3>2, <3>6
  <2> QED
    BY <2>2, <2>3
<1> QED
  BY <1>4, <1>5

\* The promotion of one record, or the loss of a rule a read-only kernel refuses.
LEMMA ContractApply ==
    ASSUME Inv, Inv', NEW t \in Chat, Apply(t)
    PROVE  \E n \in RuleId : Contract!Promote(n) \/ Contract!Lose({n})
<1>1. /\ chat \in [Chat -> ChatState] /\ chat[t] \in ChatState /\ chat[t].taken # {}
  BY DEF Inv, Fields, Apply
<1>2. PICK n \in RuleId : n = First(chat[t].taken) /\ n \in chat[t].taken
  BY <1>1, FirstIsIn DEF ChatState
<1>3. /\ Open(n) /\ rules[n].left = 0 /\ n \notin staged
      /\ \A u \in Chat : n \in chat[u].taken => u = t
  BY <1>2 DEF Inv, RecordsExpired
<1>4. /\ chat' = [chat EXCEPT ![t].taken = @ \ {n}]
      /\ IF kernel.readOnly
         THEN UNCHANGED <<kernel, fate>>
         ELSE /\ kernel' = [kernel EXCEPT !.rule[rules[n].commitment] = n]
              /\ fate' = [fate EXCEPT ![n] = "promoted"]
      /\ UNCHANGED <<rules, staged, shadow, queued, critical>>
  BY <1>2 DEF Apply
<1>5. \A u \in Chat : chat'[u].taken = IF u = t THEN chat[u].taken \ {n} ELSE chat[u].taken
  BY <1>1, <1>4 DEF ChatState
<1>6. UNCHANGED <<Expired, About>>
  BY <1>4 DEF Expired, About
<1>7. Life(n) = "cooling" /\ n \in Expired /\ n \in DOMAIN rules
  <2>1. Held(n)
    BY <1>2 DEF Held
  <2> QED
    BY <1>3, <2>1, LifeIs DEF LifeTable, LifeOf, Expired, Open, IsStaged
<1>8. ~Held(n)' /\ \A m \in RuleId : m # n => Held(m)' = Held(m)
  BY <1>3, <1>4, <1>5 DEF Held
<1>9. fate \in [RuleId -> {"none", "promoted", "rejected"}]
  BY DEF Inv, Fields
<1>10. \A m \in RuleId : m # n => Life(m)' = Life(m)
  BY <1>4, <1>8, <1>9, LifeIs, LifeIsNext DEF LifeTable, LifeOf, Open, IsStaged
<1>11. CASE kernel.readOnly
  <2>1. Life(n)' = "lost"
    BY <1>3, <1>4, <1>8, <1>11, LifeIsNext DEF LifeTable, LifeOf, Open, IsStaged
  <2>2. Lives' = [m \in RuleId |-> IF m \in {n} THEN "lost" ELSE Lives[m]] /\ Lives[n] = "cooling"
    BY <1>7, <1>10, <2>1 DEF Lives
  <2>3. UNCHANGED kernel
    BY <1>4, <1>11
  <2> QED
    BY <1>6, <1>7, <2>2, <2>3 DEF Contract!Lose, Lives, Expired, About
<1>12. CASE ~kernel.readOnly
  <2>1. fate'[n] = "promoted"
    BY <1>4, <1>9, <1>12
  <2>2. Life(n)' = "promoted"
    BY <1>3, <1>4, <2>1, LifeIsNext DEF LifeTable, LifeOf, Open, IsStaged
  <2>3. Lives' = [Lives EXCEPT ![n] = "promoted"] /\ Lives[n] = "cooling"
    BY <1>7, <1>10, <2>2 DEF Lives
  <2>4. kernel.rule' = [kernel.rule EXCEPT ![About[n]] = n]
    BY <1>4, <1>7, <1>12 DEF Inv, Fields, About
  <2> QED
    BY <1>6, <1>7, <2>3, <2>4 DEF Contract!Promote, Lives, Expired, About
<1> QED
  BY <1>11, <1>12

\* The provider call and the beginning of a shadow request are no step of the
\* contract.
LEMMA ContractServe ==
    ASSUME Inv, Inv',
           \/ \E t \in Chat :
                 \/ CallProvider(t) \/ ProviderFails(t)
                 \/ AnswerPlainly(t) \/ AnswerAndSubmit(t) \/ AnswerAfterShadow(t)
           \/ \E w \in Worker : BeginShadow(w)
    PROVE  UNCHANGED Seen
<1>1. UNCHANGED <<rules, staged, kernel, fate, critical>>
  BY DEF CallProvider, ProviderFails, AnswerPlainly, AnswerAndSubmit, AnswerAfterShadow,
         BeginShadow
<1>2. \A u \in Chat : chat'[u].taken = chat[u].taken
  <2>1. CASE \E w \in Worker : BeginShadow(w)
    BY <2>1 DEF BeginShadow
  <2>2. ASSUME NEW t \in Chat,
               \/ CallProvider(t) \/ ProviderFails(t)
               \/ AnswerPlainly(t) \/ AnswerAndSubmit(t) \/ AnswerAfterShadow(t)
        PROVE  \A u \in Chat : chat'[u].taken = chat[u].taken
    <3>1. /\ chat \in [Chat -> ChatState] /\ chat[t] \in ChatState
          /\ chat[t].taken = {}
      BY <2>2 DEF Inv, Fields, ChatsTidy, CallProvider, ProviderFails, AnswerPlainly,
                  AnswerAndSubmit, AnswerAfterShadow
    <3>2. \/ chat' = [chat EXCEPT ![t] = Resting]
          \/ \E pc \in {"idle", "serving", "shadowing"} : chat' = [chat EXCEPT ![t].pc = pc]
      BY <2>2 DEF CallProvider, ProviderFails, AnswerPlainly, AnswerAndSubmit, AnswerAfterShadow
    <3>3. chat'[t].taken = {} /\ \A u \in Chat : u # t => chat'[u] = chat[u]
      <4>1. CASE chat' = [chat EXCEPT ![t] = Resting]
        BY <3>1, <4>1 DEF Resting
      <4>2. ASSUME NEW pc \in {"idle", "serving", "shadowing"}, chat' = [chat EXCEPT ![t].pc = pc]
            PROVE  chat'[t].taken = {} /\ \A u \in Chat : u # t => chat'[u] = chat[u]
        BY <3>1, <4>2 DEF ChatState
      <4> QED
        BY <3>2, <4>1, <4>2
    <3> QED
      BY <3>1, <3>3
  <2> QED
    BY <2>1, <2>2
<1>3. \A n \in RuleId : Held(n)' = Held(n)
  BY <1>1, <1>2 DEF Held
<1>4. UNCHANGED <<Expired, About, kernel.rule>>
  BY <1>1 DEF Expired, About
<1> QED
  BY <1>1, <1>3, <1>4, LivesKept DEF Seen

\* The end of a shadow request rejects its rule, if it is critical and the rule is
\* still staged.
LEMMA ContractShadowEnds ==
    ASSUME Inv, Inv', NEW r \in Runner, ShadowEnds(r)
    PROVE  UNCHANGED Seen \/ \E n \in RuleId : Contract!Reject(n)
<1>1. /\ shadow[r] # 0
      /\ chat' = IF r \in Chat THEN [chat EXCEPT ![r] = Resting] ELSE chat
      /\ UNCHANGED <<rules, kernel>>
  BY DEF ShadowEnds, EndShadow, CriticalShadow, Over
<1>2. PICK n \in RuleId : n = shadow[r]
  BY <1>1, Numbers DEF Inv, Fields
<1>3. \A u \in Chat : chat'[u].taken = chat[u].taken
  BY <1>1 DEF Inv, Fields, ChatsTidy, Resting
<1>4. UNCHANGED <<Expired, About, kernel.rule>>
  BY <1>1 DEF Expired, About
<1>5. CASE UNCHANGED <<staged, fate>>
  <2>1. \A m \in RuleId : Held(m)' = Held(m)
    BY <1>3, <1>5 DEF Held
  <2> QED
    BY <1>1, <1>4, <1>5, <2>1, LivesKept DEF Seen
<1>6. CASE n \in staged /\ staged' = staged \ {n} /\ fate' = [fate EXCEPT ![n] = "rejected"]
  <2>1. Open(n) /\ Held(n) /\ fate \in [RuleId -> {"none", "promoted", "rejected"}]
    BY <1>6 DEF Inv, Fields, StagedOpen, Held
  <2>2. fate'[n] = "rejected" /\ \A m \in RuleId : m # n => fate'[m] = fate[m]
    BY <1>6, <2>1
  <2>3. Life(n) = "cooling" /\ Life(n)' = "rejected"
    BY <1>1, <2>1, <2>2, LifeIs, LifeIsNext DEF LifeTable, LifeOf, Open, IsStaged
  <2>4. \A m \in RuleId : m # n => Held(m)' = Held(m)
    BY <1>3, <1>6 DEF Held
  <2>5. \A m \in RuleId : m # n => Life(m)' = Life(m)
    BY <1>1, <2>2, <2>4, LifeIs, LifeIsNext DEF LifeTable, LifeOf, Open, IsStaged
  <2>6. Lives' = [Lives EXCEPT ![n] = "rejected"] /\ Lives[n] = "cooling"
    BY <2>3, <2>5 DEF Lives
  <2> QED
    BY <1>4, <2>6 DEF Contract!Reject, Lives, Expired, About
<1>7. \/ UNCHANGED <<staged, fate>>
      \/ n \in staged /\ staged' = staged \ {n} /\ fate' = [fate EXCEPT ![n] = "rejected"]
  BY <1>2 DEF ShadowEnds, EndShadow, CriticalShadow
<1> QED
  BY <1>5, <1>6, <1>7

LEMMA ContractTick ==
    ASSUME Inv, Inv', Tick
    PROVE  Contract!CoolDown
<1>1. UNCHANGED <<staged, kernel, chat, fate>>
  BY DEF Tick
<1>2. \A n \in RuleId : Held(n)' = Held(n)
  BY <1>1 DEF Held
<1>3. UNCHANGED Lives
  BY <1>1, <1>2, TickCools, LivesKept DEF Inv
<1>4. Expired \subseteq Expired' /\ Expired' \subseteq DOMAIN About /\ UNCHANGED About
  BY TickCools DEF Inv, Expired, About
<1> QED
  BY <1>1, <1>3, <1>4 DEF Contract!CoolDown, Lives, Expired, About

LEMMA ContractStep ==
    Inv /\ Inv' /\ [Next]_vars => [Contract!AbsNext]_(Contract!absVars)
<1> SUFFICES ASSUME Inv, Inv', [Next]_vars
             PROVE  Contract!AbsNext \/ UNCHANGED Contract!absVars
  OBVIOUS
<1>1. CASE UNCHANGED vars
  BY <1>1 DEF vars, Contract!absVars, Life
<1>2. CASE \E c \in Commitment : \/ Approve(c) \/ Decline(c)
                                 \/ \E d \in Cooldowns : Stage(c, d)
  BY <1>2, ContractEndorse DEF Contract!AbsNext
<1>3. CASE \E t \in Chat : BeginChat(t) \/ Delete(t)
  BY <1>3, ContractPromotable, SameSeen DEF Contract!AbsNext
<1>4. CASE \E t \in Chat : Apply(t)
  <2>1. PICK n \in RuleId : Contract!Promote(n) \/ Contract!Lose({n})
    BY <1>4, ContractApply
  <2> QED
    BY <2>1 DEF Contract!AbsNext
<1>5. CASE \/ \E t \in Chat :
                 \/ CallProvider(t) \/ ProviderFails(t)
                 \/ AnswerPlainly(t) \/ AnswerAndSubmit(t) \/ AnswerAfterShadow(t)
           \/ \E w \in Worker : BeginShadow(w)
  BY <1>5, ContractServe, SameSeen
<1>6. CASE \E r \in Runner : ShadowEnds(r)
  BY <1>6, ContractShadowEnds, SameSeen DEF Contract!AbsNext
<1>7. CASE Tick
  BY <1>7, ContractTick DEF Contract!AbsNext
<1> QED
  BY <1>1, <1>2, <1>3, <1>4, <1>5, <1>6, <1>7 DEF Next, ChatStep

----------------------------------------------------------------------------
(* The theorems                                                            *)

\* The records, the dictionary, the kernel and the threads stay within their types,
\* and a chat leaves its promotion loop with nothing in hand.
THEOREM TypeCorrect == Spec => []TypeOK
<1>1. Inv => TypeOK
  BY DEF Inv, TypeOK
<1> QED
  BY <1>1, Invariance, PTL

\* Whatever chats and background threads do to each other, a rule in force was
\* approved, or staged and promoted (endorsement/reflective.py, core/wrapper.py);
\* one that was rejected while it was staged is never in force.
THEOREM InForceWasDecided ==
    Spec => [](\A c \in Commitment :
                  kernel.rule[c] # 0 => Life(kernel.rule[c]) \in {"approved", "promoted"})
<1>1. Inv => \A c \in Commitment :
                kernel.rule[c] # 0 => Life(kernel.rule[c]) \in {"approved", "promoted"}
  <2> SUFFICES ASSUME Inv, NEW c \in Commitment, kernel.rule[c] # 0
               PROVE  Life(kernel.rule[c]) \in {"approved", "promoted"}
    OBVIOUS
  <2> DEFINE n == kernel.rule[c]
  <2>1. n \in DOMAIN rules /\ n \in RuleId
    BY Numbers DEF Inv, Fields
  <2>2. rules[n].decision = "approved" \/ fate[n] = "promoted"
    BY DEF Inv, InForceJustified
  <2>3. fate[n] # "none" => rules[n].decision = "staged"
    BY <2>1 DEF Inv, StagedOpen, IsStaged
  <2> HIDE DEF n
  <2>4. Life(n) \in {"approved", "promoted"}
    BY <2>1, <2>2, <2>3, LifeIs DEF LifeTable, LifeOf, IsStaged
  <2> QED
    BY <2>4 DEF n
<1> QED
  BY <1>1, Invariance, PTL

\* With chats one at a time and inline shadow requests, a rule whose shadow
\* request diverged critically never is in force (core/wrapper.py,
\* reject_staged of endorsement/reflective.py): no promotion comes in between.
THEOREM CriticalNeverInForce ==
    ASSUME OneChatInline PROVE Spec => []CriticalStaysOut
<1>1. SoloInv => CriticalStaysOut
  <2> SUFFICES ASSUME SoloInv, NEW c \in Commitment, kernel.rule[c] \in critical
               PROVE  FALSE
    BY DEF CriticalStaysOut
  <2> DEFINE n == kernel.rule[c]
  <2>1. n \in DOMAIN rules /\ n \in RuleId /\ n # 0 /\ fate[n] = "rejected"
    BY Numbers DEF SoloInv, Inv, Fields, Undisturbed
  <2>2. rules[n].decision = "approved" \/ fate[n] = "promoted"
    BY <2>1 DEF SoloInv, Inv, InForceJustified
  <2> HIDE DEF n
  <2> QED
    BY <2>1, <2>2 DEF SoloInv, Inv, StagedOpen, IsStaged
<1> QED
  BY <1>1, SoloInvariance, PTL

\* Under the same conditions every staged rule of a writable kernel is staged, in
\* the hands of the chat, promoted or rejected: no record is dropped between
\* get_promotable and the promotion.
THEOREM NoRuleIsLost ==
    ASSUME OneChatInline PROVE Spec => []NothingLost
<1>1. SoloInv => NothingLost
  <2> SUFFICES ASSUME SoloInv, ~kernel.readOnly, NEW n \in RuleId
               PROVE  Life(n) # "lost"
    BY DEF NothingLost
  <2>1. Inv
    BY DEF SoloInv
  <2>2. n \in DOMAIN rules => rules[n].decision # "lost"
    BY <2>1, Numbers DEF Inv, Rule
  <2>3. fate[n] # "lost"
    BY <2>1 DEF Inv, Fields
  <2>4. Open(n) => Held(n)
    BY DEF SoloInv, Undisturbed, Open, IsStaged, Held
  <2> QED
    BY <2>1, <2>2, <2>3, <2>4, LifeIs, Zenon DEF LifeTable, LifeOf, Open, IsStaged
<1> QED
  BY <1>1, SoloInvariance, PTL

\* Seen through what has become of its rules, the code keeps the contract of
\* AbstractApproval for any number of chats and background threads: a staged rule
\* comes into force at most once, only after its cooldown and never once it has
\* been rejected, and nothing but an approval or a promotion changes the kernel.
THEOREM ImplementsContract == Spec => KeepsContract
  BY Invariance, ContractInit, ContractStep, PTL DEF Spec, KeepsContract, Contract!AbsSpec
============================================================================
