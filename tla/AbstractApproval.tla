-------------------------- MODULE AbstractApproval --------------------------
(***************************************************************************)
(* What staged approval promises about the rules of a kernel, without      *)
(* chats, shadow requests and lists: a rule is decided once; a staged rule *)
(* comes into force at most once, when its cooldown is over, unless it is  *)
(* rejected or lost before.                                                *)
(***************************************************************************)
EXTENDS Naturals

CONSTANTS RuleId, Commitment

VARIABLES
    life,       \* what has become of each rule
    over,       \* the rules whose cooldown is over (or that have none)
    of,         \* the commitment a rule is about
    inForce     \* the rule in force for each commitment, 0 for none

absVars == <<life, over, of, inForce>>

AbsInit ==
    /\ life = [n \in RuleId |-> "new"]
    /\ over = {}
    /\ of = [n \in {} |-> 0]
    /\ inForce = [c \in Commitment |-> 0]

\* An approved rule is in force at once, whatever was in force before.
Decide(n, c, decision) ==
    /\ life[n] = "new"
    /\ life' = [life EXCEPT ![n] = decision]
    /\ of' = [m \in DOMAIN of \cup {n} |-> IF m = n THEN c ELSE of[m]]
    /\ over' \in {over, over \cup {n}}
    /\ inForce' = IF decision = "approved" THEN [inForce EXCEPT ![c] = n] ELSE inForce

Promote(n) ==
    /\ life[n] = "cooling" /\ n \in over
    /\ life' = [life EXCEPT ![n] = "promoted"]
    /\ inForce' = [inForce EXCEPT ![of[n]] = n]
    /\ UNCHANGED <<over, of>>

Reject(n) ==
    /\ life[n] = "cooling"
    /\ life' = [life EXCEPT ![n] = "rejected"]
    /\ UNCHANGED <<over, of, inForce>>

Lose(S) ==
    /\ \A n \in S : life[n] = "cooling" /\ n \in over
    /\ life' = [n \in RuleId |-> IF n \in S THEN "lost" ELSE life[n]]
    /\ UNCHANGED <<over, of, inForce>>

CoolDown ==
    /\ over \subseteq over' /\ over' \subseteq DOMAIN of
    /\ UNCHANGED <<life, of, inForce>>

AbsNext ==
    \/ \E n \in RuleId, c \in Commitment, d \in {"approved", "cooling", "declined"} :
          Decide(n, c, d)
    \/ \E n \in RuleId : Promote(n) \/ Reject(n)
    \/ \E S \in SUBSET RuleId : Lose(S)
    \/ CoolDown

AbsSpec == AbsInit /\ [][AbsNext]_absVars
============================================================================
