------------------------ MODULE ProvenanceLogProofs ------------------------
(***************************************************************************)
(* Theorems about ProvenanceLog.                                           *)
(*                                                                         *)
(* That the table only grows needs no hypothesis.  That the log never      *)
(* forks, and that it stays one chain while one agent writes it, needs one *)
(* writer at a time and a clock that moves forward between two readings;   *)
(* so does that verification raises no false alarm.  That it covers the    *)
(* table needs neither.                                                    *)
(* The run ProvenanceLogAgents shows why one agent is asked for; two log   *)
(* objects on one vault would link two rows to the same newest one.        *)
(***************************************************************************)
EXTENDS ProvenanceLog, FiniteSetTheorems, TLAPS

SoleWriter == \A i, j \in Instance : i = j
StrictlyForward == \A d \in ClockSteps : d > 0

----------------------------------------------------------------------------
(* Types                                                                   *)

LEMMA PlacesAreNumbers == rows \in Seq(Row) => DOMAIN rows \subseteq Nat \ {0}
OBVIOUS

\* The active rows are finitely many, so counting them yields a number.
LEMMA Countable ==
    ASSUME rows \in Seq(Row), NEW S \in SUBSET DOMAIN rows
    PROVE  IsFiniteSet(S) /\ Cardinality(S) \in Nat
<1>1. DOMAIN rows = 1 .. Len(rows) /\ Len(rows) \in Nat
  OBVIOUS
<1>2. IsFiniteSet(1 .. Len(rows))
  BY <1>1, FS_Interval
<1>3. IsFiniteSet(S)
  BY <1>1, <1>2, FS_Subset
<1> QED
  BY <1>3, FS_CardinalityType

\* Rolling back marks rows and leaves everything else of them in place.
LEMMA RollbackMarks ==
    ASSUME rows \in Seq(Row), NEW i \in Instance, NEW a \in Agent,
           NEW e \in DOMAIN rows, Rollback(i, a, e)
    PROVE  /\ rows' \in Seq(Row)
           /\ Len(rows') = Len(rows)
           /\ \A k \in DOMAIN rows :
                 rows'[k] = [rows[k] EXCEPT !.active = @ /\ k \notin Newer(a, e)]
<1>1. DOMAIN rows = 1 .. Len(rows) /\ Len(rows) \in Nat
  OBVIOUS
<1>2. ASSUME NEW k \in DOMAIN rows
      PROVE  /\ rows'[k] \in Row
             /\ rows'[k] = [rows[k] EXCEPT !.active = @ /\ k \notin Newer(a, e)]
  <2>1. rows[k] \in Row
    OBVIOUS
  <2>2. rows'[k] = IF k \in Newer(a, e) THEN [rows[k] EXCEPT !.active = FALSE] ELSE rows[k]
    BY DEF Rollback
  <2> QED
    BY <2>1, <2>2 DEF Row
<1>3. DOMAIN rows' = DOMAIN rows /\ rows' = [k \in 1 .. Len(rows) |-> rows'[k]]
  BY <1>1 DEF Rollback
<1>4. rows' \in Seq(Row)
  BY <1>1, <1>2, <1>3
<1> QED
  BY <1>1, <1>2, <1>3, <1>4

LEMMA TypeStep == LogAssumption /\ TypeOK /\ [Next]_vars => TypeOK'
<1> SUFFICES ASSUME LogAssumption, TypeOK, [Next]_vars
             PROVE  TypeOK'
  OBVIOUS
<1>1. ASSUME NEW i \in Instance, Prepare(i)
      PROVE  TypeOK'
  <2>1. PICK prev \in Newest, d \in ClockSteps :
          /\ clock' = clock + d
          /\ pending' = [pending EXCEPT
                            ![i] = [prev |-> prev, ts |-> clock + d, busy |-> TRUE]]
    BY <1>1 DEF Prepare
  <2>2. prev \in Nat
    BY PlacesAreNumbers DEF Newest, Active, TypeOK
  <2>3. clock + d \in Int
    BY DEF LogAssumption, TypeOK
  <2> QED
    BY <1>1, <2>1, <2>2, <2>3 DEF Prepare, TypeOK, Prepared
<1>2. ASSUME NEW i \in Instance, NEW a \in Agent, Insert(i, a)
      PROVE  TypeOK'
  <2>1. [agent |-> a, ts |-> pending[i].ts, prev |-> pending[i].prev, active |-> TRUE] \in Row
    BY DEF TypeOK, Prepared, Row
  <2>2. Idle \in Prepared
    BY DEF Idle, Prepared
  <2> QED
    BY <1>2, <2>1, <2>2 DEF Insert, TypeOK
<1>3. ASSUME NEW i \in Instance, InsertFails(i)
      PROVE  TypeOK'
  BY <1>3 DEF InsertFails, TypeOK, Idle, Prepared
<1>4. ASSUME NEW i \in Instance, NEW a \in Agent, NEW e \in DOMAIN rows, Rollback(i, a, e)
      PROVE  TypeOK'
  <2>1. rows' \in Seq(Row)
    BY <1>4, RollbackMarks DEF TypeOK
  <2>2. \E u \in BOOLEAN : /\ verifier' = [verifier EXCEPT !.clean = @ /\ u]
                           /\ checkpoint' = [checkpoint EXCEPT !.clean = @ /\ u]
    BY <1>4 DEF Rollback
  <2>3. verifier' \in Verifier /\ checkpoint' \in Checkpoint
    BY <2>2 DEF TypeOK, Verifier, Checkpoint
  <2> QED
    BY <1>4, <2>1, <2>3 DEF Rollback, TypeOK
<1>5. ASSUME NEW from \in Checkpoint, StartVerify(from)
      PROVE  TypeOK'
  <2>1. Cardinality(Active) \in Nat
    BY Countable DEF Active, TypeOK
  <2> QED
    BY <1>5, <2>1 DEF StartVerify, TypeOK, Verifier, Checkpoint
<1>6. ASSUME NEW i \in Instance, VerifyPage(i)
      PROVE  TypeOK'
  <2>1. Cardinality(Page) \in Nat
    BY Countable DEF Page, Active, TypeOK
  <2>2. verifier' \in Verifier
    <3>1. CASE verifier' = [verifier EXCEPT !.phase = "valid"]
      BY <3>1 DEF TypeOK, Verifier
    <3>2. CASE verifier' = [verifier EXCEPT !.phase = "broken"]
      BY <3>2 DEF TypeOK, Verifier
    <3>3. ASSUME NEW last \in Page,
                 verifier' = [verifier EXCEPT !.phase = IF LastPage THEN "valid" ELSE @,
                                              !.offset = @ + Cardinality(Page),
                                              !.expected = last]
          PROVE  verifier' \in Verifier
      <4>1. last \in Nat
        BY PlacesAreNumbers DEF Page, Active, TypeOK
      <4>2. verifier \in Verifier
        BY DEF TypeOK
      <4>3. verifier.offset + Cardinality(Page) \in Nat
        BY <2>1, <4>2 DEF Verifier
      <4>4. (IF LastPage THEN "valid" ELSE verifier.phase)
               \in {"idle", "running", "valid", "broken"}
        BY <4>2 DEF Verifier
      <4> QED
        BY <3>3, <4>1, <4>2, <4>3, <4>4 DEF Verifier
    <3> QED
      BY <1>6, <3>1, <3>2, <3>3 DEF VerifyPage
  <2> QED
    BY <1>6, <2>2 DEF VerifyPage, TypeOK
<1>7. CASE KeepCheckpoint
  BY <1>7 DEF KeepCheckpoint, TypeOK, Verifier, Checkpoint, NoVerifier
<1>8. CASE EndVerify
  BY <1>8 DEF EndVerify, TypeOK, Verifier, NoVerifier
<1>9. CASE UNCHANGED vars
  BY <1>9 DEF vars, TypeOK
<1>10. NoCheckpoint \in Checkpoint /\ checkpoint \in Checkpoint
  BY DEF NoCheckpoint, Checkpoint, TypeOK
<1> QED
  BY <1>1, <1>2, <1>3, <1>4, <1>5, <1>6, <1>7, <1>8, <1>9, <1>10 DEF Next

LEMMA TypeInit == Init => TypeOK
BY DEF Init, TypeOK, Idle, Prepared, NoVerifier, Verifier, NoCheckpoint, Checkpoint

\* Every variable keeps its type: page offsets and row counts stay numbers.
THEOREM TypeCorrect == Spec => []TypeOK
BY LogAssumption, TypeInit, TypeStep, PTL DEF Spec

----------------------------------------------------------------------------
(* The table only grows                                                    *)

Kept(k) ==
    /\ [rows'[k] EXCEPT !.active = TRUE] = [rows[k] EXCEPT !.active = TRUE]
    /\ rows'[k].active => rows[k].active

\* No step removes, reorders or rewrites a row of the log, whatever the
\* objects, agents, clock and verifications do.
THEOREM OnlyAppends == Spec => AppendOnly
<1>1. ASSUME TypeOK, [Next]_vars
      PROVE  Len(rows') >= Len(rows) /\ \A k \in DOMAIN rows : Kept(k)
  <2>0. rows \in Seq(Row) /\ DOMAIN rows = 1 .. Len(rows) /\ Len(rows) \in Nat
    BY <1>1 DEF TypeOK
  <2>1. CASE UNCHANGED rows
    BY <2>0, <2>1 DEF Kept
  <2>2. ASSUME NEW i \in Instance, NEW a \in Agent, Insert(i, a)
        PROVE  Len(rows') >= Len(rows) /\ \A k \in DOMAIN rows : Kept(k)
    <3> DEFINE new == [agent  |-> a,
                       ts     |-> pending[i].ts,
                       prev   |-> pending[i].prev,
                       active |-> TRUE]
    <3>1. rows' = Append(rows, new)
      BY <2>2 DEF Insert
    <3>2. Len(rows') = Len(rows) + 1 /\ \A k \in DOMAIN rows : rows'[k] = rows[k]
      BY <2>0, <3>1
    <3>3. \A k \in DOMAIN rows : Kept(k)
      BY <3>2, Zenon DEF Kept
    <3> QED
      BY <2>0, <3>2, <3>3
  <2>3. ASSUME NEW i \in Instance, NEW a \in Agent, NEW e \in DOMAIN rows, Rollback(i, a, e)
        PROVE  Len(rows') >= Len(rows) /\ \A k \in DOMAIN rows : Kept(k)
    <3>1. \A k \in DOMAIN rows :
             /\ rows[k] \in Row
             /\ rows'[k] = [rows[k] EXCEPT !.active = @ /\ k \notin Newer(a, e)]
      BY <2>0, <2>3, RollbackMarks
    <3>2. ASSUME NEW k \in DOMAIN rows
          PROVE  Kept(k)
      BY <3>1 DEF Kept, Row
    <3> QED
      BY <2>0, <2>3, <3>2, RollbackMarks
  <2> QED
    BY <1>1, <2>1, <2>2, <2>3
       DEF Next, vars, Prepare, InsertFails, StartVerify, VerifyPage, KeepCheckpoint, EndVerify
<1>2. TypeOK /\ [Next]_vars =>
        [/\ Len(rows') >= Len(rows)
         /\ \A i \in DOMAIN rows :
               /\ [rows'[i] EXCEPT !.active = TRUE] = [rows[i] EXCEPT !.active = TRUE]
               /\ rows'[i].active => rows[i].active]_vars
  BY <1>1 DEF Kept
<1> QED
  BY <1>2, TypeCorrect, PTL DEF Spec, AppendOnly

----------------------------------------------------------------------------
(* The log never forks                                                     *)

\* Insertion order and timestamp order agree, and no timestamp is in the future.
Increasing ==
    /\ \A j, k \in DOMAIN rows : j < k => rows[j].ts < rows[k].ts
    /\ \A k \in DOMAIN rows : rows[k].ts <= clock

\* Every row refers to an earlier row, an active one to a row no older than
\* the active row before it.
Anchored ==
    \A k \in DOMAIN rows :
        /\ rows[k].prev < k
        /\ rows[k].active => \A j \in Active : j < k => j <= rows[k].prev

\* So will the row that a record call has prepared.
PreparedFresh ==
    \A i \in Instance : pending[i].busy =>
        /\ pending[i].ts <= clock
        /\ pending[i].prev <= Len(rows)
        /\ \A k \in DOMAIN rows : rows[k].ts < pending[i].ts
        /\ \A j \in Active : j <= pending[i].prev

ForkInv == TypeOK /\ Increasing /\ Anchored /\ PreparedFresh

LEMMA ForkInit == Init => ForkInv
BY TypeInit DEF Init, ForkInv, Increasing, Anchored, PreparedFresh, Idle, Active

LEMMA ForkStep ==
    ASSUME LogAssumption, SoleWriter, StrictlyForward, ForkInv, [Next]_vars
    PROVE  ForkInv'
<1>0. /\ TypeOK /\ TypeOK' /\ Increasing /\ Anchored /\ PreparedFresh
      /\ rows \in Seq(Row) /\ DOMAIN rows = 1 .. Len(rows) /\ Len(rows) \in Nat
      /\ clock \in Int /\ pending \in [Instance -> Prepared]
  BY TypeStep DEF ForkInv, TypeOK
<1>1. \A k \in DOMAIN rows : rows[k] \in Row
  BY <1>0
<1>2. ASSUME NEW i \in Instance, Prepare(i)
      PROVE  Increasing' /\ Anchored' /\ PreparedFresh'
  <2>1. PICK prev \in Newest, d \in ClockSteps :
          /\ clock' = clock + d
          /\ pending' = [pending EXCEPT
                            ![i] = [prev |-> prev, ts |-> clock + d, busy |-> TRUE]]
    BY <1>2 DEF Prepare
  <2>2. d \in Int /\ d > 0 /\ rows' = rows /\ clock' > clock
    BY <1>0, <1>2, <2>1 DEF LogAssumption, StrictlyForward, Prepare
  <2>3. Increasing'
    BY <1>0, <1>1, <2>1, <2>2 DEF Increasing, Row
  <2>4. Anchored'
    BY <1>0, <2>2 DEF Anchored, Active
  <2>5. prev <= Len(rows) /\ \A j \in Active : j <= prev
    <3>1. CASE Active = {}
      BY <1>0, <3>1 DEF Newest
    <3>2. CASE Active # {}
      <4>1. prev \in Active /\ \A j \in Active : rows[j].ts <= rows[prev].ts
        BY <3>2 DEF Newest
      <4>2. prev \in DOMAIN rows
        BY <4>1 DEF Active
      <4>3. ASSUME NEW j \in Active, prev < j
            PROVE  FALSE
        <5>1. j \in DOMAIN rows
          BY DEF Active
        <5>2. rows[prev].ts < rows[j].ts
          BY <1>0, <4>2, <4>3, <5>1 DEF Increasing
        <5> QED
          BY <1>1, <4>1, <4>2, <5>1, <5>2 DEF Row
      <4> QED
        BY <1>0, <4>2, <4>3 DEF Active
    <3> QED
      BY <3>1, <3>2
  <2>6. PreparedFresh'
    <3> SUFFICES ASSUME NEW i2 \in Instance, pending'[i2].busy
                 PROVE  /\ pending'[i2].ts <= clock'
                        /\ pending'[i2].prev <= Len(rows')
                        /\ \A k \in DOMAIN rows' : rows'[k].ts < pending'[i2].ts
                        /\ \A j \in Active' : j <= pending'[i2].prev
      BY DEF PreparedFresh
    <3>1. i2 = i
      BY DEF SoleWriter
    <3>2. pending'[i2] = [prev |-> prev, ts |-> clock + d, busy |-> TRUE]
      BY <1>0, <2>1, <3>1
    <3>3. \A k \in DOMAIN rows : rows[k].ts < clock + d
      BY <1>0, <1>1, <2>2 DEF Increasing, Row
    <3> QED
      BY <1>0, <2>1, <2>2, <2>5, <3>2, <3>3 DEF Active
  <2> QED
    BY <2>3, <2>4, <2>6
<1>3. ASSUME NEW i \in Instance, NEW a \in Agent, Insert(i, a)
      PROVE  Increasing' /\ Anchored' /\ PreparedFresh'
  <2> DEFINE new == [agent  |-> a,
                     ts     |-> pending[i].ts,
                     prev   |-> pending[i].prev,
                     active |-> TRUE]
             n == Len(rows) + 1
  <2>1. rows' = Append(rows, new) /\ clock' = clock /\ pending' = [pending EXCEPT ![i] = Idle]
    BY <1>3 DEF Insert
  <2>2. /\ DOMAIN rows' = DOMAIN rows \cup {n}
        /\ rows'[n] = new
        /\ \A k \in DOMAIN rows : rows'[k] = rows[k] /\ k < n /\ k \in Nat
    BY <1>0, <2>1
  <2>3. /\ pending[i].ts <= clock /\ pending[i].prev <= Len(rows)
        /\ \A k \in DOMAIN rows : rows[k].ts < pending[i].ts
        /\ \A j \in Active : j <= pending[i].prev
    BY <1>0, <1>3 DEF PreparedFresh, Insert
  <2>4. Active' = Active \cup {n} /\ Active \subseteq DOMAIN rows
    BY <2>2 DEF Active
  <2>5. Increasing'
    BY <1>0, <2>1, <2>2, <2>3 DEF Increasing
  <2>6. Anchored'
    <3> SUFFICES ASSUME NEW k \in DOMAIN rows'
                 PROVE  /\ rows'[k].prev < k
                        /\ rows'[k].active =>
                              \A j \in Active' : j < k => j <= rows'[k].prev
      BY DEF Anchored
    <3>1. CASE k = n
      <4>1. rows'[k].prev = pending[i].prev /\ pending[i].prev \in Nat
        BY <1>0, <2>2, <3>1 DEF Prepared
      <4> QED
        BY <1>0, <2>3, <2>4, <3>1, <4>1
    <3>2. CASE k \in DOMAIN rows
      BY <1>0, <2>2, <2>4, <3>2 DEF Anchored
    <3> QED
      BY <2>2, <3>1, <3>2
  <2>7. PreparedFresh'
    BY <1>0, <2>1 DEF PreparedFresh, SoleWriter, Idle
  <2> QED
    BY <2>5, <2>6, <2>7
<1>4. ASSUME NEW i \in Instance, InsertFails(i)
      PROVE  Increasing' /\ Anchored' /\ PreparedFresh'
  BY <1>0, <1>4 DEF InsertFails, Increasing, Anchored, PreparedFresh, Active, SoleWriter, Idle
<1>5. ASSUME NEW i \in Instance, NEW a \in Agent, NEW e \in DOMAIN rows, Rollback(i, a, e)
      PROVE  Increasing' /\ Anchored' /\ PreparedFresh'
  <2>1. /\ Len(rows') = Len(rows) /\ DOMAIN rows' = DOMAIN rows
        /\ clock' = clock /\ pending' = pending
    BY <1>0, <1>5, RollbackMarks DEF Rollback
  <2>2. \A k \in DOMAIN rows : /\ rows'[k].ts = rows[k].ts
                               /\ rows'[k].prev = rows[k].prev
                               /\ rows'[k].active => rows[k].active
    <3>1. \A k \in DOMAIN rows :
             rows'[k] = [rows[k] EXCEPT !.active = @ /\ k \notin Newer(a, e)]
      BY <1>0, <1>5, RollbackMarks
    <3>2. ASSUME NEW k \in DOMAIN rows
          PROVE  /\ rows'[k].ts = rows[k].ts
                 /\ rows'[k].prev = rows[k].prev
                 /\ rows'[k].active => rows[k].active
      BY <1>1, <3>1 DEF Row
    <3> QED
      BY <3>2
  <2>3. Active' \subseteq Active
    BY <2>1, <2>2 DEF Active
  <2> QED
    BY <1>0, <2>1, <2>2, <2>3 DEF Increasing, Anchored, PreparedFresh
<1>6. CASE UNCHANGED <<rows, clock, pending>>
  BY <1>0, <1>6 DEF ForkInv, Increasing, Anchored, PreparedFresh, Active
<1> QED
  BY <1>0, <1>2, <1>3, <1>4, <1>5, <1>6
     DEF ForkInv, Next, vars, StartVerify, VerifyPage, KeepCheckpoint, EndVerify

\* With one log object and a clock that moves forward, the log never forks,
\* for any number of agents and whatever they roll back.
THEOREM NeverForks ==
    ASSUME SoleWriter, StrictlyForward
    PROVE  Spec => []NoFork
<1>1. ForkInv => NoFork
  <2> SUFFICES ASSUME ForkInv,
                      NEW j \in Active, NEW k \in Active, rows[j].prev = rows[k].prev, j < k
               PROVE  FALSE
    BY DEF ForkInv, TypeOK, NoFork, Active
  <2>1. j \in DOMAIN rows /\ k \in DOMAIN rows /\ rows[k].active
    BY DEF Active
  <2>2. rows[j].prev < j /\ j <= rows[k].prev
    BY <2>1 DEF ForkInv, Anchored
  <2>3. j \in Nat /\ rows[j].prev \in Nat
    <3>1. rows \in Seq(Row)
      BY DEF ForkInv, TypeOK
    <3>2. rows[j] \in Row
      BY <2>1, <3>1
    <3> QED
      BY <2>1, <3>1, <3>2, PlacesAreNumbers DEF Row
  <2> QED
    BY <2>2, <2>3
<1>2. ForkInv /\ [Next]_vars => ForkInv'
  BY ForkStep, LogAssumption
<1> QED
  BY <1>1, <1>2, ForkInit, PTL DEF Spec

----------------------------------------------------------------------------
(* The active rows stay one chain                                          *)

\* An active row refers to the genesis hash or to an active row, and so will
\* the row that a record call has prepared.
Rooted ==
    /\ \A k \in Active : rows[k].prev = 0 \/ rows[k].prev \in Active
    /\ \A i \in Instance : pending[i].busy =>
          pending[i].prev = 0 \/ pending[i].prev \in Active

ChainInv == ForkInv /\ (SoleAgent => Rooted)

\* A log that one agent has written so far was written by one agent before.
LEMMA SoleAgentBefore ==
    ASSUME TypeOK, [Next]_vars, SoleAgent'
    PROVE  SoleAgent
<1>0. rows \in Seq(Row) /\ DOMAIN rows = 1 .. Len(rows) /\ Len(rows) \in Nat
  BY DEF TypeOK
<1>1. CASE UNCHANGED rows
  BY <1>1 DEF SoleAgent
<1>2. ASSUME NEW i \in Instance, NEW a \in Agent, Insert(i, a)
      PROVE  SoleAgent
  <2>1. DOMAIN rows \subseteq DOMAIN rows' /\ \A k \in DOMAIN rows : rows'[k] = rows[k]
    BY <1>0, <1>2 DEF Insert
  <2> QED
    BY <2>1 DEF SoleAgent
<1>3. ASSUME NEW i \in Instance, NEW a \in Agent, NEW e \in DOMAIN rows, Rollback(i, a, e)
      PROVE  SoleAgent
  <2>1. \A k \in DOMAIN rows :
           /\ rows[k] \in Row
           /\ rows'[k] = [rows[k] EXCEPT !.active = @ /\ k \notin Newer(a, e)]
    BY <1>0, <1>3, RollbackMarks
  <2>2. \A k \in DOMAIN rows : rows'[k].agent = rows[k].agent
    BY <2>1 DEF Row
  <2>3. DOMAIN rows' = DOMAIN rows
    BY <1>0, <1>3, RollbackMarks
  <2> QED
    BY <2>2, <2>3 DEF SoleAgent
<1> QED
  BY <1>1, <1>2, <1>3
     DEF Next, vars, Prepare, InsertFails, StartVerify, VerifyPage, KeepCheckpoint, EndVerify

LEMMA ChainStep ==
    ASSUME LogAssumption, SoleWriter, StrictlyForward, ChainInv, [Next]_vars
    PROVE  ChainInv'
<1> SUFFICES ASSUME SoleAgent'
             PROVE  Rooted'
  BY ForkStep DEF ChainInv
<1>0. /\ SoleAgent /\ ForkInv /\ ForkInv' /\ Rooted /\ rows \in Seq(Row)
      /\ DOMAIN rows = 1 .. Len(rows) /\ Len(rows) \in Nat
      /\ pending \in [Instance -> Prepared]
  BY ForkStep, SoleAgentBefore DEF ChainInv, ForkInv, TypeOK
<1>1. \A k \in DOMAIN rows : rows[k] \in Row
  BY <1>0
<1>2. ASSUME NEW i \in Instance, Prepare(i)
      PROVE  Rooted'
  <2>1. PICK prev \in Newest, d \in ClockSteps :
          pending' = [pending EXCEPT
                         ![i] = [prev |-> prev, ts |-> clock + d, busy |-> TRUE]]
    BY <1>2 DEF Prepare
  <2>2. prev = 0 \/ prev \in Active
    BY DEF Newest
  <2>3. rows' = rows /\ Active' = Active
    BY <1>2 DEF Prepare, Active
  <2>4. ASSUME NEW i2 \in Instance
        PROVE  pending'[i2].prev = prev
    BY <1>0, <2>1 DEF SoleWriter
  <2> QED
    BY <1>0, <2>2, <2>3, <2>4 DEF Rooted
<1>3. ASSUME NEW i \in Instance, NEW a \in Agent, Insert(i, a)
      PROVE  Rooted'
  <2> DEFINE new == [agent  |-> a,
                     ts     |-> pending[i].ts,
                     prev   |-> pending[i].prev,
                     active |-> TRUE]
             n == Len(rows) + 1
  <2>1. rows' = Append(rows, new) /\ pending' = [pending EXCEPT ![i] = Idle]
    BY <1>3 DEF Insert
  <2>2. /\ DOMAIN rows' = DOMAIN rows \cup {n}
        /\ rows'[n] = new
        /\ \A k \in DOMAIN rows : rows'[k] = rows[k] /\ k # n
    BY <1>0, <2>1
  <2>3. Active' = Active \cup {n} /\ Active \subseteq DOMAIN rows
    BY <2>2 DEF Active
  <2>4. pending[i].prev = 0 \/ pending[i].prev \in Active
    BY <1>0, <1>3 DEF Rooted, Insert
  <2>5. ASSUME NEW i2 \in Instance
        PROVE  ~pending'[i2].busy
    BY <1>0, <2>1 DEF SoleWriter, Idle
  <2>6. ASSUME NEW k \in Active'
        PROVE  rows'[k].prev = 0 \/ rows'[k].prev \in Active'
    <3>1. CASE k = n
      BY <2>2, <2>3, <2>4, <3>1
    <3>2. CASE k \in Active
      BY <1>0, <2>2, <2>3, <3>2 DEF Rooted
    <3> QED
      BY <2>3, <3>1, <3>2
  <2> QED
    BY <2>5, <2>6 DEF Rooted
<1>4. ASSUME NEW i \in Instance, InsertFails(i)
      PROVE  Rooted'
  BY <1>0, <1>4 DEF InsertFails, Rooted, Active, Idle, SoleWriter
<1>5. ASSUME NEW i \in Instance, NEW a \in Agent, NEW e \in DOMAIN rows, Rollback(i, a, e)
      PROVE  Rooted'
  <2>1. \A k \in DOMAIN rows :
           rows'[k] = [rows[k] EXCEPT !.active = @ /\ k \notin Newer(a, e)]
    BY <1>0, <1>5, RollbackMarks
  <2>2. DOMAIN rows' = DOMAIN rows
    BY <1>0, <1>5, RollbackMarks
  <2>3. ASSUME NEW k \in DOMAIN rows
        PROVE  /\ rows'[k].prev = rows[k].prev
               /\ rows'[k].active <=> rows[k].active /\ k \notin Newer(a, e)
    BY <1>1, <2>1 DEF Row
  <2>4. \A k \in DOMAIN rows : k \in Newer(a, e) <=> rows[k].ts > rows[e].ts
    BY <1>0, <1>5 DEF Newer, SoleAgent, Rollback
  <2>5. Active' = {k \in Active : ~(rows[k].ts > rows[e].ts)}
    BY <2>2, <2>3, <2>4 DEF Active
  <2>6. ASSUME NEW k \in Active', rows'[k].prev # 0
        PROVE  rows'[k].prev \in Active'
    <3>1. k \in Active /\ k \in DOMAIN rows /\ ~(rows[k].ts > rows[e].ts)
      BY <2>5 DEF Active
    <3>2. rows'[k].prev = rows[k].prev /\ rows[k].prev \in Active
      BY <1>0, <2>3, <2>6, <3>1 DEF Rooted
    <3>3. rows[k].prev \in DOMAIN rows /\ rows[k].prev < k
      BY <1>0, <3>1, <3>2 DEF Active, ForkInv, Anchored
    <3>4. rows[rows[k].prev].ts < rows[k].ts
      BY <1>0, <3>1, <3>3 DEF ForkInv, Increasing
    <3>5. rows[rows[k].prev].ts \in Int /\ rows[k].ts \in Int /\ rows[e].ts \in Int
      BY <1>1, <3>1, <3>3 DEF Row
    <3> QED
      BY <2>5, <3>1, <3>2, <3>4, <3>5
  <2>7. \A i2 \in Instance : ~pending'[i2].busy
    BY <1>5 DEF SoleWriter, Rollback
  <2> QED
    BY <2>6, <2>7 DEF Rooted
<1>6. CASE UNCHANGED <<rows, pending>>
  BY <1>0, <1>6 DEF ChainInv, Rooted, Active
<1> QED
  BY <1>0, <1>2, <1>3, <1>4, <1>5, <1>6
     DEF ChainInv, Next, vars, StartVerify, VerifyPage, KeepCheckpoint, EndVerify

\* What the invariant says of rows by number, said of the listing by timestamp.
LEMMA ChainInvIntact == ChainInv => ChainIntact
<1> SUFFICES ASSUME ChainInv, SoleAgent, NEW j \in Active
             PROVE  \/ /\ rows[j].prev = 0
                       /\ \A k \in Active : ~Before(k, j)
                    \/ /\ rows[j].prev \in Active
                       /\ Before(rows[j].prev, j)
                       /\ \A k \in Active : Before(k, j) =>
                              k = rows[j].prev \/ Before(k, rows[j].prev)
  BY DEF ChainIntact
<1>0. rows \in Seq(Row) /\ Increasing /\ Anchored /\ Active \subseteq DOMAIN rows
  BY DEF ChainInv, ForkInv, TypeOK, Active
<1>1. \A k \in DOMAIN rows : k \in Nat \ {0} /\ rows[k] \in Row
  BY <1>0, PlacesAreNumbers
<1>2. \A k, l \in DOMAIN rows : Before(k, l) <=> k < l
  <2> SUFFICES ASSUME NEW k \in DOMAIN rows, NEW l \in DOMAIN rows
               PROVE  Before(k, l) <=> k < l
    OBVIOUS
  <2>1. rows[k].ts \in Int /\ rows[l].ts \in Int /\ k \in Nat /\ l \in Nat
    BY <1>1 DEF Row
  <2>2. (k < l => rows[k].ts < rows[l].ts) /\ (l < k => rows[l].ts < rows[k].ts)
    BY <1>0 DEF Increasing
  <2> QED
    BY <2>1, <2>2 DEF Before
<1>3. /\ rows[j].prev < j
      /\ \A k \in Active : k < j => k <= rows[j].prev
  BY <1>0 DEF Anchored, Active
<1>4. CASE rows[j].prev = 0
  BY <1>0, <1>1, <1>2, <1>3, <1>4
<1>5. CASE rows[j].prev \in Active
  <2>1. Before(rows[j].prev, j)
    BY <1>0, <1>2, <1>3, <1>5
  <2>2. ASSUME NEW k \in Active, Before(k, j)
        PROVE  k = rows[j].prev \/ Before(k, rows[j].prev)
    BY <1>0, <1>1, <1>2, <1>3, <1>5, <2>2
  <2> QED
    BY <1>5, <2>1, <2>2
<1> QED
  BY <1>4, <1>5 DEF ChainInv, Rooted

\* With one log object and a clock that moves forward, and as long as one agent
\* writes the log, the active rows form one chain from the genesis hash, through
\* any sequence of appends, failed appends and rollbacks.
THEOREM StaysOneChain ==
    ASSUME SoleWriter, StrictlyForward
    PROVE  Spec => []ChainIntact
<1>1. ChainInv => ChainIntact
  BY ChainInvIntact
<1>2. Init => ChainInv
  BY ForkInit DEF Init, ChainInv, Rooted, Active, Idle
<1>3. ChainInv /\ [Next]_vars => ChainInv'
  BY ChainStep, LogAssumption
<1> QED
  BY <1>1, <1>2, <1>3, PTL DEF Spec
----------------------------------------------------------------------------
(* The listing of active rows, which the pages count through               *)

Ahead(i) == {j \in Active : Before(j, i)}

\* ORDER BY timestamp, and insertion order among equals, is a total order.
LEMMA ListingTotal ==
    ASSUME TypeOK, NEW i \in Active, NEW j \in Active
    PROVE  /\ ~Before(i, i)
           /\ i # j => Before(i, j) \/ Before(j, i)
           /\ \A k \in Active : Before(k, i) /\ Before(i, j) => Before(k, j)
<1>1. \A k \in Active : k \in Nat /\ rows[k].ts \in Int
  <2>1. rows \in Seq(Row)
    BY DEF TypeOK
  <2>2. \A k \in DOMAIN rows : k \in Nat /\ rows[k] \in Row
    BY <2>1
  <2> QED
    BY <2>2 DEF Active, Row
<1> QED
  BY <1>1 DEF Before

LEMMA ActiveFinite ==
    ASSUME TypeOK, NEW S \in SUBSET Active
    PROVE  IsFiniteSet(S) /\ Cardinality(S) \in Nat
BY Countable DEF TypeOK, Active

LEMMA RankBounds ==
    ASSUME TypeOK, NEW i \in Active
    PROVE  /\ Rank(i) = Cardinality(Ahead(i))
           /\ Rank(i) \in Nat
           /\ Rank(i) < Cardinality(Active)
<1>1. Ahead(i) \in SUBSET Active /\ Ahead(i) # Active
  BY ListingTotal DEF Ahead
<1>2. Rank(i) = Cardinality(Ahead(i))
  BY DEF Rank, Ahead
<1>3. /\ IsFiniteSet(Active) /\ Cardinality(Active) \in Nat
      /\ Cardinality(Ahead(i)) \in Nat
  BY <1>1, ActiveFinite
<1>4. Cardinality(Ahead(i)) <= Cardinality(Active) /\ Cardinality(Ahead(i)) # Cardinality(Active)
  BY <1>1, <1>3, FS_Subset
<1> QED
  BY <1>2, <1>3, <1>4

\* A row further down the listing has a higher rank.
LEMMA RankGrows ==
    ASSUME TypeOK, NEW i \in Active, NEW j \in Active, Before(i, j)
    PROVE  Rank(i) < Rank(j)
<1>1. Ahead(i) \in SUBSET Ahead(j) /\ Ahead(i) # Ahead(j)
  BY ListingTotal DEF Ahead
<1>2. Ahead(j) \in SUBSET Active
  BY DEF Ahead
<1>3. IsFiniteSet(Ahead(j)) /\ Cardinality(Ahead(j)) \in Nat
  BY <1>2, ActiveFinite
<1>4. Cardinality(Ahead(i)) <= Cardinality(Ahead(j)) /\ Cardinality(Ahead(i)) # Cardinality(Ahead(j))
  BY <1>1, <1>3, FS_Subset
<1> QED
  BY <1>3, <1>4, RankBounds

LEMMA RankInjective ==
    ASSUME TypeOK, NEW i \in Active, NEW j \in Active, Rank(i) = Rank(j)
    PROVE  i = j
<1>1. ~Before(i, j) /\ ~Before(j, i)
  BY RankGrows, RankBounds
<1> QED
  BY <1>1, ListingTotal

LEMMA IntervalSize ==
    ASSUME NEW a \in Nat, NEW b \in Int, a <= b + 1
    PROVE  IsFiniteSet(a .. b) /\ Cardinality(a .. b) = b - a + 1
<1>1. a \in Int
  OBVIOUS
<1>2. IsFiniteSet(a .. b) /\ Cardinality(a .. b) = IF a > b THEN 0 ELSE b - a + 1
  BY <1>1, FS_Interval
<1>3. a > b => b - a + 1 = 0
  OBVIOUS
<1> QED
  BY <1>2, <1>3

\* The ranks have no gap.
LEMMA EveryRankTaken ==
    ASSUME TypeOK, NEW r \in Nat, r < Cardinality(Active)
    PROVE  \E i \in Active : Rank(i) = r
<1> DEFINE n == Cardinality(Active)
           T == 0 .. n - 1
           f == [i \in Active |-> Rank(i)]
<1>1. IsFiniteSet(Active) /\ n \in Nat
  BY ActiveFinite
<1>2. IsFiniteSet(T) /\ Cardinality(T) = n
  <2>1. n - 1 \in Int /\ 0 <= (n - 1) + 1 /\ (n - 1) - 0 + 1 = n
    BY <1>1
  <2> HIDE DEF n
  <2> QED
    BY <2>1, IntervalSize
<1>3. \A i \in Active : Rank(i) \in T
  BY <1>1, RankBounds
<1>4. f \in Injection(Active, T)
  <2>1. f \in [Active -> T]
    BY <1>3
  <2>2. ASSUME NEW i \in Active, NEW j \in Active, f[i] = f[j]
        PROVE  i = j
    BY <2>2, RankInjective
  <2> HIDE DEF f, T
  <2> QED
    BY <2>1, <2>2 DEF Injection, IsInjective
<1>5. f \in Surjection(Active, T)
  BY <1>1, <1>2, <1>4, FS_Injection
<1>6. r \in T
  BY <1>1
<1> QED
  BY <1>5, <1>6 DEF Surjection

LEMMA PageFinite ==
    ASSUME TypeOK
    PROVE  /\ Page \in SUBSET Active
           /\ IsFiniteSet(Page) /\ Cardinality(Page) \in Nat
           /\ verifier.offset \in Nat
BY ActiveFinite DEF Page, TypeOK, Verifier

\* Pages hold the rows of the ranks they stand for.
LEMMA PageHolds ==
    ASSUME TypeOK, LogAssumption, NEW r \in Nat, r < Cardinality(Active),
           verifier.offset <= r, r < verifier.offset + BatchSize
    PROVE  \E i \in Page : Rank(i) = r
BY EveryRankTaken DEF Page

\* A page that is not full reaches the end of the listing.
LEMMA ShortPage ==
    ASSUME TypeOK, LogAssumption, Cardinality(Page) < BatchSize
    PROVE  Cardinality(Active) <= verifier.offset + Cardinality(Page)
<1> DEFINE o == verifier.offset
           n == Cardinality(Page)
           Full == o .. o + n
           T == {Rank(i) : i \in Page}
           g == [i \in Page |-> Rank(i)]
<1>1. /\ o \in Nat /\ n \in Nat /\ IsFiniteSet(Page) /\ Page \in SUBSET Active
      /\ BatchSize \in Nat /\ Cardinality(Active) \in Nat
  BY PageFinite, ActiveFinite DEF LogAssumption
<1>2. SUFFICES ASSUME o + n < Cardinality(Active) PROVE FALSE
  BY <1>1
<1>3. \A r \in Full : \E i \in Page : Rank(i) = r
  <2> SUFFICES ASSUME NEW r \in Full PROVE \E i \in Page : Rank(i) = r
    OBVIOUS
  <2>1. r \in Nat /\ r < Cardinality(Active) /\ o <= r /\ r < o + BatchSize
    BY <1>1, <1>2
  <2> QED
    BY <2>1, PageHolds
<1>4. Full \in SUBSET T
  BY <1>3
<1>5. g \in Surjection(Page, T)
  <2>1. g \in [Page -> T] /\ \A t \in T : \E i \in Page : g[i] = t
    OBVIOUS
  <2> HIDE DEF g, T
  <2> QED
    BY <2>1 DEF Surjection
<1>6. IsFiniteSet(T) /\ Cardinality(T) <= n
  BY <1>1, <1>5, FS_Surjection
<1>7. Cardinality(Full) <= Cardinality(T)
  BY <1>4, <1>6, FS_Subset
<1>8. Cardinality(Full) = n + 1
  <2>1. o \in Nat /\ o + n \in Int /\ o <= (o + n) + 1 /\ (o + n) - o + 1 = n + 1
    BY <1>1
  <2> HIDE DEF o, n
  <2> QED
    BY <2>1, IntervalSize
<1>9. Cardinality(T) \in Nat
  BY <1>6, FS_CardinalityType
<1> QED
  BY <1>1, <1>6, <1>7, <1>8, <1>9

\* The last row of a page stands right before the next page.
LEMMA LastOfPage ==
    ASSUME TypeOK, LogAssumption, NEW last \in Page, IsLast(last)
    PROVE  /\ last \in Active
           /\ verifier.offset + Cardinality(Page) > 0
           /\ Rank(last) = (verifier.offset + Cardinality(Page)) - 1
<1> DEFINE o == verifier.offset
           T == o .. Rank(last)
           g == [i \in Page |-> Rank(i)]
<1>1. /\ o \in Nat /\ Cardinality(Page) \in Nat /\ IsFiniteSet(Page)
      /\ Page \in SUBSET Active /\ BatchSize \in Nat /\ Cardinality(Active) \in Nat
  BY PageFinite, ActiveFinite DEF LogAssumption
<1>2. /\ last \in Active /\ Rank(last) \in Nat /\ Rank(last) < Cardinality(Active)
      /\ o <= Rank(last) /\ Rank(last) < o + BatchSize
  BY <1>1, RankBounds DEF Page
<1>3. ASSUME NEW i \in Page
      PROVE  Rank(i) \in T
  BY <1>1, <1>2, RankBounds DEF IsLast, Page
<1>4. g \in Injection(Page, T)
  <2>1. g \in [Page -> T]
    BY <1>3
  <2>2. ASSUME NEW i \in Page, NEW j \in Page, g[i] = g[j]
        PROVE  i = j
    BY <1>1, <2>2, RankInjective
  <2> HIDE DEF g, T
  <2> QED
    BY <2>1, <2>2 DEF Injection, IsInjective
<1>5. \A r \in T : \E i \in Page : Rank(i) = r
  <2> SUFFICES ASSUME NEW r \in T PROVE \E i \in Page : Rank(i) = r
    OBVIOUS
  <2>1. r \in Nat /\ r < Cardinality(Active) /\ o <= r /\ r < o + BatchSize
    BY <1>1, <1>2
  <2> QED
    BY <2>1, PageHolds
<1>6. g \in Surjection(Page, T)
  <2>1. g \in [Page -> T] /\ \A t \in T : \E i \in Page : g[i] = t
    BY <1>3, <1>5
  <2> HIDE DEF g, T
  <2> QED
    BY <2>1 DEF Surjection
<1>7. IsFiniteSet(T) /\ Cardinality(T) = Rank(last) - o + 1
  <2>1. o \in Nat /\ Rank(last) \in Int /\ o <= Rank(last) + 1
    BY <1>1, <1>2
  <2> HIDE DEF o
  <2> QED
    BY <2>1, IntervalSize
<1>8. Cardinality(Page) = Cardinality(T)
  BY <1>4, <1>6, <1>7, FS_Injection
<1> QED
  BY <1>1, <1>2, <1>7, <1>8

----------------------------------------------------------------------------
(* Verification covers what it says it covers                              *)

\* A verification that nothing was rolled back under has as many rows ahead of
\* it as it has seen, and one that ends has passed them.
Covering ==
    verifier.clean =>
        /\ verifier.phase = "running" => verifier.seen <= Cardinality(Active)
        /\ verifier.phase = "valid" => verifier.seen <= verifier.offset

CoverInv == TypeOK /\ Covering

\* Recording a row adds it to the listing, and disturbs no verification.
LEMMA InsertActive ==
    ASSUME TypeOK, NEW i \in Instance, NEW a \in Agent, Insert(i, a)
    PROVE  /\ Active' = Active \cup {Len(rows) + 1}
           /\ \A k \in DOMAIN rows : rows'[k] = rows[k]
           /\ UNCHANGED <<verifier, checkpoint>>
<1> DEFINE new == [agent  |-> a,
                   ts     |-> pending[i].ts,
                   prev   |-> pending[i].prev,
                   active |-> TRUE]
           n == Len(rows) + 1
<1>1. rows \in Seq(Row) /\ DOMAIN rows = 1 .. Len(rows) /\ Len(rows) \in Nat
  BY DEF TypeOK
<1>2. rows' = Append(rows, new) /\ UNCHANGED <<verifier, checkpoint>>
  BY DEF Insert
<1>3. new.active
  OBVIOUS
<1> HIDE DEF new
<1>4. /\ DOMAIN rows' = DOMAIN rows \cup {n}
      /\ rows'[n] = new
      /\ \A k \in DOMAIN rows : rows'[k] = rows[k]
  BY <1>1, <1>2
<1> QED
  BY <1>2, <1>3, <1>4 DEF Active

\* A rollback spoils the verifications under way, unless it rolls nothing back.
LEMMA RollbackActive ==
    ASSUME TypeOK, NEW i \in Instance, NEW a \in Agent, NEW e \in DOMAIN rows,
           Rollback(i, a, e)
    PROVE  /\ verifier' = [verifier EXCEPT !.clean = verifier'.clean]
           /\ checkpoint' = [checkpoint EXCEPT !.clean = checkpoint'.clean]
           /\ verifier'.clean => verifier.clean /\ Active' = Active
           /\ checkpoint'.clean => checkpoint.clean /\ Active' = Active
           /\ \A k \in DOMAIN rows : rows'[k].ts = rows[k].ts /\ rows'[k].prev = rows[k].prev
<1> DEFINE untouched == Newer(a, e) \cap Active = {}
<1>1. rows \in Seq(Row) /\ verifier \in Verifier /\ checkpoint \in Checkpoint
  BY DEF TypeOK
<1>2. /\ verifier' = [verifier EXCEPT !.clean = @ /\ untouched]
      /\ checkpoint' = [checkpoint EXCEPT !.clean = @ /\ untouched]
  BY DEF Rollback
<1>3. \A k \in DOMAIN rows :
         /\ rows[k] \in Row
         /\ rows'[k] = [rows[k] EXCEPT !.active = @ /\ k \notin Newer(a, e)]
  BY <1>1, RollbackMarks
<1>4. DOMAIN rows' = DOMAIN rows
  BY <1>1, RollbackMarks
<1>5. ASSUME NEW k \in DOMAIN rows
      PROVE  /\ rows'[k].active <=> rows[k].active /\ k \notin Newer(a, e)
             /\ rows'[k].ts = rows[k].ts /\ rows'[k].prev = rows[k].prev
  BY <1>3 DEF Row
<1>6. untouched => Active' = Active
  BY <1>4, <1>5 DEF Active
<1> HIDE DEF untouched
<1>7. /\ verifier'.clean = (verifier.clean /\ untouched)
      /\ checkpoint'.clean = (checkpoint.clean /\ untouched)
  BY <1>1, <1>2 DEF Verifier, Checkpoint
<1>8. /\ verifier' = [verifier EXCEPT !.clean = verifier'.clean]
      /\ checkpoint' = [checkpoint EXCEPT !.clean = checkpoint'.clean]
  BY <1>2, <1>7, Zenon
<1> QED
  BY <1>5, <1>6, <1>7, <1>8

LEMMA CoverStep == CoverInv /\ [Next]_vars => CoverInv'
<1> SUFFICES ASSUME CoverInv, [Next]_vars PROVE Covering'
  BY TypeStep, LogAssumption DEF CoverInv
<1>0. /\ TypeOK /\ Covering /\ verifier \in Verifier /\ verifier' \in Verifier
      /\ IsFiniteSet(Active) /\ Cardinality(Active) \in Nat
  BY TypeStep, LogAssumption, ActiveFinite DEF CoverInv, TypeOK
<1>1. CASE rows' = rows /\ verifier' = verifier
  BY <1>0, <1>1 DEF Covering, Active
<1>2. ASSUME NEW i \in Instance, NEW a \in Agent, Insert(i, a)
      PROVE  Covering'
  <2>1. Active' = Active \cup {Len(rows) + 1} /\ verifier' = verifier
    BY <1>0, <1>2, InsertActive
  <2>2. Cardinality(Active \cup {Len(rows) + 1}) \in {Cardinality(Active), Cardinality(Active) + 1}
    BY <1>0, FS_AddElement
  <2>3. verifier.seen \in Nat
    BY <1>0 DEF Verifier
  <2> QED
    BY <1>0, <2>1, <2>2, <2>3 DEF Covering
<1>3. ASSUME NEW i \in Instance, NEW a \in Agent, NEW e \in DOMAIN rows, Rollback(i, a, e)
      PROVE  Covering'
  <2>1. /\ verifier' = [verifier EXCEPT !.clean = verifier'.clean]
        /\ verifier'.clean => verifier.clean /\ Active' = Active
    BY <1>0, <1>3, RollbackActive
  <2>2. /\ verifier'.phase = verifier.phase /\ verifier'.seen = verifier.seen
        /\ verifier'.offset = verifier.offset
    BY <1>0, <2>1 DEF Verifier
  <2> QED
    BY <1>0, <2>1, <2>2 DEF Covering
<1>4. ASSUME NEW from, StartVerify(from)
      PROVE  Covering'
  BY <1>0, <1>4 DEF StartVerify, Covering, Active
<1>5. ASSUME NEW i \in Instance, VerifyPage(i)
      PROVE  Covering'
  <2>1. Cardinality(Page) \in Nat /\ verifier.offset \in Nat /\ verifier.seen \in Nat
    BY <1>0, PageFinite DEF Verifier
  <2>2. rows' = rows /\ verifier.phase = "running" /\ Active' = Active
    BY <1>5 DEF VerifyPage, Active
  <2>3. CASE Page = {} /\ verifier' = [verifier EXCEPT !.phase = "valid"]
    <3>1. Cardinality(Page) = 0
      BY <2>3, FS_EmptySet
    <3>2. Cardinality(Active) <= verifier.offset
      BY <1>0, <2>1, <3>1, ShortPage, LogAssumption DEF LogAssumption
    <3> QED
      BY <1>0, <2>1, <2>2, <2>3, <3>2 DEF Covering, Verifier
  <2>4. CASE verifier' = [verifier EXCEPT !.phase = "broken"]
    BY <1>0, <2>4 DEF Covering, Verifier
  <2>5. ASSUME NEW last \in Page,
               verifier' = [verifier EXCEPT !.phase = IF LastPage THEN "valid" ELSE @,
                                            !.offset = @ + Cardinality(Page),
                                            !.expected = last]
        PROVE  Covering'
    <3>1. /\ verifier'.offset = verifier.offset + Cardinality(Page)
          /\ verifier'.clean = verifier.clean /\ verifier'.seen = verifier.seen
          /\ verifier'.phase = IF LastPage THEN "valid" ELSE "running"
      BY <1>0, <2>2, <2>5 DEF Verifier
    <3>2. LastPage => Cardinality(Active) <= verifier.offset + Cardinality(Page)
      BY <1>0, ShortPage, LogAssumption DEF LastPage
    <3> QED
      BY <1>0, <2>1, <2>2, <3>1, <3>2 DEF Covering
  <2> QED
    BY <1>5, <2>3, <2>4, <2>5 DEF VerifyPage
<1>6. CASE KeepCheckpoint \/ EndVerify
  BY <1>6 DEF KeepCheckpoint, EndVerify, NoVerifier, Covering
<1> QED
  BY <1>1, <1>2, <1>3, <1>4, <1>5, <1>6 DEF Next, vars, Prepare, InsertFails

\* A verification during which nothing was rolled back, and that returns True, has
\* covered every row active when it began, whatever the other objects and agents
\* and the clock do.
THEOREM CoversAllRows == Spec => []CoversEverything
<1>1. Init => CoverInv
  BY TypeInit DEF Init, CoverInv, Covering, NoVerifier
<1>2. CoverInv => CoversEverything
  BY DEF CoverInv, Covering, CoversEverything, TypeOK, Verifier
<1> QED
  BY <1>1, <1>2, CoverStep, PTL DEF Spec

----------------------------------------------------------------------------
(* Verification raises no false alarm                                      *)

\* A verification that has passed o rows expects the last of them next.
Placed(o, expected) ==
    \/ o = 0 /\ expected = 0
    \/ o > 0 /\ expected \in Active /\ Rank(expected) = o - 1

\* So does every verification, and every checkpoint, under which nothing was
\* rolled back; and none of them has found a row out of its place.
OnTrack ==
    /\ verifier.clean =>
          /\ verifier.phase # "broken"
          /\ verifier.phase \in {"running", "valid"} => Placed(verifier.offset, verifier.expected)
    /\ checkpoint.clean => Placed(checkpoint.offset, checkpoint.expected)

AlarmInv == ChainInv /\ (SoleAgent => OnTrack)

\* In a chain, a row that refers to another stands right after it.
LEMMA RankOfNext ==
    ASSUME TypeOK, ChainIntact, SoleAgent, NEW k \in Active
    PROVE  \/ rows[k].prev = 0 /\ Rank(k) = 0
           \/ rows[k].prev \in Active /\ Rank(k) = Rank(rows[k].prev) + 1
<1>1. CASE rows[k].prev = 0 /\ \A j \in Active : ~Before(j, k)
  <2>1. Ahead(k) = {}
    BY <1>1 DEF Ahead
  <2> QED
    BY <1>1, <2>1, RankBounds, FS_EmptySet
<1>2. CASE /\ rows[k].prev \in Active
           /\ Before(rows[k].prev, k)
           /\ \A j \in Active : Before(j, k) => j = rows[k].prev \/ Before(j, rows[k].prev)
  <2> DEFINE p == rows[k].prev
  <2>1. p \in Active /\ ~Before(p, p)
    BY <1>2, ListingTotal
  <2>2. \A j \in Active : Before(j, p) => Before(j, k)
    BY <1>2, ListingTotal
  <2>3. Ahead(k) = Ahead(p) \cup {p} /\ p \notin Ahead(p)
    BY <1>2, <2>1, <2>2 DEF Ahead
  <2>4. IsFiniteSet(Ahead(p))
    BY ActiveFinite DEF Ahead
  <2> HIDE DEF p
  <2>5. Cardinality(Ahead(k)) = Cardinality(Ahead(p)) + 1
    BY <2>3, <2>4, FS_AddElement
  <2> QED
    BY <2>1, <2>5, RankBounds DEF p
<1> QED
  BY <1>1, <1>2 DEF ChainIntact

\* A page of a chain holds nothing to complain of.
LEMMA PageLinked ==
    ASSUME TypeOK, LogAssumption, ChainIntact, SoleAgent,
           Placed(verifier.offset, verifier.expected),
           NEW k \in Page
    PROVE  Linked(k)
<1>1. /\ k \in Active /\ Rank(k) \in Nat /\ verifier.offset \in Nat /\ BatchSize \in Nat
      /\ verifier.offset <= Rank(k) /\ Rank(k) < verifier.offset + BatchSize
  BY PageFinite, RankBounds DEF Page, LogAssumption
<1>2. CASE rows[k].prev = 0 /\ Rank(k) = 0
  BY <1>1, <1>2 DEF Linked, Placed
<1>3. CASE rows[k].prev \in Active /\ Rank(k) = Rank(rows[k].prev) + 1
  <2> DEFINE p == rows[k].prev
  <2>1. p \in Active /\ Rank(p) \in Nat /\ Rank(k) = Rank(p) + 1
    BY <1>3, RankBounds
  <2>2. CASE Rank(k) = verifier.offset
    <3>1. verifier.expected \in Active /\ Rank(verifier.expected) = Rank(p)
      BY <1>1, <2>1, <2>2 DEF Placed
    <3>2. verifier.expected = p
      BY <2>1, <3>1, RankInjective
    <3> QED
      BY <2>2, <3>2 DEF Linked
  <2>3. CASE Rank(k) # verifier.offset
    <3>1. p \in Page /\ Rank(p) = Rank(k) - 1
      BY <1>1, <2>1, <2>3 DEF Page
    <3> QED
      BY <2>3, <3>1 DEF Linked
  <2> QED
    BY <2>2, <2>3
<1> QED
  BY <1>1, <1>2, <1>3, RankOfNext

\* Rows recorded later stand behind those there were.
LEMMA InsertPlaced ==
    ASSUME TypeOK, TypeOK', Increasing', NEW i \in Instance, NEW a \in Agent, Insert(i, a),
           NEW o, NEW expected, Placed(o, expected)
    PROVE  Placed(o, expected)'
<1>1. /\ rows \in Seq(Row) /\ DOMAIN rows = 1 .. Len(rows) /\ Len(rows) \in Nat
      /\ rows' \in Seq(Row)
  BY DEF TypeOK
<1>n. PICK n \in Nat : n = Len(rows) + 1
  BY <1>1
<1>2. Active' = Active \cup {n} /\ \A k \in DOMAIN rows : rows'[k] = rows[k]
  BY <1>n, InsertActive
<1>3. DOMAIN rows' = DOMAIN rows \cup {n}
  BY <1>1, <1>n DEF Insert
<1>4. ASSUME NEW x \in Active
      PROVE  Rank(x)' = Rank(x)
  <2>1. x \in DOMAIN rows /\ x < n /\ x \in Nat /\ n \in Nat
    BY <1>1, <1>n DEF Active
  <2>2. rows'[x].ts \in Int /\ rows'[n].ts \in Int
    <3>1. \A k \in DOMAIN rows' : rows'[k] \in Row
      BY <1>1
    <3> QED
      BY <1>3, <2>1, <3>1 DEF Row
  <2>3. rows'[x].ts < rows'[n].ts
    BY <1>3, <2>1 DEF Increasing
  <2>4. ~Before(n, x)'
    BY <2>1, <2>2, <2>3 DEF Before
  <2>5. \A j \in Active : Before(j, x)' <=> Before(j, x)
    BY <1>2, <2>1 DEF Before, Active
  <2>6. {j \in Active' : Before(j, x)'} = {j \in Active : Before(j, x)}
    BY <1>2, <2>4, <2>5
  <2> QED
    BY <2>6 DEF Rank
<1> QED
  BY <1>2, <1>4 DEF Placed

\* A rollback that rolls nothing back moves no row.
LEMMA RollbackPlaced ==
    ASSUME TypeOK, NEW i \in Instance, NEW a \in Agent, NEW e \in DOMAIN rows,
           Rollback(i, a, e), Active' = Active,
           NEW o, NEW expected, Placed(o, expected)
    PROVE  Placed(o, expected)'
<1>1. \A k \in DOMAIN rows : rows'[k].ts = rows[k].ts
  BY RollbackActive
<1>2. ASSUME NEW x \in Active
      PROVE  Rank(x)' = Rank(x)
  <2>1. \A j \in Active : Before(j, x)' <=> Before(j, x)
    BY <1>1 DEF Before, Active
  <2>2. {j \in Active' : Before(j, x)'} = {j \in Active : Before(j, x)}
    BY <2>1
  <2> QED
    BY <2>2 DEF Rank
<1> QED
  BY <1>2 DEF Placed

LEMMA AlarmStep ==
    ASSUME SoleWriter, StrictlyForward, AlarmInv, [Next]_vars
    PROVE  AlarmInv'
<1> SUFFICES ASSUME SoleAgent' PROVE OnTrack'
  BY ChainStep, LogAssumption DEF AlarmInv
<1>0. /\ TypeOK /\ TypeOK' /\ SoleAgent /\ OnTrack /\ ChainIntact /\ Increasing'
      /\ verifier \in Verifier /\ checkpoint \in Checkpoint
  BY ChainStep, ChainInvIntact, SoleAgentBefore, LogAssumption
     DEF AlarmInv, ChainInv, ForkInv, TypeOK
<1>1. \A o, expected : rows' = rows /\ Placed(o, expected) => Placed(o, expected)'
  BY DEF Placed, Rank, Before, Active
<1>2. CASE rows' = rows /\ verifier' = verifier /\ checkpoint' = checkpoint
  BY <1>0, <1>1, <1>2 DEF OnTrack
<1>3. ASSUME NEW i \in Instance, NEW a \in Agent, Insert(i, a)
      PROVE  OnTrack'
  <2>1. verifier' = verifier /\ checkpoint' = checkpoint
    BY <1>0, <1>3, InsertActive
  <2>2. \A o, expected : Placed(o, expected) => Placed(o, expected)'
    BY <1>0, <1>3, InsertPlaced
  <2> QED
    BY <1>0, <2>1, <2>2 DEF OnTrack
<1>4. ASSUME NEW i \in Instance, NEW a \in Agent, NEW e \in DOMAIN rows, Rollback(i, a, e)
      PROVE  OnTrack'
  <2>1. /\ verifier' = [verifier EXCEPT !.clean = verifier'.clean]
        /\ checkpoint' = [checkpoint EXCEPT !.clean = checkpoint'.clean]
        /\ verifier'.clean => verifier.clean /\ Active' = Active
        /\ checkpoint'.clean => checkpoint.clean /\ Active' = Active
    BY <1>0, <1>4, RollbackActive
  <2>2. /\ verifier'.phase = verifier.phase /\ verifier'.offset = verifier.offset
        /\ verifier'.expected = verifier.expected
        /\ checkpoint'.offset = checkpoint.offset /\ checkpoint'.expected = checkpoint.expected
    BY <1>0, <2>1 DEF Verifier, Checkpoint
  <2>3. Active' = Active => \A o, expected : Placed(o, expected) => Placed(o, expected)'
    BY <1>0, <1>4, RollbackPlaced
  <2> QED
    BY <1>0, <2>1, <2>2, <2>3 DEF OnTrack
<1>5. ASSUME NEW from \in {NoCheckpoint, checkpoint}, StartVerify(from)
      PROVE  OnTrack'
  <2>1. from.clean => Placed(from.offset, from.expected)
    BY <1>0 DEF NoCheckpoint, Placed, OnTrack
  <2>2. /\ rows' = rows /\ checkpoint' = checkpoint
        /\ verifier'.phase = "running" /\ verifier'.clean = from.clean
        /\ verifier'.offset = from.offset /\ verifier'.expected = from.expected
    BY <1>5 DEF StartVerify
  <2> QED
    BY <1>0, <1>1, <2>1, <2>2 DEF OnTrack
<1>6. ASSUME NEW i \in Instance, VerifyPage(i)
      PROVE  OnTrack'
  <2>1. rows' = rows /\ checkpoint' = checkpoint /\ verifier.phase = "running"
    BY <1>6 DEF VerifyPage
  <2>2. verifier.clean => Placed(verifier.offset, verifier.expected)
    BY <1>0, <2>1 DEF OnTrack
  <2>3. CASE verifier' = [verifier EXCEPT !.phase = "valid"]
    <3>1. /\ verifier'.clean = verifier.clean /\ verifier'.offset = verifier.offset
          /\ verifier'.expected = verifier.expected /\ verifier'.phase = "valid"
      BY <1>0, <2>3 DEF Verifier
    <3> QED
      BY <1>0, <1>1, <2>1, <2>2, <3>1 DEF OnTrack
  <2>4. CASE (\E k \in Page : ~Linked(k)) /\ verifier' = [verifier EXCEPT !.phase = "broken"]
    <3>1. ~verifier.clean
      BY <1>0, <2>2, <2>4, PageLinked, LogAssumption
    <3>2. verifier'.clean = verifier.clean
      BY <1>0, <2>4 DEF Verifier
    <3> QED
      BY <1>0, <1>1, <2>1, <3>1, <3>2 DEF OnTrack
  <2>5. ASSUME NEW last \in Page, IsLast(last),
               verifier' = [verifier EXCEPT !.phase = IF LastPage THEN "valid" ELSE @,
                                            !.offset = @ + Cardinality(Page),
                                            !.expected = last]
        PROVE  OnTrack'
    <3>1. /\ verifier'.offset = verifier.offset + Cardinality(Page)
          /\ verifier'.expected = last
          /\ verifier'.phase \in {"valid", "running"}
      BY <1>0, <2>1, <2>5 DEF Verifier
    <3>2. /\ last \in Active
          /\ verifier.offset + Cardinality(Page) > 0
          /\ Rank(last) = (verifier.offset + Cardinality(Page)) - 1
      BY <1>0, <2>5, LastOfPage, LogAssumption
    <3>3. Placed(verifier.offset + Cardinality(Page), last)
      BY <3>2 DEF Placed
    <3> QED
      BY <1>0, <1>1, <2>1, <3>1, <3>3 DEF OnTrack
  <2> QED
    BY <1>6, <2>3, <2>4, <2>5 DEF VerifyPage
<1>7. CASE KeepCheckpoint
  BY <1>0, <1>1, <1>7 DEF KeepCheckpoint, NoVerifier, OnTrack
<1>8. CASE EndVerify
  BY <1>0, <1>1, <1>8 DEF EndVerify, NoVerifier, OnTrack
<1> QED
  BY <1>2, <1>3, <1>4, <1>5, <1>6, <1>7, <1>8 DEF Next, vars, Prepare, InsertFails

\* With one log object and a clock that moves forward, and as long as one agent
\* writes the log, verify_chain raises no ChainIntegrityError unless something was
\* rolled back meanwhile: rows recorded between two pages do not disturb it, nor
\* does a checkpoint it starts from.
THEOREM NoFalseAlarm ==
    ASSUME SoleWriter, StrictlyForward
    PROVE  Spec => []NoAlarmWhileGrowing
<1>1. Init => AlarmInv
  <2> SUFFICES ASSUME Init PROVE AlarmInv
    OBVIOUS
  <2>1. ChainInv
    BY ForkInit DEF Init, ChainInv, Rooted, Active, Idle
  <2>2. OnTrack
    BY DEF Init, OnTrack, Placed, NoVerifier, NoCheckpoint
  <2> QED
    BY <2>1, <2>2 DEF AlarmInv
<1>2. AlarmInv => NoAlarmWhileGrowing
  BY DEF AlarmInv, OnTrack, NoAlarmWhileGrowing
<1>3. AlarmInv /\ [Next]_vars => AlarmInv'
  BY AlarmStep
<1> QED
  BY <1>1, <1>2, <1>3, PTL DEF Spec
============================================================================
