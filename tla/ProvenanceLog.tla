--------------------------- MODULE ProvenanceLog ---------------------------
(***************************************************************************)
(* The provenance log (provenance/log.py): an append-only table whose rows *)
(* are chained by content hash, written by any number of ProvenanceLog     *)
(* objects that share one database, rolled back agent by agent, and        *)
(* verified page by page while it grows.                                   *)
(*                                                                         *)
(* A row is known by its place in `rows', the order of the INSERTs; its    *)
(* content hash is abstracted to that number and GENESIS_HASH to 0.  Every *)
(* query of the code orders rows by timestamp, which the code reads from   *)
(* the wall clock: ClockSteps says how the clock may move between two      *)
(* readings ({1}: strictly forward; 0: too coarse; -1: set back).          *)
(*                                                                         *)
(* The RLock of an object makes record, rollback and the loading of one    *)
(* page exclude each other on that object, and on no other.  record is     *)
(* therefore two steps: Prepare (read the last hash, read the clock) and   *)
(* Insert or InsertFails.                                                  *)
(***************************************************************************)
EXTENDS Integers, Sequences, FiniteSets

CONSTANTS
    Agent,        \* values of metadata.agent_id
    Instance,     \* ProvenanceLog objects open on the database
    BatchSize,    \* batch_size of the verification
    ClockSteps,   \* what the clock may advance by between two readings
    MaxEntries,   \* bound: rows in the table
    MaxClock      \* bound: largest clock reading

ASSUME LogAssumption ==
    /\ BatchSize \in Nat \ {0}
    /\ ClockSteps \subseteq Int
    /\ MaxEntries \in Nat
    /\ MaxClock \in Nat

VARIABLES
    rows,         \* the table, in order of insertion
    clock,        \* the last reading of the wall clock
    pending,      \* what record has prepared, per object holding its lock
    verifier,     \* one thread inside verify_chain or get_chain_checkpoint
    checkpoint    \* the last dictionary get_chain_checkpoint returned

vars == <<rows, clock, pending, verifier, checkpoint>>

Row == [agent : Agent, ts : Int, prev : Nat, active : BOOLEAN]
Idle == [prev |-> 0, ts |-> 0, busy |-> FALSE]
Prepared == [prev : Nat, ts : Int, busy : BOOLEAN]

\* whole: it started from the genesis hash, as get_chain_checkpoint always does.
\* clean and seen are history: no row was rolled back since the verification
\* started, and how many rows were active when it did.
Verifier == [phase    : {"idle", "running", "valid", "broken"},
             offset   : Nat,
             expected : Nat,
             whole    : BOOLEAN,
             clean    : BOOLEAN,
             seen     : Nat]

NoVerifier == [phase |-> "idle", offset |-> 0, expected |-> 0,
               whole |-> FALSE, clean |-> TRUE, seen |-> 0]

Checkpoint == [offset : Nat, expected : Nat, clean : BOOLEAN]
NoCheckpoint == [offset |-> 0, expected |-> 0, clean |-> TRUE]

TypeOK ==
    /\ rows \in Seq(Row)
    /\ clock \in Int
    /\ pending \in [Instance -> Prepared]
    /\ verifier \in Verifier
    /\ checkpoint \in Checkpoint

Init ==
    /\ rows = <<>>
    /\ clock = 0
    /\ pending = [i \in Instance |-> Idle]
    /\ verifier = NoVerifier
    /\ checkpoint = NoCheckpoint

----------------------------------------------------------------------------
(* Queries.  SQLite returns rows of equal timestamp in insertion order for *)
(* ORDER BY timestamp ASC; for ORDER BY timestamp DESC LIMIT 1 SQL leaves  *)
(* open which of them it returns (SQLite the first, not the last).         *)

Active == {i \in DOMAIN rows : rows[i].active}

Before(i, j) ==
    \/ rows[i].ts < rows[j].ts
    \/ rows[i].ts = rows[j].ts /\ i < j

\* Mutant: the last entry is looked up in the wrong order.
Oldest ==
    IF Active = {} THEN {0}
    ELSE {i \in Active : \A j \in Active : rows[i].ts <= rows[j].ts}

\* Mutant: the last entry is looked up among all rows.
NewestOfAll ==
    IF rows = <<>> THEN {0}
    ELSE {i \in DOMAIN rows : \A j \in DOMAIN rows : rows[j].ts <= rows[i].ts}

\* _get_last_entry_hash: GENESIS_HASH, or a newest active row.
Newest ==
    IF Active = {} THEN {0}
    ELSE {i \in Active : \A j \in Active : rows[j].ts <= rows[i].ts}

\* The place of a row in the listing of active rows: OFFSET and LIMIT count it.
Rank(i) == Cardinality({j \in Active : Before(j, i)})

----------------------------------------------------------------------------
(* record                                                                  *)

Prepare(i) ==
    /\ ~pending[i].busy
    /\ Len(rows) < MaxEntries
    /\ \E prev \in Newest, d \in ClockSteps :
          /\ clock + d <= MaxClock
          /\ clock' = clock + d
          /\ pending' = [pending EXCEPT
                            ![i] = [prev |-> prev, ts |-> clock + d, busy |-> TRUE]]
    /\ UNCHANGED <<rows, verifier, checkpoint>>

\* A commit that fails raises VaultError as well, but leaves the row in the open
\* transaction of the only connection: its next reader sees it, its next commit
\* writes it, and a crash takes it together with all that follows it.  For the
\* chain that is this step.
Insert(i, a) ==
    /\ pending[i].busy
    /\ rows' = Append(rows, [agent  |-> a,
                             ts     |-> pending[i].ts,
                             prev   |-> pending[i].prev,
                             active |-> TRUE])
    /\ pending' = [pending EXCEPT ![i] = Idle]
    /\ UNCHANGED <<clock, verifier, checkpoint>>

\* The INSERT itself fails: VaultError to the caller, nothing stored.
InsertFails(i) ==
    /\ pending[i].busy
    /\ pending' = [pending EXCEPT ![i] = Idle]
    /\ UNCHANGED <<rows, clock, verifier, checkpoint>>

----------------------------------------------------------------------------
(* rollback(a, e): the rows of agent a that are newer than row e           *)

Newer(a, e) == {i \in DOMAIN rows : rows[i].agent = a /\ rows[i].ts > rows[e].ts}

Rollback(i, a, e) ==
    /\ ~pending[i].busy
    /\ rows[e].agent = a
    /\ rows' = [k \in DOMAIN rows |->
                  IF k \in Newer(a, e) THEN [rows[k] EXCEPT !.active = FALSE] ELSE rows[k]]
    /\ LET untouched == Newer(a, e) \cap Active = {} IN
          /\ verifier' = [verifier EXCEPT !.clean = @ /\ untouched]
          /\ checkpoint' = [checkpoint EXCEPT !.clean = @ /\ untouched]
    /\ UNCHANGED <<clock, pending>>

----------------------------------------------------------------------------
(* verify_chain and get_chain_checkpoint                                   *)

StartVerify(from) ==
    /\ verifier.phase = "idle"
    /\ verifier' = [phase    |-> "running",
                    offset   |-> from.offset,
                    expected |-> from.expected,
                    whole    |-> from = NoCheckpoint,
                    clean    |-> from.clean,
                    seen     |-> Cardinality(Active)]
    /\ UNCHANGED <<rows, clock, pending, checkpoint>>

Page == {i \in Active : verifier.offset <= Rank(i) /\ Rank(i) < verifier.offset + BatchSize}

\* Mutant: every page starts from the genesis hash.
LinkedForgetful(i) ==
    IF Rank(i) = verifier.offset
    THEN rows[i].prev = 0
    ELSE \E k \in Page : k = rows[i].prev /\ Rank(k) = Rank(i) - 1

\* What a row of the page must refer to: the row listed just before it, or for
\* the first row of the page the last row of the page before.
Linked(i) ==
    IF Rank(i) = verifier.offset
    THEN rows[i].prev = verifier.expected
    ELSE \E k \in Page : k = rows[i].prev /\ Rank(k) = Rank(i) - 1

IsLast(i) == i \in Page /\ \A k \in Page : Rank(k) <= Rank(i)

\* Mutant: the loop ends after any page.
LastPageAlways == TRUE

\* A page that is not full is taken for the last one.
LastPage == Cardinality(Page) < BatchSize

\* One turn of the loop: the page is loaded under the lock of object i and then
\* examined without it.
VerifyPage(i) ==
    /\ verifier.phase = "running"
    /\ ~pending[i].busy
    /\ \/ /\ Page = {}
          /\ verifier' = [verifier EXCEPT !.phase = "valid"]
       \/ /\ \E k \in Page : ~Linked(k)
          /\ verifier' = [verifier EXCEPT !.phase = "broken"]
       \/ /\ \A k \in Page : Linked(k)
          /\ \E last \in Page :
                /\ IsLast(last)
                /\ verifier' = [verifier EXCEPT !.phase = IF LastPage THEN "valid" ELSE @,
                                                !.offset = @ + Cardinality(Page),
                                                !.expected = last]
    /\ UNCHANGED <<rows, clock, pending, checkpoint>>

\* Mutant: the checkpoint counts one row too few.
KeepCheckpointShort ==
    /\ verifier.phase = "valid" /\ verifier.whole
    /\ checkpoint' = [offset   |-> verifier.offset - 1,
                      expected |-> verifier.expected,
                      clean    |-> verifier.clean]
    /\ verifier' = NoVerifier
    /\ UNCHANGED <<rows, clock, pending>>

\* The dictionary of get_chain_checkpoint is kept for later verifications.
KeepCheckpoint ==
    /\ verifier.phase = "valid" /\ verifier.whole
    /\ checkpoint' = [offset   |-> verifier.offset,
                      expected |-> verifier.expected,
                      clean    |-> verifier.clean]
    /\ verifier' = NoVerifier
    /\ UNCHANGED <<rows, clock, pending>>

EndVerify ==
    /\ verifier.phase \in {"valid", "broken"}
    /\ verifier' = NoVerifier
    /\ UNCHANGED <<rows, clock, pending, checkpoint>>

Next ==
    \/ \E i \in Instance :
          \/ Prepare(i)
          \/ \E a \in Agent : Insert(i, a)
          \/ InsertFails(i)
          \/ \E a \in Agent, e \in DOMAIN rows : Rollback(i, a, e)
          \/ VerifyPage(i)
    \/ StartVerify(NoCheckpoint) \/ StartVerify(checkpoint)
    \/ KeepCheckpoint \/ EndVerify

Spec == Init /\ [][Next]_vars

----------------------------------------------------------------------------
(* Properties                                                              *)

\* One agent has written the whole log: rollback works agent by agent, and in a
\* shared log it takes rows out of the middle of the chain.
SoleAgent == \A i, j \in DOMAIN rows : rows[i].agent = rows[j].agent

\* As long as one agent writes the log, the active rows form one chain: listed
\* by timestamp, each refers to the one listed just before it and the first to
\* the genesis hash.
ChainIntact ==
    SoleAgent => \A j \in Active :
        \/ /\ rows[j].prev = 0
           /\ \A k \in Active : ~Before(k, j)
        \/ /\ rows[j].prev \in Active
           /\ Before(rows[j].prev, j)
           /\ \A k \in Active : Before(k, j) => k = rows[j].prev \/ Before(k, rows[j].prev)

\* As long as one agent writes the log, a verification during which nothing was
\* rolled back, from the start or from a checkpoint, raises no
\* ChainIntegrityError: rows recorded between two pages do not disturb it.
NoAlarmWhileGrowing == SoleAgent /\ verifier.phase = "broken" => ~verifier.clean

\* A verification during which nothing was rolled back, and that returns True, has
\* covered every row that was active when it started: pages of exactly batch_size rows, an empty last page and rows
\* recorded meanwhile leave no gap.
CoversEverything ==
    verifier.phase = "valid" /\ verifier.clean => verifier.offset >= verifier.seen

\* No two active rows refer to the same row: whatever is rolled back, the log of
\* one object never forks, even where it no longer forms one chain.
NoFork == \A j, k \in Active : rows[j].prev = rows[k].prev => j = k

\* No step removes, reorders or rewrites a row; the only change ever made to a
\* row is to roll it back, and that is never undone.
AppendOnly ==
    [][/\ Len(rows') >= Len(rows)
       /\ \A i \in DOMAIN rows :
             /\ [rows'[i] EXCEPT !.active = TRUE] = [rows[i] EXCEPT !.active = TRUE]
             /\ rows'[i].active => rows[i].active]_vars

----------------------------------------------------------------------------
(* What the documentation says and the code does not do                    *)

\* website/docs/reference/provenance-log.md:49, verify_chain "Raises
\* ChainIntegrityError if any entry has been tampered with": in this model no
\* row is ever tampered with, so no verification may raise.
AlarmMeansTampering == verifier.phase # "broken"
============================================================================
