# Formal models of ct-toolkit

TLA+ modules, TLC configurations and TLAPS proofs for `ct_toolkit`, the Python
package that wraps an LLM client with a constitutional kernel, a divergence
engine, a hash-chained provenance log, a staged approval flow for rule changes
and a circuit breaker, and that serves the same guardrail over HTTP, to a proxy or
to the n8n node in `examples/`. Paths below are relative to `src/ct_toolkit/`
unless they start with `docs/`, `website/`, `examples/` or `tests/`.

Contents: 1 inventory, 2 modules and their correspondence to the code, 3 runs,
4 bounds, 5 fairness, 6 proofs, 7 disagreements with the documentation, 8 plan,
9 what is not modelled.

## 1. Inventory

### Components, state, operations

| component | state | operations | status |
|---|---|---|---|
| CircuitBreaker (`core/circuit_breaker.py`) | state, failure count, half-open slots, last failure time, statistics; an RLock | `state`, `allow_request`, `record_success`, `record_failure`, `with`, `reset`, `get_stats` | modelled, proved |
| CircuitBreakerRegistry (same file) | name to breaker, one lock, a singleton | `get_or_create`, `get`, `reset_all` | not modelled |
| TheseusWrapper, breaking (`core/wrapper.py`, `divergence/engine.py`) | a breaker, the engine's flag, background futures | `_check_circuit_breaker`, `_on_critical_l3_report`, `reset_circuit_breaker`, `_apply_discovered_risk_profile` | modelled, proved |
| ProvenanceLog (`provenance/log.py`) | the table, a lock per object, the HMAC key and its file | `record`, `rollback`, `verify_chain`, `get_chain_checkpoint`, `_load_or_generate_key`, `export_log`, counters | partly (not `export_log` and the counters), invariants proved |
| Staged approval (`endorsement/reflective.py`, `core/wrapper.py`) | the staged dictionary (no lock), the kernel's commitments, shadow requests in flight | `validate_and_endorse`, `register`, `get_promotable`, `reject_staged`, `_process_staged_updates`, `_run_shadow_requests` | partly (not the channels, nor what reaches the log), proved |
| TheseusWrapper, chat pipeline | the request's own messages and retries, shared `_shadow_history` | `chat`, `achat`, `stream_chat`, `astream_chat` | partly |
| Capability discovery, policies | registry in memory and in a YAML file, its integrity hash | `_get_model_capabilities`, `_record_passive_capability_discovery`, `_write_capability_registry` | partly (when and how the file is written, not what is in it), proved |
| Header propagation | none (headers carry a kernel) | `propagate_headers`, `from_headers` | not modelled |
| DivergenceEngine (`divergence/engine.py`) | thresholds, last report, flag, pending futures | `analyze`, `aanalyze`, tiers L1 to L3, background L3, `wait_for_background_l3` | partly (not the set of asyncio tasks), proved |
| Scheduler, risk profile (`divergence/scheduler.py`) | constants | `calculate_thresholds` | modelled, proved |
| L2 judge (`divergence/l2_judge.py`) | none between calls | model call with retries, verdict | partly (verdict) |
| L3 ICM probe runner (`divergence/l3_icm.py`) | a run's results | `run`, a call with retries per probe, classification, report | partly (`run`, not `arun` and the parsing), proved |
| Drift analysis, loss (`divergence/analysis.py`, `loss.py`) | none | statistics over a window of the log | not modelled |
| ConstitutionalKernel (`core/kernel.py`) | anchors, commitments, read-only flag | `validate_user_rule`, `update_commitment`, `merge` | partly |
| IdentityEmbeddingLayer (`identity/embedding.py`) | reference vector | `compute_divergence` | not modelled |
| IntegrityMonitor (`core/integrity.py`) | file to hash | `register_file`, `verify_integrity` | modelled for the file the program rewrites, proved |
| Compression guard, compatibility (`core/`) | none | comparisons and a table | not modelled |
| AsyncTheseusWrapper (`core/async_wrapper.py`) | a wrapper, a breaker, metrics | `chat` in an executor | not modelled |
| Metrics, telemetry (`utils/`) | counters, gauges, histograms | `increment`, `record`, `get_all`, `reset` | not modelled |
| Masking, logging (`utils/`) | none | text processing | not modelled |
| Middleware (`middleware/*.py`) | per-run prompts (langchain) | callbacks of five frameworks | not modelled |
| HTTP guardrail server (`server.py`) | one global wrapper | `check_guardrail`, its two handlers; dashboard | partly (the guardrail), proved |
| n8n node (`examples/products/n8n/custom-node/`) | the items of an execution | `execute` | modelled, proved |
| Documentation site (`website/`) | none of the system's | third-party scripts for search and formulas | not modelled |
| CLI (`cli.py`), exceptions, entry points | none | commands | not modelled |

### How they interact

A chat runs in the caller's thread (or asyncio task): breaker check, integrity
check, promotion of staged rules, provider call with divergence analysis and
optional correction, shadow request for a staged rule, record in the log.
Background threads run L3 probe batteries and shadow requests; they call back
into the wrapper (`_on_critical_l3_report`, `record_failure`, `reject_staged`).
Operators endorse rules, reset the breaker, verify and roll back the log. Shared
state: the breaker (locked), the engine's flag, thresholds and list of pending
batteries (unlocked), the staged dictionary (unlocked), the kernel (unlocked), the
table (a lock per log object, and several objects may be open on one file), and on
disk the capability cache and the key file, which every wrapper of a project
reads and writes without a lock. Around the wrapper, the HTTP server runs the
kernel's check before a call and the analysis and the record after it; a client,
such as the n8n node, acts on BLOCKED or NONE.

### Hard behaviours

Two switches for one breaker; a recovery test that several threads enter, leave
or never leave; results of calls admitted in an earlier period; a chain linked
under one lock and read in the order of a wall clock; verification that releases
the lock between pages; rollback of some rows of an interleaved chain; a listing
followed by deletions without a lock; an observation slower than the cooldown it
guards; background tasks of an engine that has been replaced; an outage in the
middle of a battery; files emptied and then filled, with a crash or another
wrapper in between; a service that fails open after a call and closed before it.
`PROJECT.json`,
`hazards`, lists each at its line with the properties that watch it, those no
property covers yet included.

### What makes each component correct

* Breaker: it opens in time, fails fast while open, bounds the recovery test,
  and service comes back.
* Wrapper breaking: a trip blocks chats until it is undone, and a reset undoes it.
* Log: rows are only appended, the active ones are one chain, verification
  accepts exactly that and covers every row.
* Staged approval: a rule comes into force at most once, after its cooldown, not
  after a rejection, and is not lost.
* Engine: the tier is the one its thresholds say, also when chats overwrite them;
  a high score blocks; a convincing finding is corrected or probed; every
  background report is accounted for.
* Correction: it ends, and does not multiply the probes.
* Probe batteries: every one ends, whatever the model fails to answer; an outage
  is never reported as health; a wait does not forget a battery.
* Guardrail service: PASS stands for a text found good and recorded, or for one of
  the named failures; a blocked text comes out of the node only as an error or
  marked as blocked, as its two settings say.
* Project files: what was signed without a secret of the environment can be
  verified after a restart; a chat is refused for tampering only for a reason.

## 2. Modules

| module | models |
|---|---|
| `BreakerCore` | the methods of CircuitBreaker as pure operators on a record, one per method body under the lock |
| `CircuitBreaker` | threads using the breaker with `with`, the operator, the clock |
| `AbstractBreaker` | what a breaker promises: closed serves, open rests and then may test, a bounded test decides |
| `WrapperBreaker` | the breaker as TheseusWrapper uses it, with the engine's flag |
| `ProvenanceLog` | the table, writers, rollback, one paged verifier |
| `StagedApproval` | endorsements, the staged dictionary, chats, shadow requests |
| `AbstractApproval` | the life of a rule: new, cooling, promoted or rejected, or lost |
| `ElasticityScheduler` | the thresholds after so many interactions, by risk profile |
| `DivergenceEngine` | concurrent analyses on one engine, and the correction loop of a chat around them |
| `ProbeBattery` | background batteries: the list of pending ones, the pool, the runner's retries and its report |
| `GuardrailService` | executions of the n8n node against the HTTP server, which crashes and restarts |
| `ProjectFiles` | the capability cache with its registered hash, and the key file, between the wrappers of a project |
| `MC*` | instances for TLC |
| `CircuitBreakerProofs`, `WrapperBreakerProofs`, `ProvenanceLogProofs`, `StagedApprovalProofs`, `DivergenceEngineProofs`, `ProbeBatteryProofs`, `GuardrailServiceProofs`, `ProjectFilesProofs` | theorems |

Operators whose comment begins with "Mutant" are faulty variants of the operator
that follows them; no specification uses them. `PROJECT.json`, `mutants`, pairs
each property with a variant that TLC must find it to refute.

### CircuitBreaker

`breaker` is the object: `state`, `failureCount`, `halfOpenCalls` are its fields,
`elapsed` stands for `time.time() - last_failure_time`, in ticks, saturating at
`RecoveryTimeout`, since the code only compares it with that. Before the first
failure the code reports infinity, hence the saturated initial value. The lock
makes each method one step, so `Enter` and `Refuse` are `allow_request`; what
`__enter__` does after a refusal is without the lock and is a step of its own,
`Raise`, with the state read again. `__exit__` is `Succeed`, `Fail` or
`FailBusiness` according to `_is_infrastructure_error`. `Observe` is any reader
of `state`. `state` is a property that changes the object, `Refreshed`, and so
every action that reads it does too.

`probes` (the calls in flight that the current recovery test let in), `lost` (its
slots whose calls have ended with no outcome the breaker counts) and `streak`
(failures in a row) are history. The statistics are left out: apart from the time
of the last failure no method reads them.

### WrapperBreaker

`_check_circuit_breaker` is statement by statement: `ReadFlag`, `Allow`,
`AskAgain`, `Raise`, since the flag is read before the breaker is asked and the
breaker is asked again to choose the state for the error. A background L3 task
ends in `FinishWell`, or in `RaiseFlag` and then `ReportFailure`
(`_handle_l3_report`, then the callback); a critical shadow request in
`ReportFailure` alone. `Rediscover` is done by any thread about to call a model (a
chat, a probe run, a shadow request: `CallsModels`); it replaces the engine and
leaves the tasks of the old one running; their flag is nobody's.
`reset_circuit_breaker` is
`ResetBreaker` and `ResetEngine`.
The history is `letIn`, the chats let in since the last trip or reset while the
circuit was not closed; `owed`, that a trip of the current engine has not been
undone; and `warned`, that it had not when a chat began.

### ProvenanceLog

A row is its agent, its timestamp, the number of its predecessor and whether it
is active. A content hash is the row's number: the hash covers the row, so two
rows have one hash only if they are the same row, and 0 is the genesis hash.
`record` is `Prepare` (reads the newest active row, under the lock) and `Insert`
or `InsertFails`; the lock of a log object is held in between, so one object
prepares one row at a time, and two objects overlap. `verify_chain` is
`StartVerify`, one `VerifyPage` per page, `EndVerify`; `KeepCheckpoint` is
`get_chain_checkpoint`, and a later verification may start from it. The order of
rows with equal timestamps is left open, as SQL leaves it. The field `clean` of
a verifier is history (no rollback since it began or since its checkpoint), and
`whole` says whether it began at the genesis row.

### StagedApproval

A rule is its commitment, the decision, and the time left to `cooldown_until`.
`BeginChat` is the listing of `get_promotable`, `Delete` one deletion of it (a
missing key ends the chat with KeyError), `Apply` one turn of the promotion loop.
A shadow request chooses its rule when it begins (`Observe`), and ends with
nothing to report or with a critical divergence, which rejects the rule if it is
still in the dictionary; inline, it then ends the chat. A read-only kernel, as a
sub-agent has it, refuses an approval, a promotion and the copy a shadow request
needs; whether the kernel is one is chosen in the initial state. `fate` and
`critical` are history. A rule is `lost` when it is staged, neither decided, nor in the
dictionary, nor in the hands of a promoting chat.

### ElasticityScheduler, DivergenceEngine

`CalculateThresholds[p][n]` is `calculate_thresholds` after `n` interactions of an
agent with risk profile `p`, in hundredths. The curve `1 - e^(-rate * t)` is the
constant `Growth`, assumed to grow with the experience (multiplier times count)
and to stay within 0 and 100 per cent. Thresholds and maxima are configured freely,
and nothing is assumed of their order: a threshold may shrink, and the tiers may
overlap. An engine without a scheduler is the case `Growth = 0`.

A chat is `Begin`, `Answer` (which reads the count of interactions; the query may
fail and give 0), the analysis, and `Correct` (back to the provider) or `Record`.
The analysis is `SetThreshold`, one assignment of a tuple's element at a time,
since the attributes are shared and no lock is held; `Measure` (L1 and its first
comparison), `Warn`, `Judge`, `Probe` and a conclusion, each reading the
attribute it compares with when it does. Each tier's outcome is an input: a
score, a verdict with its confidence, a report. L1 turns an exception into score
0, the judge into an uncertain verdict; a battery whose files cannot be read
raises, and `_run_divergence_engine` makes that a result without divergence,
`ProbeFails`. `mode` is chosen in the initial state: standard or enterprise, with
a judge or without, probes at once or in the background (then the result does not
wait; how they are run is in ProbeBattery, what their report does to the wrapper in
WrapperBreaker). The branch of the code
for a judge without probes is never taken, as `_l3_available` is `_l2_available`.
`MaxRetries[c]` is the chat's budget of corrections, 0 for a chat that streams;
`Skips` is the argument `skip_l3`. `count` goes down with `Rollback` and
saturates at `MaxCount`; `peak`, the largest count so far, and
`chat[c].batteries`, the probe batteries a chat has started, are history.

### ProbeBattery

`_schedule_background_l3` submits a battery to the pool and then rebuilds
`_pending_futures` without a lock: `Submit`, `ListUnfinished` (the comprehension),
`Assign`, `ReadAttribute` and `AppendOwn` (`self._pending_futures.append`, on the
list object read before). A list that is replaced meanwhile is nobody's:
`Replace` makes the users about to append to it `orphaned`.
`wait_for_background_l3` is `BeginWait`, `EndWait` (all done, or the timeout) and
`KeepUnfinished`. A battery runs in a thread of the pool: `Start`, then per probe
the structured call (`call` 0) and the raw ones after it. An answer ends the probe
(`Answered`). A call that fails is retried, or ends it unanswered (`CallFails`):
the placeholder text is then classified like an answer. `ReportBattery` is
`_build_report` and the flag,
`Complete` the end of the future. Which answers obey is an input; the score is the
share of probes passed, 80 per cent for health, and none may fail that is
critical. `unanswered`, `severeSilent` and `exposed` are history.

### GuardrailService

An execution handles its items in turn: `Check` sends the request, `ReceiveAnswer`
acts on the action, and any error (`RequestFails`, or the one `failOnBlock`
throws) goes to `Catch`, the catch block of the loop. `PreCall` is
`_handle_pre_call` in one step, as it has no await. `_handle_post_call` has one, at
the analysis: `CountInteractions` before it, `PostCall` after it. The server logs
requests, as it does by default. The branch of `check_guardrail` for critical
errors is never taken: nothing the two handlers call raises one. `Crash` loses
the handlers at work, perhaps with the record of one of them written; the node sees
a failed request. `failed` is history: the server let the text pass because
something went wrong.

### ProjectFiles

Every content of the cache has the time of its writing in it, so a hash is that of
an empty file, of what the file holds now, or of something older; `Rewrite` makes
known hashes older. `Open` and `Dump` (or `DumpFails`) are the two halves of
`_write_capability_registry`, `ReadHash` and `StoreHash` those of `register_file`.
A start is `StartOpen`, `StartDump`, the key, `Register`. A start whose environment
has a secret (`CT_HMAC_SECRET`) signs with that, and neither reads nor writes the
key file (`WithSecret`); any other goes to the file (`Meeting`, `LoadKey`, and if
there is none `CreateKeyFile` and `FillKeyFile`). `Keyed` is the choice, made anew at
each start. A chat is `BeginChat` (takes
the hash it knows), `Pass` or `Refuse` (reads the file), and may write the cache
itself before `FinishChat`, as background threads may. `Crash` stops a wrapper at
any point, `Edit` is anybody else. `raced`, `trouble`, `alone` and `author` are
history: another start was at its key meanwhile; an own write went wrong; the
thread had the wrapper's view of the cache for itself; who wrote last.

## 3. Runs

States are distinct states of TLC. Each run's question is in `PROJECT.json`.

| run | states | shows |
|---|---|---|
| CircuitBreaker | 2700 | TypeOK; ProbesBounded; OpensInTime; FailFast; KeepsContract (every step is a step of AbstractBreaker); HalfOpenResolves, ServiceHeals |
| ProvenanceLog | 141373 | TypeOK; NoFork, which survives rollbacks of two agents; as long as one agent writes, ChainIntact and NoAlarmWhileGrowing (no alarm unless rows were rolled back meanwhile); CoversEverything |
| WrapperBreaker | 87498 | TypeOK; OneProbePerTrip; BlockedUntilReset; ResetRestores, with the engine replaced at any time |
| StagedApprovalRaces | 56342 | TypeOK; KeepsContract (every step is a step of AbstractApproval) with two chats and a background thread (states modulo symmetry) |
| StagedApprovalInline | 21964 | CriticalStaysOut, NothingLost, StagedIsDecided with one chat and inline shadow requests |
| DivergenceEngine | 483352 | TypeOK; TierJustified, in eight configurations, with tiers that overlap and tiers that do not, and with thresholds overwritten at any point; HighScoreBlocks; FindingIsProbed; ProbedAtMostOnce; ChatEnds |
| ProbeBattery | 50967 | TypeOK; HealthIsShown; NothingForgotten; BatteriesEnd |
| GuardrailService | 2382456 | TypeOK; PassIsJustified; BlockedGoesNoFurther, with failures at every step and a server that crashes |
| ProjectFiles | 5275029 | TypeOK; EntriesVerify; RefusalExplained, through crashes and restarts of two wrappers, each with a secret in the environment or without |

The other runs expect a violation; section 7 lists them.

Conditions in the properties are not there for convenience: each stands for a
behaviour the code shows once the condition fails.

* HalfOpenResolves and ServiceHeals except a recovery test that has lost every
  slot to calls with a business error: nothing gives such a slot back, and the
  circuit stays half open until somebody resets it.
* ChainIntact and NoAlarmWhileGrowing ask that one agent has written the log (run
  ProvenanceLogAgents), the instance that one log object is open (two objects on
  one vault link two rows to the same newest one) and that the clock moves forward
  between two readings: it is the wall clock, and setting it back breaks the order
  the chain is read in. NoAlarmWhileGrowing excepts a rollback during the
  verification, which shifts the row offsets between two pages.
* BlockedUntilReset ends when discovered capabilities replace the engine, whose
  flag is lost with it.
* NothingLost and StagedIsDecided distinguish the read-only kernel, for which the
  failed promotion comes after the rule has left the dictionary. NothingLost and
  CriticalStaysOut hold of one chat with inline shadow requests. With two chats a
  rule can be lost: both list it, one deletes it, and the other's deletion raises
  KeyError with the other rules of its listing in its hands (`lost` in
  StagedApprovalRaces, where AbstractApproval allows it). With background requests
  a critical rule can stay in force (run StagedApprovalLateShadow).
* OpensInTime speaks of failures in a row, and allows the circuit to open sooner:
  the code keeps its count across successes while closed, though
  `core/circuit_breaker.py:100` calls it a number of consecutive failures.
* TierJustified asks for one set of thresholds where the tiers are separated, that
  is where no threshold the agent has had lies above one of a higher tier
  (`Separated`). Where they overlap, as with the thresholds documented for critical
  systems, a mixture shows: a chat overwrites the thresholds between two
  comparisons of another, and a score ends in a tier in which no single set puts
  it. TierJustified then promises a set of each tier's own.
* TierJustified speaks of the tier and of `action_required`. `cascade_blocked` is
  not included: after the probes the third threshold is read again, and a chat
  may be let past one threshold and blocked, or not, by another's.
  HighScoreBlocks says what can be said of it: it asks for a score that reaches
  every threshold the agent has had, since one that reaches only the third may be
  below the first where the tiers overlap, and pass.
* FindingIsProbed is about findings of the judge. A score beyond the third
  threshold can escape the probes: with corrections left the battery is skipped,
  and without a misaligned verdict there is no further attempt. (The answer is
  blocked; `website/docs/reference/wrapper-config.md:39` calls the threshold the
  score above which the battery is triggered.)

* HealthIsShown is about health. The reverse is not so: a critical probe that an
  outage leaves unanswered counts as failed, the report is then critical, and the
  engine blocks although the model has shown nothing.
* NothingForgotten excepts batteries that were unfinished while two users were
  scheduling or waiting at once (`exposed`): one assigns a list computed before the
  other's append, or the other appends to a list that has been replaced, and the
  next wait does not know the battery. It still runs and reports.
* PassIsJustified allows PASS for a response nobody judged, or one found bad, if the
  count of interactions, the analysis or the record failed (`failed`): after a call
  the server answers NONE to any error. Before a call it does not.
* BlockedGoesNoFurther is about what the server blocks; a bad text that it lets
  pass after a failure is PassIsJustified's. With `continueOnFail` a blocked item
  does come out, as an error, and the node goes on to the next (section 7).
* EntriesVerify is about entries signed without a secret of the environment, and
  the wrappers that run without one. What is signed with a secret cannot be
  verified by a start that lacks it, nor the other way round: the secret is not
  written to the file, and the start says nothing (section 7).
* EntriesVerify is about wrappers whose start met no other one at the key. If two
  first starts overlap, one may keep a key that the other overwrites, or read a
  file just created and sign with the empty key; its entries cannot be verified
  after a restart.
* RefusalExplained names what else than a stranger's edit makes a chat refuse:
  the start or a write of another wrapper of the project, a write of its own that
  failed or overlapped another one, a write during the verification.

Runs check for deadlock: the clock, the operator or a new chat can always move.
The exception is GuardrailService, whose executions end, and with them the system.

## 4. Bounds

* Threads: three callers in CircuitBreaker, so that two share a recovery
  test while a third reports the result of an earlier period. Two chats and two
  tasks in WrapperBreaker: every conflict in the code is between two.
* `FailureThreshold` 3, `RecoveryTimeout` 2, `HalfOpenMaxCalls` 2: each has a
  proper intermediate value. `WrapperBreaker` uses 1 and 1, the values the
  wrapper passes, and a timeout of 2.
* `MaxEntries` 4 rows with `BatchSize` 2: a full page, a partial one, two full
  pages and the empty page after them, with one to four rows active. `MaxClock` 5
  gives every row a timestamp of its own and leaves room for one failed insert.
* DivergenceEngine: two chats, one with a correction to spend and one without; the
  thresholds documented for critical systems
  (`website/docs/reference/wrapper-config.md:48`) growing to the scheduler's maxima;
  `MaxCount` 1, so that there are two sets of them; an agent with tools, whose tiers
  are separated, and a plain one, which gains experience faster and whose first
  threshold after an interaction, 0.22, is past its second before it, 0.20; scores
  below and above every threshold and between the two sets; judgements that
  correct, that convince and that do neither; a healthy report and one that is
  not.
* `MaxRules` 3, for one commitment and two chats or for two commitments and one
  chat; cooldowns of one or two ticks; `MaxQueued` background requests waiting.
* ProbeBattery: two users; one battery of five probes, the shortest in which one
  may fail in good health, or two, the second without probes; two threads of the
  pool; one retry; the first probe critical.
* GuardrailService: an execution with two items, so that a failure on the first
  decides what happens to the second, and one with a single item; every
  combination of failOnBlock and continueOnFail.
* ProjectFiles: two wrappers, the first with a thread that chats and one of the
  background; the conflicts over a file are between two. One secret, which each
  start has or has not.
* Symmetry (of the two chats) only in StagedApprovalRaces, a safety run.

The theorems of section 6 hold without these bounds, for the constants'
assumptions alone.

## 5. Fairness

* CircuitBreaker: recovery is driven by traffic, so threads keep entering, a call
  that was let in returns, and time passes. The success of the service is
  assumed only inside ServiceHeals.
* WrapperBreaker: chats keep coming and go through their statements, background
  tasks finish, time passes. That findings stop and the operator keeps resetting
  are premises of ResetRestores.
* DivergenceEngine: a chat that has begun goes on: provider, judge and probes
  return or fail (their calls have timeouts); that chats begin is not assumed.
* ProbeBattery: the pool runs what was submitted, and a call of the model returns
  or fails (it has a timeout); nothing is assumed of users.
* StagedApproval: chats keep coming, a provider call returns, a shadow request
  ends, time passes; nothing is assumed of what the shadow request finds.

GuardrailService and ProjectFiles state safety only: a server need not restart.

A thread that runs is scheduled again, a `finally`-like exit is reached, and both
executors (`ThreadPoolExecutor`, the event loop) start what was submitted.

## 6. Proofs

| theorem | statement | assumptions |
|---|---|---|
| CircuitBreakerProofs!TypeCorrect | `Spec => []TypeOK` | a finite set of callers, the named ASSUMEs of BreakerCore |
| ProbesAreBounded | `Spec => [](ProbesBounded /\ ProbesOnlyInTest)` | same |
| AlwaysOpensInTime | `Spec => []OpensInTime` | same |
| AlwaysFailsFast | `Spec => FailFast` | same |
| ImplementsContract | `Spec => KeepsContract` | same |
| ProvenanceLogProofs!TypeCorrect | `Spec => []TypeOK` | the ASSUMEs of ProvenanceLog |
| OnlyAppends | `Spec => AppendOnly` | same |
| NeverForks | `Spec => []NoFork` | one log object, a strictly increasing clock |
| StaysOneChain | `Spec => []ChainIntact` (which is about a log one agent writes) | same |
| CoversAllRows | `Spec => []CoversEverything` | the ASSUMEs of ProvenanceLog |
| NoFalseAlarm | `Spec => []NoAlarmWhileGrowing` (about a log one agent writes) | one log object, a strictly increasing clock |
| DivergenceEngineProofs!ThresholdsGrow | where its maximum is not below its base, more interactions never lower a threshold, and it stays between the two | the ASSUMEs of ElasticityScheduler |
| TypeCorrect | `Spec => []TypeOK` | those and the ASSUMEs of DivergenceEngine |
| TierIsJustified | `Spec => []TierJustified` | same, no order of the thresholds |
| HighScoresBlock | `Spec => []HighScoreBlocks` | same |
| FindingsAreProbed | `Spec => []FindingIsProbed` | same |
| ProbedOnce | `Spec => []ProbedAtMostOnce` | same |
| EveryStepNearsTheEnd | each step of a chat lowers its distance from its end, at most ten steps per attempt; only `Begin` raises it | same |
| WrapperBreakerProofs!TypeCorrect | `Spec => []TypeOK` | the ASSUMEs of BreakerCore and WrapperBreaker (threshold and probes 1, as the wrapper passes), any chats and tasks |
| OneProbeGetsIn | `Spec => []OneProbePerTrip` | same |
| StaysBlocked | `Spec => BlockedUntilReset` | same |
| ResetsRestore | `Spec => ResetRestores` (liveness) | same, no fairness |
| StagedApprovalProofs!TypeCorrect | `Spec => []TypeOK` | the ASSUME of StagedApproval, any chats, background threads, cooldowns and bounds |
| InForceWasDecided | every rule in force was approved, or staged and promoted | same |
| CriticalNeverInForce | `Spec => []CriticalStaysOut` | chats one at a time, inline shadow requests |
| NoRuleIsLost | `Spec => []NothingLost` | chats one at a time, inline shadow requests |
| ImplementsContract | `Spec => KeepsContract` | the ASSUME of StagedApproval |
| ProbeBatteryProofs!TypeCorrect | `Spec => []TypeOK` | the ASSUME of ProbeBattery |
| HealthIsAlwaysShown | `Spec => []HealthIsShown` | same, batteries of any length |
| NothingIsForgotten | `Spec => []NothingForgotten` | same, any users |
| EveryCallNearsTheEnd | each step of a battery lowers its distance from its end, at most `MaxRetries + 2` calls per probe; only `Submit` raises it; while one is under way the pool can work | same |
| GuardrailServiceProofs!TypeCorrect | `Spec => []TypeOK` | every execution has an item |
| PassesAreJustified | `Spec => []PassIsJustified` | same |
| BlockedStaysHere | `Spec => []BlockedGoesNoFurther` | same |
| ProjectFilesProofs!TypeCorrect | `Spec => []TypeOK` | the ASSUMEs of ProjectFiles, any wrappers and threads |
| EntriesAlwaysVerify | `Spec => []EntriesVerify` | same |
| RefusalsExplained | `Spec => RefusalExplained` | same |

*Breaker.* `ProbesBounded` is not inductive: that a slot is free says nothing of
the probes in flight. `Inv` adds that in a half-open circuit the probes in flight
number at most `halfOpenCalls`, that a probe is a call, that there are none
outside a test, and that `streak <= failureCount` while closed.
The first lemmas of the module say once what each method does to a sound breaker;
the proofs of the steps cite them. The refinement maps the phase to the state and the
probes to the calls admitted in the current test.

*Log.* `ForkInv` says that timestamps increase with row numbers, that an active
row's predecessor is 0 or an earlier row such that no active row lies in between,
and that a prepared entry is newer than every row and linked to the newest active
one. From it two active rows cannot share a predecessor. A rollback only removes
rows, which keeps that, but with two agents it can remove a predecessor; in
a log of one agent it removes a suffix, and `ChainInv` adds that predecessors are
then active. A second log object on the vault, or setting back the clock,
invalidates both.

*Verification.* A page is taken by offset, a row's place by its rank among the
active rows. `CoverInv` says, of a verification under which nothing was rolled
back, that at least the rows it started with are active while it runs, and that
it has passed as many when it returns True. It rests on ranks having no gap, so
that a page shorter
than the batch reaches the end of the listing (`EveryRankTaken`, `ShortPage`), and
needs no condition on the clock. `AlarmInv` adds to `ChainInv` that the last row
passed stands right before the offset, unless rows were rolled back meanwhile:
the next page of a chain is then linked to it (`PageLinked`), as rows are only
added at the end (`InsertPlaced`).

*Engine.* The difficulty is that the three comparisons of one analysis may read
thresholds computed for different counts. `Inv` says that each stored threshold
is that of some count the agent has had (`ThresholdsHad`), and keeps for every
chat, as `Reached`, that its score passed a threshold of some count: each
comparison then has a count of its own, which is what TierJustified promises of
any thresholds (`MixedTiers`). Where the tiers are separated, a score that passed one
count's first threshold and fell short of another's second lies between those of a
single count: nothing lies between the two tiers, so that one of the two counts
will do (`BetweenL1AndL2`, `BetweenL2AndL3`), and a score past the second threshold
of any count is past the first of all (`ReachesL2`, `ReachesL3`). `Separated` is a
premise inside the property and not an assumption on the constants: the theorem
covers every configuration. `Batteries` says that a started battery means no
correction is left, which gives FindingsAreProbed and ProbedOnce.

*Wrapper.* `letIn <= 1` says nothing of why a second chat is refused: `SlotHeld`
adds that a chat let in holds the one slot of a half-open breaker, until a trip or
a reset ends the count. `FlagUp` adds that an owed trip has the engine's flag up
and that no chat warned of it holds a clear reading, so the breaker's recovery
test lets none of them in. ResetsRestore is about what happens in the long run,
but neither a fair scheduler nor ENABLED enters into it. A reset leaves the breaker
closed; while nothing critical is reported it stays closed, and the flag, once
down, stays down (`CalmStep`). The next reset begins only when the last one is
complete, so if resets keep beginning one of them has brought the flag down.

*Approval.* `Inv` says where a record can be: what the dictionary holds, and what a
chat has taken from it, is undecided; a taken record is in the hands of one chat
and no longer in the dictionary, and its cooldown is over, as is that of a listed
one. So each rule's life, which the refinement maps to the abstract one, is decided
by one case (`LifeTable`), a promotion finds its rule cooling with the time over,
and a rejection, which takes the rule from the dictionary, finds it cooling as
well. A deletion that raises KeyError drops all that the chat has taken, a kernel
that refuses a promotion drops that rule: the abstract step is `Lose`. `Undisturbed` adds what holds when no other chat and no background thread
comes in between: what a chat has listed, and the rule its shadow request
observes, are still in the dictionary. Then a deletion cannot fail and a critical
finding always rejects, so nothing is lost and nothing critical comes into force.
Both conditions are needed: StagedApprovalLateShadow violates the second with
background requests, and two chats lose a rule (section 3).

*Batteries.* `Runs` says that a probe is counted once, passed or unanswered or
neither, and that a critical unanswered one has failed: the arithmetic of the
report then bounds the unanswered ones. `Lists` says of every list that a user is
about to assign that it lacks only batteries which others hold or which are
exposed: that is what a replacement must not break, and `NothingForgotten` speaks
of the list after it.

*Service.* The answer must be sound before the node reads it and must not change
afterwards: `AnswerSound` of every handler, and `OutcomeSound` of every item that
has come out, whose handler is behind the item the execution is at. `OutcomeSound`
also has the settings a blocked item came out under, which are chosen once.

*Files.* `Keys` says that a wrapper with a key has a secret of the environment, or
the key of the file, or has met another at its key, and that while somebody makes a
key nothing is signed that counts, but with secrets; `Hashes`, that unless something went wrong the hash a wrapper knows, a
verification holds or a writer is about to store is that of the file as far as its
own threads go; `Places`, which thread can be where.

*Termination.* What ChatEnds and BatteriesEnd rest on, fairness aside, is proved for
every size. `Distance` of a chat weighs the corrections it has left with the ten
steps of an attempt; it falls with each of them, with `Correct` as well, since a
correction is due only if one is left (`AnalysisMoves`, `ServeNears`). `Distance` of
a battery weighs the probes it has left with the `MaxRetries + 2` calls each may
take; a retry lowers it by one, the next probe by at least one (`WorkNears`).
`SomeCanWork` excludes that batteries wait for one another: if no thread is busy,
the first in the queue can start.

*Only model-checked.* Every invariant, action property and refinement that a
passing run checks is proved. What rests on fairness is not: HalfOpenResolves,
ServiceHeals, StagedIsDecided, BatteriesEnd and ChatEnds need ENABLED, which is out
of the prover's reach, as is induction (over data, or from a distance that falls to
an end that is reached), and TLC checks them on the instances above.

## 7. Disagreements with the documentation

Each of these runs checks one property taken from a document, a comment or a
docstring, and TLC finds a behaviour of the code that violates it. The sources
are quoted in `PROJECT.json`, `findings`.

| run | what the code does |
|---|---|
| ProvenanceLogAgents | ChainIntegrityError though no row was tampered with: rollback among several agents |
| WrapperBreakerRecovery | a recovery test without an outcome |
| StagedApprovalLateShadow | a critical finding after the promotion changes nothing |

Three further statements are properties of their modules and not of any run. TLC
refutes each as soon as it is added to the configuration of the module's run:

| module, property | the documentation says | what the code does |
|---|---|---|
| DivergenceEngine, JudgeIsAsked | the judge is "Triggered when L1 score exceeds `l1_threshold`." (`docs/architecture.md:104`; likewise `divergence/engine.py:8` and `divergence/l2_judge.py:6`), and the probes when it exceeds `l2_threshold` (`docs/architecture.md:119`) | a score from the first threshold up to the second is a warning without a judge; the judge is asked from the second on (`divergence/engine.py:369`), the probes from the third on or after a convincing verdict. `website/docs/reference/wrapper-config.md:38` says so. |
| GuardrailService, StopsOnBlock | failOnBlock: "Whether to throw an error and completely stop the workflow if CT-Toolkit blocks the action" (`CtToolkit.node.ts:64`) | the error is thrown inside the `try` whose `catch` serves continueOnFail (`:111`): with both set the blocked item is pushed as an error and the loop goes on |
| ProjectFiles, MissingKeyRaises | `_load_or_generate_key` "Raises VaultError if key is missing to prevent silent data loss." (`provenance/log.py:731`) | a missing key is made and saved, whatever the log holds (`:738`): what was signed with a secret that a later start lacks is left unverifiable without a word |

## 8. Plan

Done: 1 BreakerCore, CircuitBreaker, AbstractBreaker, with proofs; 2
ProvenanceLog, with proofs of its invariants; 3 WrapperBreaker, with proofs;
4 StagedApproval, AbstractApproval, with proofs; 5 ElasticityScheduler, DivergenceEngine, with
proofs; 6 ProbeBattery (pending lists and retries), 7 GuardrailService, 8
ProjectFiles (capability cache and key), each with proofs.

The project keeps few runs, one per question; where a later module needs one, a
violated run whose lesson a condition already carries (section 3) gives way. Left,
most important first:

9. `ChatPipeline`, composing the breaker check, promotion, the correction loop of
   DivergenceEngine, the shadow request and the record at the end, for `chat` and
   `stream_chat`; what is recorded when a step fails; the asynchronous wrapper's
   own breaker.
10. `KernelMerge` and `HeaderPropagation`: merging a parent kernel, carrying it in
    headers, rule validation.
11. `AbstractChain`, a one-step log that ProvenanceLog implements; `export_log`.
12. `Registry` and `Metrics`, whose values no decision reads.

Theorems: ProvenanceLog implements AbstractChain, once that is written; the
invariants of the modules to come.

## 9. Not modelled, and why

Numerical code (embeddings, the growth curve, drift statistics, loss) is out of
TLC's reach: scores are nondeterministic inputs. Text processing (masking, prompt
composition, parsing of model output) has no state. The dashboard, the command
line and the kernels shipped as data are I/O, layout or configuration. The scripts
under `website/` are the built documentation: search bundles of other projects
(lunr's `wordcut.js` and `tinyseg.js`, which segment Thai and Japanese words) and a
configuration of MathJax. They hold nearly all JavaScript of the repository and
none of the system; the only JavaScript or TypeScript of its own is the n8n node,
which GuardrailService models (its `index.ts` exports it). The
callbacks of agent frameworks wrap the same pipeline. Cryptography is ideal: a
hash identifies what it was computed from, and nobody signs without the key.
