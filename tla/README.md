# TradeOps Sentinel: a TLA+ verification project

TradeOps Sentinel reconciles synthetic FX trades reported by several source
systems, stores the breaks it finds, and corrects one kind of break (a wrong
`base_amount` in the legacy booking system) under a controlled-AI flow: an AI
recommends, a fixed policy decides, a Maker and a Checker approve, and a signed
envelope is executed once. This directory models that system in TLA+,
model-checks it with TLC and proves its main safety properties with TLAPS.

## 1. Inventory

| Component | State it keeps | Operations | Correct when |
|---|---|---|---|
| Source-event inbox (`packages/persistence/inbox.py`, `adapter.py`) | `source_event_inbox` (append-only, unique on source identity and version), `source_event_conflicts` | `ingest_observations` (batch, raise or quarantine) | a batch takes effect whole or not at all; no row is overwritten; replay, conflict and insert are told apart under concurrency; no call waits for ever |
| Canonical assembler (`assembler.py`) and store | `canonical_trade_state_versions` | `assemble_canonical_state`, `persist_canonical_states` | one state per version; what a reader is told was stored is what is stored |
| Reconciliation engine (`packages/reconciliation`) | none (pure) | `ReconciliationEngine.run` | every family reported when and only when the oracle expects it; no input makes a whole run fail |
| Oracle (`packages/oracle`) | none (pure) | `evaluate` | independent of the engine and equal to it on the corpus |
| Runs (`apps/api/service.py`, `adapter.py`) | `reconciliation_runs`, `trade_breaks`: one row per run and portfolio | `run_reconciliation`, `rerun_trade_reconciliation` | under a run_id readers see one evaluation, half of it only while it is written or after a death; a conflict is not overlooked; a rerun finds what a full run would |
| Reporting reads (`main.py`, `build_summary`, `apps/dashboard/app.py`) | none | summary, break list, break, trade: one transaction per query | totals do not exceed their details; what is listed can be opened |
| Data generator (`packages/generator/core.py`) | none (pure, seeded) | `generate_corpus` | every mutation passes the contracts, is detected as planned and nothing else is; the truth ledger explains it |
| Triage and policy (`packages/remediation/triage.py`, `policy.py`, `retrieval.py`) | `remediation_cases` | `generate_case`, `evaluate` | the AI's number gets through only if it is the engine's |
| Approvals (`apps/api/main.py`, `store.py`) | `remediation_approvals`, unique per case and role | `_submit_remediation_approval` | two different identities |
| Envelope (`envelope.py`) | `remediation_envelopes`, one per case | `build_envelope`, `verify_envelope` | signed by the running secret, not expired |
| Executor (`executor.py`, `legacy_adapter.py`, `store.py`) | `legacy_booking_records` (the only mutable table), `remediation_executions` | `execute`, `apply_legacy_booking_correction` | written only when approved, over the value that was approved, at most once per key |
| Evidence (`evidence.py`) | `remediation_evidence`, one per case | `finalize_evidence` | about an action that took place, and never missing for one |
| Contracts (`packages/contracts`) | none | Pydantic models, canonical hashes | a fingerprint cannot hide a material difference |
| Scripts, migration, token guard | none | CI checks, DDL, HTTP | out of scope, see section 8 |

Interaction. Requests reach FastAPI handlers that run in a thread pool. Every
call of `PostgresAdapter` or `RemediationStore` opens a connection and a
transaction of its own, so **a handler is a sequence of transactions**: others
run between any two of them, and the process may die there. Nothing but the
database is shared. The legacy record and the inbox are two books of the same
fact; the executor writes the first, and the handler then feeds the second.

What is hard: check-then-insert pairs in separate transactions (approvals,
next booking version, next canonical version), retries after a death in the
middle of an execution, an envelope that expires or whose secret is rotated,
a feed that moves on while approvals are collected, `SELECT ... FOR UPDATE` of a
row that does not exist, a run written portfolio by portfolio under an identifier
of one second, pages read query by query. `PROJECT.json` lists each at its line under `hazards`.

## 2. Modules

| Module | Models | Used by |
|---|---|---|
| `Policy` | `policy.evaluate`, the recommendation schema, the closed support lists | `Remediation` |
| `Remediation` | every state-changing handler of the remediation flow and of a reconciliation run, transaction by transaction | `RemediationInv` |
| `RemediationInv` | the inductive invariant `IInv` | `MCRemediation`, `RemediationProofs` |
| `RemediationProofs` | the theorems and their proofs | `EvidenceProofs`, `OnceProofs` |
| `EvidenceProofs` | the theorem about frozen evidence, on top of `IInv` | |
| `OnceProofs` | the theorems about `AtMostOnce` and about the two books agreeing, on top of `IInv` | |
| `Inbox` | the abstract inbox: whole batches, one at a time | `InboxAdapter` |
| `InboxAdapter` | `ingest_observations` statement by statement, waits and deadlocks included; shown to implement `Inbox` | `MCInboxAdapter`, `InboxProofs` |
| `InboxProofs` | theorems about the transactions of `InboxAdapter`, the refinement of `Inbox` included | |
| `Sources` | observations, their identity, fingerprint and order, the engine's configuration | `Engine`, `Oracle` |
| `Engine` | supersession filter, canonical assembler, linkage decision, the eight break families, the contracts that may refuse a context or a break | `Reconciliation` |
| `Oracle` | the independent evaluator's facts | `Reconciliation` |
| `Reconciliation` | one lineage group over time: deliveries, runs, corrections | `MCReconciliation`, `Corpus`, `ReconciliationProofs` |
| `ReconciliationProofs` | the theorems about `Reconciliation`: the engine's choices, engine against oracle, failing runs, authority, corrections | `CorpusProofs` |
| `RunLedger` | the abstract run history: per run_id a growing prefix of one evaluation | `Runs` |
| `Runs` | `run_reconciliation` transaction by transaction, concurrent with loads, the clock and deaths; shown to implement `RunLedger` | `Reporting`, `RunsProofs` |
| `RunsProofs` | theorems about `Runs`, the refinement included | `ReportingProofs` |
| `Reporting` | one rendering of the dashboard, query by query, over `Runs` | `MCReporting`, `ReportingProofs` |
| `ReportingProofs` | the theorems about pages, on top of `RunsProofs` | |
| `Corpus` | the generator's plans, mutations, truth ledger and provenance graph; loading, runs and corrections of `Reconciliation` over them | `MCCorpus`, `CorpusProofs` |
| `CorpusProofs` | the theorems about `Corpus`: valid plans, provenance, reloads, detection, the scoped rerun | |
| `MCRemediation`, `MCInboxAdapter`, `MCReconciliation`, `MCReporting`, `MCCorpus` | small instances; `MCReporting` takes the breaks of its four deliveries from `Engine`, checked by an assumption | the `.cfg` files |

### Remediation: state and actions

`execution` and `bookings` are the inbox seen by one trade: the value of its
EXECUTION and its BOOKING revisions in version order. `canonical` is the
sequence of stored canonical states, `breaks` the persisted `base_amount`
breaks of all runs, and `legacy`, `cases`, `approvals`, `envelopes`,
`executions`, `evidence` are the tables of DDL 0004. `req[w]` holds the locals
of the request worker `w` is serving and the point it has reached. `commits`
is a history variable: how often a key has changed the legacy record.

| Handler | Actions, in order |
|---|---|
| `POST /reconciliation/run` | `run_reconciliation`, `persist_canonical_states` or `persist_canonical_violation`, `persist_run` |
| `POST /remediation/cases` | `generate_case`, `seed_legacy_booking_record` |
| `POST .../maker-approval`, `checker-approval` | `submit_approval`, `insert_approval` |
| `POST .../execute` | `remediation_execute`, `insert_envelope_if_absent`, `verify_envelope`, `apply_legacy_booking_correction`, `insert_execution`, and after an applied correction `read_latest_booking`, `ingest_corrected_booking_observation`, `rerun_read`, `rerun_version`, `rerun_persist` or its violation, `finalize_evidence` |
| environment | `DeliverExecution`, `DeliverBooking`, `ExpireEnvelope`, `Restart`, `Crash` |

A call that is refused (404, 409, 422) changes nothing and is a disabled
action. Abstractions, and why they are sound for the properties:

- Reads of rows that can no longer change are merged with the step that uses
  them: a case and an envelope are insert-only and unique, so a later read of
  one returns the same row. `finalize_evidence` merges the reads of the case
  view with its insert; the only fact the properties take from the view is the
  applied execution row, which that same request has committed before.
- `idem_<case_id>` is one key per case, so the case stands for its key.
- Amounts are compared for equality only; two different values are further
  apart than the tolerance. A content hash is modelled by the content, a
  signature by the secret it was made with.
- A BOOKING or EXECUTION revision a source sends supersedes the one before it
  (`supersedes_observation_id`), as `_reconcile_lineage_group` expects.
- `TIMEOUT_RECOVERED` and `REJECTED_FIELD_NOT_ALLOWED` are not reachable through
  the API (no handler passes `attempt_context`; the policy admits one field)
  and are left out.
- The AI provider is external and may answer anything its schema admits.
- A version found missing by the SELECT of `persist_canonical_states` and taken
  before its INSERT raises a unique violation; both outcomes of the race, the
  silent skip and the violation, are actions.

### Inbox: state and actions

`inbox` and `conflicts` are the two tables, `call` and `answer` what each
session was asked and told. In `InboxAdapter` a transaction keeps its own
uncommitted inserts, its quarantined deliveries and its row locks; `connect`,
`select_existing`, `_insert_observation`, `_quarantine_conflict`, `commit` and
`cancel` are its statements. PostgreSQL is external and modelled from how the
statements use it at READ COMMITTED: a SELECT FOR UPDATE waits for a locked row; an
INSERT waits for a concurrent insert of the same key, into the inbox or into the
quarantine, and fails (quarantine: does nothing) if that one commits. `WaitsFor` says
who waits for whom, and `deadlock_detected` ends a transaction in a circular wait.
A delivery that contradicts the row of its own `observation_id` cannot be quarantined,
because `DuplicateSourceConflict` needs two identifiers: it fails the batch in either
mode (`IngestOutcome`).
The refinement mapping is the identity on the four public variables.

### Reconciliation: state and actions

`inbox` and `conflicts` hold the observations of one lineage group, `report` the
`base_amount` break of the last run. `Deliver` is one delivery through
`ingest_observations`, `run_reconciliation` a run (an exception leaves the last
report), `ingest_corrected_booking_observation` the feedback of an approved value.
The engine is a pure function of the group, so it is an operator: `Verdict`.

- A compared field is a natural number. Decimals are in units of their last
  digit; currencies, sides and dates are compared for equality only. A relative
  tolerance is a fraction.
- `record` stands for the payload fields that no family compares
  (`counterparty_id` and `book_id` included: no family reports a conflict on them).
- A break is its family and comparisons. Severity, priority, evidence items and
  identifiers are functions of these. A comparison remembers whether the two
  values it shows differ, because `BreakComparison` refuses one that shows equal
  values, and the exception ends the run of every trade.
- There is one tenant. Portfolio and correlation are numbers, and a lineage may mix
  them; the assembler then refuses it. Times are numbers: the watermark is the newest
  arrival, which is also when the configuration must be in effect.
- A delivery that contradicts the row of its own identifier raises and changes nothing.
- `source_of_truth` precedence is the same for all compared fields, so one
  observation is authoritative for all of them. Lifecycle comparisons do not use it.
- The post-action family is reached by tests and by an external adapter only (no
  handler supplies a verification); `OracleAgrees` quantifies over those inputs.

`OracleAgrees` compares families and fields; which observations and values a break
names, and in which order, it does not. It leaves out two cases, in which engine and
oracle part: a raising engine, and a lone observation with a wrong status, which the oracle reports
(`evaluator.py:569-582`) and the engine does not, having nothing to compare it with
(`engine.py:575`). `OnlyKnownFailures` lists the eight
lineages that fail a run, in both directions: all observations superseded by each
other; one identifier used twice; two portfolios or correlations
(`assembler.py:164`); an evaluation outside the configuration's interval
(`engine.py:72`); more than eight trades named, whose ninth placeholder hash has too
many digits (`service.py:151`); a payload or product that contradicts an accepted
linkage; a pending confirmation of a captured trade without an execution; and a
retransmitted conflict. Only the last two are breaks that the engine builds and the
contracts refuse.

### Runs and Reporting: state and actions

`reconciliation_runs` and `trade_breaks` are the tables, by run_id and portfolio;
`canonical[t]` is what version 1 of a trade was assembled from (full runs write no
other version); `work[i]` holds the locals of call `i` and the point it has reached.

| Code | Actions, in order |
|---|---|
| `run_reconciliation` | `run_reconciliation` (stamp), `observation_documents`, `conflict_documents` with the evaluation, `select_existing_states`, `insert_missing_states`, `persist_run` once per portfolio |
| environment | `Load`, `Tick`, `die` at any point |
| `build_summary` | `latest_completed_run_id`, `product_counts`, `runs_by_run_id`, `break_family_counts` |
| `GET /breaks`, `/breaks/{id}`, `/trades/{id}` | `breaks`, `query_breaks`; `break_detail`; `canonical_state_document`, `trade_detail`, `related_breaks` |

- A run_id is the second it is formatted from; a portfolio its place in
  `DEMO_PORTFOLIO_IDS`; a lineage group its trade.
- A counter of a row is kept as the set it counts, so sums become cardinalities
  of unions and a wrong member shows.
- `persist_run` takes `completed_at` inside its transaction: any second since the
  call's previous transaction. `row_id` is taken to follow the commit order, which
  differs from PostgreSQL's only for two runs that overlap within one second.
- A load that commits between the two reads may show its quarantined delivery
  without the one it contradicts; `NoConflictOverlooked` is about the other order,
  which would hide a conflict.
- A refusal (`ValueError`, whatever the engine raises, a unique violation) ends the
  call and rolls back its transaction only.
- `Reporting` needs one page: readers write nothing, and that page may begin and
  go on at any time. `GET /runs` and `observation_count` are single reads that no
  other read is compared with, and are left out. The page lists without filters.

`ImplementsLedger` maps `ledger` to the rows readers see with their breaks, and
`evaluation` to what the call that wrote the run_id had read. It says in one
formula that no two calls mix under a run_id, that nothing visible changes, and
that portfolios appear in order.

### Corpus: state and actions

`plan` is one scenario: product, mutation, side and which of two opaque
identifiers sorts first (they are hashes, so both orders are tried).
`Generated(plan)` is its deliveries in the order of the corpus; `load_demo_corpus`
ingests them, `run_reconciliation` and the correction are those of `Reconciliation`.

- Amounts enter by their differences, in units of the last digit; the currency of
  an amount moves with the currency field, type and status fields of a kind with
  its `lifecycle_status`; `late` changes `ingest_time` only, which neither the
  fingerprint nor the engine reads with the fixture configuration.
- `record` stands for the payload identity that a duplicate or a candidate
  changes, and for `book_id`.
- Scenarios share no identifier, so one lineage group at a time is enough; the
  144 scenarios of the corpus are instances of the 2 x 49 kinds that `Plans` holds.
- `POST_ACTION_VERIFICATION_FAILURE` is planned by the generator and evaluated with
  an action by the oracle's tests only. A run has no action to verify:
  `ExpectedFacts` says what it reports instead (90 broken trades of 144, as the
  integration test counts).
- `load_demo_corpus` would refuse a scenario in which a delivery contradicts the row of
  its own identifier (`Refused`); none does. `CorpusAssumption` takes the interval of
  the fixture configuration to begin before the scenarios and not to end.

## 3. Properties and runs

Passing runs (every property has a mutant of the code that breaks it):

| Run | Instance | Shows |
|---|---|---|
| `RemediationTwoCases` | 1 trade, 3 values, 2 cases, 2 identities, 2 workers | `AtMostOnce`, `LedgersAgreeAtRest`, `CorrectionsNeverCollide`, `EvidenceLostToAnotherOnly`, `TypeOK` |
| `RemediationFaults` | 1 case, 2 workers, 2 secrets, 1 death, a source revision, expiry | `FourEyes`, `ApprovedValueOnly`, `EvidenceShowsTheCorrection`, `IInv`, `EveryWriteIsApproved` |
| `RemediationRetry` | 1 case, 2 workers, 1 death, expiry, revisions of both sources | `ApprovedCaseSettles`, `EvidencedUnlessStopped` |
| `Inbox` | 2 sessions, 3 keys, 5 batches, two of them with two keys in opposite order | `TxTypeOK`, `InsertedKeyIsMine`, `ImplementsInbox`, `EveryCallIsAnswered` |
| `Reconciliation` | 15 possible deliveries, up to 6 rows kept; 3 feeds of refused lineages; 1 correction | `OracleAgrees`, `OnlyKnownFailures`, `CorrectionOnlyMends`, `AuthorityNeverRegresses`, `TypeOK` |
| `Reporting` | 2 calls, 2 portfolios, 4 deliveries in 2 loads, 2 seconds, any death, 1 page with a limit of 2 | `Consistent`, `NoConflictOverlooked`, `OnlyKilledRunsAreHalf`, `ReportedTradesAreStored`, `SummaryNeverOverstates`, `EveryLinkOpens`, `ImplementsLedger`, `TypeOK`, `PageTypeOK` |
| `Corpus` | all products, mutations, sides and identifier orders, 2 corrections, reloads | `GeneratedIsValid`, `CorpusIsDetected`, `RerunSeesTheSame`, `ProvenanceIsComplete`, `ReloadChangesNothing`, `TypeOK` |

Runs that show where the documentation and the code part (`findings` quotes the
line that says otherwise):

| Run | What happens |
|---|---|
| `CrashAfterApply` | a death after the write leaves a correction without feedback or evidence for ever |
| `ReturningFeed` | a key is applied twice when the value comes back |
| `RerunRace` | evidence names a canonical version that holds another state |
| `ConflictRetransmitted` | a conflict that is sent twice is not reported; the run fails |
| `StaleCanonical` | a run has evaluated a late arrival; the newest canonical state was assembled without it |

Bounds. `Amends` says which values a feed may report after which: with
`Forward` every trade moves at most twice over three values, enough for a
second break, a second case and a late correction; `BackAndForth` is what
`ReturningFeed` needs. Two workers are enough for every race, because each one
is between two requests. `RowCap` saturates the count of equal rejection and
no-op rows, which no property counts; applied rows are counted exactly.
`MaxRevisions` = 2 lets the booking system send one revision of its own, which
is what collides with a correction; `MaxCrashes` = 1 places a death at any point.
Workers, cases, identities and secrets are interchangeable, and symmetry is
used in the runs without liveness only. `RemediationRetry` keeps no count of
rejections (`RowCap` = 0), which makes room for the revisions. The batches of `Traffic`
contain a replay, a contradiction under each mode and under its own identifier, and a
forged fingerprint. `Corpus` and `Reversed` take the same two keys in opposite order, and
quarantine under the same identifier, so that each kind of wait can be part of a circle;
without the detector (the mutant `DetectorOff`) a call waits for ever.
The deliveries of `MCReconciliation` disagree in every family:
at a tolerance and just outside it, in status, side, date, trade and product,
with revisions that do and do not supersede, a conflict and its retransmission;
six rows exceed the four kinds, so that a linkage can be ambiguous. A correction
is made before or after the configuration's interval ends (`CorrectionTimes`). `Bounds`
says which deliveries may meet and how many rows are kept of them: besides `Traffic` the
lineages that are meant to fail, `Contenders` that name nine trades, `Unruly` ones that
come under an identifier in use, from another portfolio or correlation, or outside the
interval, and `Circular` ones that supersede each other. In
`MCReporting` two seconds let two calls share a run_id or take one each; one
trade's conflict arrives with its first load and the other trade's booking with the
second, so that groups change between reads and runs; three breaks exceed the page
limit of two. `Reporting` and `StaleCanonical` switch the deadlock check off: calls
and pages end.

Fairness. `FairSpec`: a request that has begun is served to its end unless it
dies (a thread pool runs its threads), weak fairness of `Proceed`. Clients keep
asking for the execution of an approved case: strong fairness of
`remediation_execute`, because the worker it needs may be busy again and again.
Nothing makes a client run a reconciliation, open a case or approve it.
`FairTxSpec`: PostgreSQL executes a statement that need not wait and queues the
waiting ones, strong fairness of `Statement`, and looks for circular waits after
`deadlock_timeout`, weak fairness of `deadlock_detected`. Statement timeouts are never
relied on.

## 4. Proofs

`RemediationProofs` proves, for any trades, cases, identities, workers, secrets
and values, and any bounds:

- `Consistency`: `Spec => []IInv`;
- `TypeCorrect`, `FourEyesHolds`, `ApprovedValueHolds`: the type invariant,
  `FourEyes` and `ApprovedValueOnly` always hold;
- `WritesAreApproved`: every change of a legacy record is an approved one.

`FourEyes` is not inductive: the step that writes acts on approvals and an
envelope which the request read several transactions ago. `IInv` adds what is
missing. `RequestOK` says that a request's locals agree with the rows they were
read from, and that a request past verification has two identities; `CaseOK`
that an envelope repeats its case; `LegacyOK` that the record's last key belongs
to a case of that trade. It is preserved because those rows are insert-only: the
lemmas `DecidedForever` and `KeptRows` (over `Grows`) show that rows are added and
never changed, and `OthersOK` that therefore the other requests' locals stay
right; what remains per action is the acting worker (`WorkerStep`).
`WriteStep` then derives the action property from `IInv`.

`EvidenceProofs` proves `EvidenceIsOfACorrection`: `EvidenceShowsTheCorrection`
always holds, over the same constants. The row that freezes evidence is written
seven transactions after the correction and from what the request read on its way,
so `EvidenceInv` follows it (`TailOK`): past `insert_execution` the applied row is
there, past the feedback the corrected booking is in the inbox, past the rerun's
read it is among the revisions read. The inbox and the execution log are
append-only (`Appends`), so what one request has shown stays shown while others
run (`ShownForever`, `OthersTail`). Every step uses `IInv` as well, for the envelope
repeating its case.

`OnceProofs` proves `AppliedAtMostOnce`: `ForwardFeeds => (Spec => []AtMostOnce)`.
`ForwardFeeds` says that some rank of the values rises with every pair of `Amends`,
that is, no source returns to a value it has left; the `Forward` feeds of the runs
satisfy it with the value as its own rank, and run `ReturningFeed` shows that
without it the claim is false. The idempotency key alone does not give the
result, because the record remembers only the last applied key; the value check
does. `ForwardInv` carries the order along the whole way: the latest booking is the
execution or behind it, so is what a run has read, so a break and the case made of
it lead strictly forward. A legacy record therefore only rises (`LegacyRises`), and
once a case is applied its observed value lies behind the record for good (`Kept`).
`LogOK` adds that at most one request is about to record that application.

`InboxProofs` proves, for any sessions and deliveries, `TransactionsTypeCorrect`
(`TxTypeOK`) and `InsertedKeysAreExclusive` (`InsertedKeyIsMine`): a key that an open
transaction has inserted is in nobody else's hands, committed or not. The
invariant is `TxConsistent`, the two with `Positioned`: a transaction that is about
to handle an observation points into its call's batch, without which the current
observation has no type.

`RunsProofs` proves, for any number of calls, trades, portfolios, loads and
seconds, and for any engine (`breaks_of` is a constant):

- `RunsStayConsistent`: `Spec => []Consistent`, and `RunsTypeCorrect` from it;
- `ConflictsAreSeen`, `HalfRunsWereKilled`, `ReportsCanBeOpened`:
  `NoConflictOverlooked`, `OnlyKilledRunsAreHalf`, `ReportedTradesAreStored`;
- `RunsImplementTheLedger`: `Spec => ImplementsLedger`, the refinement.

None of these is inductive. That a refused call has left nothing rests on its
first portfolio deciding: `RowsOK` says a call that has written wrote exactly its
first portfolios, `OneWriter` that no other has written under that run_id, so
the next cell is free (`NextRowIsFree`) and a collision can only happen at the
first. `Located` keeps the canonical states a call counts on, `ReadOK` with
`LoadsAreWhole` carries what the first read has seen over to the second. `Consistent`
is their conjunction. For the refinement, steps other than `SaveRow` are
stutters (`UnwrittenIsInvisible`), and `SavingShows` maps a save to `Publish` or
`Extend`; `OwnerIsTheWriter` removes the CHOOSE from the mapping.

`OnceProofs` also proves `IngestFindsItsVersion`: `CorrectionsNeverCollide` always holds when
`OnlyCorrections`, that is when the feeds are forward (as for `AtMostOnce`) and the
booking system sends no revision of its own; and `BooksAgreeAtRest`: `LedgersAgreeAtRest`
always holds when moreover no request dies (`Undisturbed`). Trades, cases, identities
and concurrent requests are arbitrary. Each hypothesis is needed: TLC violates the
properties as soon as a source revision takes the version a correction has computed,
or a value comes back and lets two corrections of a trade run at once; and a death
between the two books (`CrashAfterApply`) leaves them apart, though it makes no
correction collide. The books differ by design while a correction is under way, so
`LedgerInv` says by how much: at most one request per trade is under way, the record
holds its expected value and the newest booking still its observed one; otherwise the
books agree, or the record of a request that died is ahead for good (`Balanced`, `Even`).
That a second correction cannot start meanwhile is an argument about the past
(`PastInv`): every case is about a value that was the booking once, the latest booking
has that value or a higher rank, and the executor's value check refuses a case whose
value the record has left behind.

`InboxProofs` also proves the refinement, `AdapterImplementsInbox`: `TxSpec =>
ImplementsInbox`. Sessions, keys and batches are arbitrary, and a batch has any length.
The abstract inbox computes a batch by a recursive function over its observations, the
detailed one moves a cursor; `Led` connects them without induction over the batch: it
carries a witness, the sequence of partial results that the transaction has gone
through (`Leads`), one longer with every observation handled (`LedMove`). At commit
the witness, laid over the committed rows (`AsBatch`), is a function that goes through
the whole batch, and `BatchOutcome` says there is only one. That the rows themselves
may have changed since the witness was begun is where locks and unique keys come in:
a row seen cannot change, and a key found absent and inserted is nobody else's
(`InsertedKeyIsMine`). The statements between are stutters, a rollback is a refusal.

`ReportingProofs` proves, for any portfolios, loads, products, families and page
limit, and pages begun at any time:

- `PagesAreTyped`: `PageTypeOK`;
- `LinksOpen`: `EveryLinkOpens`, a listed break has its detail and its trade a state;
- `SummariesAddUp`: `SummaryNeverOverstates`.

`PageInv` says of each point of a page what its earlier queries have established and no
writer can take back: stored states, rows and breaks only grow (`TablesInv`, `Grows`,
from `Consistent`), so a count taken first stays at most what is there to be counted
later. `NewestExists` gives the latest run a row of its own, through row numbers that
are given once (`RowsInOrder`). `CountsAddUp` turns the summary's sums into the
cardinality of a union, for any number of portfolios and families.

`ReconciliationProofs` proves, for any feed, trades, products, tolerances and
windows:

- `GroupsStayFormed`, `ReconciliationTypeCorrect`: the group invariant and `TypeOK`;
- `EngineMeetsOracle`: `OracleAgrees`, engine against oracle;
- `RunsFailForKnownReasons`: `OnlyKnownFailures`, all eight reasons in both directions,
  for any interval, scopes and number of trades;
- `AuthorityHolds`: `AuthorityNeverRegresses`, and `CorrectionsMend`:
  `CorrectionOnlyMends`, when `RevisionsGoForward`.

Most of the engine chooses by an order: the first observation, the most common key,
the preferred source. The first lemmas show that these choices exist and are unique
(`FirstIsFirst`, `FirstIsUnique`, `MostCommonIsThere`, `ResolvedIsPreferred`), which
rests on identifiers being unique in an accepted group. `OracleAgrees` then splits by
family, one agreement lemma each (`MissingAgrees`, `LinkageAgrees`, `DuplicatesAgree`,
`CurrencyAgrees`, `DatesAgree`, `EconomicsAgree`, `LifecycleAgrees`, `PostActionAgrees`),
put together by `FamiliesAgree`. `RunFails` does the same for exceptions: which family
can build a break that `BreakComparison` refuses, and when.

`RevisionsGoForward` is what the contracts' README says under "Version and identity
rules": an identifier names one revision of one record, a revision supersedes an
older version of its own record; and no source knows the random identifiers of
corrections. `Traffic` satisfies it; the feeds
that are meant to fail do not. With it, `ChainInv` is
inductive: what supersedes a row is always a later version of it, and a quarantined
delivery contradicts a row that is there. So a superseded authority has a successor
(`SuccessorExists`), and a correction takes the place of exactly one booking
(`CorrectionReplaces`); what remains is that each family's findings after are among
those before (`FindingsMend`) and that no new exception arises (`NoNewFailure`).

Besides that the configuration is in effect when the correction is made,
`CorrectionOnlyMends` has three premises that the proof made necessary. Without them
it is false on feeds larger than the instance, and TLC confirms a lineage for each:

1. two trades tie for the most common key of a group: a correction comes with a
   higher sequence than the booking it replaces, and the group, whose trade the first
   of the tied keys decides, passes to the other trade (`service.py:227`);
2. the authoritative observation is a quarantined booking: the correction copies the
   newest booking of the inbox, becomes the authority in its place, and the newest
   booking's other fields become the reference (`service.py:374`);
3. a booking is contradicted by a delivery that was sent twice: with the booking
   superseded the two copies are the first two of their group, and the run fails as in
   `ConflictRetransmitted` (`service.py:391`).

`CorpusProofs` proves, for any trades, any set of correction identifiers and any number
of loads, runs and corrections, where the run has two corrections:

- `PopulationIsValid`: `GeneratedIsValid`, and `ChainIsComplete`: `ProvenanceIsComplete`;
- `CorpusTypeCorrect`: `TypeOK`, and `ReloadIsSafe`: `ReloadChangesNothing`;
- `ScenariosAreDetected`: `CorpusIsDetected`, and `RerunIsFaithful`: `RerunSeesTheSame`,
  when `FixtureConfig`.

`FixtureConfig` is what the argument needs of `config.py`, `fixture_config`: no arrival
window, and tolerances that tell the six restated amounts of the generator from the
agreed ones. `FixtureConfigHolds` shows it of the configuration in the code, one unit of
the last digit, and of every absolute tolerance below the generator's smallest step.

`Deliveries` turns the sequence that `_apply_mutation` builds into the set `Delivered`, and
`SpecShape` each family's mutations into what they have in common, so that the proofs
split by mutation type and not over single plans. `load_demo_corpus` folds
`ingest_observations` over the sequence; `LoadStepwise` unfolds it into a chain of partial
results, and `IngestAll` shows that afterwards each delivery is `Settled`: a row, a replay
of a row, or in quarantine. Settled deliveries change nothing and rows never leave, so
`LoadInv` is inductive and gives `ReloadIsSafe`. For detection, `CorpusInv` adds what the
tables hold: exactly what was delivered, or, if the plan restates the base amount, the
deliveries with older bookings and one that stands (`MendedBy`); and that an approved
amount is the execution's, which is where the report of one run feeds the correction after
it. So the invariant is inductive only together with the claim itself: `RunApproves` uses
`StateReported`, which is `CorpusIsDetected` with the trade found. What a run reports of
such a group is a lemma per kind of lineage: one source of each kind that agree
(`AgreedReported`) or of which one field or status differs (`FindingReported`), a source
under a foreign key, two candidates, two contents of one version (`UnmatchedReported`,
`AmbiguousReported`, `DuplicateReported`), each through `GroupReports`, which rests on
`FamiliesAgree` and `RunFails`. For the rerun, every row but the one under the foreign key
carries the trade's key (`RowsCarryTheKey`), and without that one the others agree
(`OthersReported`).

Assumptions: `RunsAssumption`, `LoadsAssumption` (a delivery belongs to one batch,
and is either first or conflicting) and `NullIsNoRow` in `Runs`; `ConstantsAssumption`,
`NullIsNoRow` (an absent row is not a row) in `Remediation` and `NullIsNoValue` in
`Policy`; `DeliveriesAssumption` in `Inbox`; `ReportingAssumption` (trades and breaks
are finitely many: `COUNT(*)` is the cardinality of a set); `ConfigAssumption`
(tolerances, windows and the effective interval are numbers) and `NullAssumption` (an absent linkage decision
is none) in `Sources`, `FeedAssumption` in `Reconciliation`; `CorpusAssumption`, `GeneratorConfig` and
`CorrectionIdsAreNew` (a correction draws no identifier of the generator) in `Corpus`;
nothing about sizes. TLC
evaluates them in the runs of `MCReporting`, `MCRemediation`, `MCInboxAdapter`,
`MCReconciliation` and `MCCorpus`. The hypotheses `ForwardFeeds`, `OnlyCorrections`,
`Undisturbed`, `RevisionsGoForward` and `FixtureConfig` are not assumptions: they stand in the theorems that need them.

Induction. A recursive function over a batch, a sum over a set and the first of a
finite set take an induction each, and an induction theorem with an operator as
parameter cannot be cited. They are proved by a least counterexample instead:
`LeastNumber` applies `WFMin` to the set of numbers at which the claim fails.

Model-checked only: liveness, which is outside TLAPS' reach: `ApprovedCaseSettles`,
`EvidencedUnlessStopped`, `EveryCallIsAnswered`; and `EvidenceLostToAnotherOnly`, which is
about two cases and checked on two. Every other property of a passing run is a theorem.

## 5. Plan

1. (done) `Policy`, `Remediation`: the core flow with its races and deaths.
2. (done) `Inbox`, `InboxAdapter`: ingestion and its refinement.
3. (done) `IInv` and the first theorems.
4. (done) `Sources`, `Engine`, `Oracle`, `Reconciliation`: the families against the
   oracle, the assembler, the failures of a run, what a correction does to it.
5. (done) `RunLedger`, `Runs`, `Reporting`: run rows per portfolio, run identifiers,
   half-visible runs, the reads of the dashboard; the refinement and its proof.
6. (done) `Corpus`: the generator against engine, inbox and rerun.
7. (done) `EvidenceProofs`, `OnceProofs`, `InboxProofs`.
8. (done) The two books in `OnceProofs`, `ReportingProofs`, `ReconciliationProofs`, the refinement in
   `InboxProofs`: every safety property of the runs outside `Corpus` is a theorem.
9. (done) `CorpusProofs`: the safety properties of `Corpus`.

## 6. Running

`tlc -config X.cfg MCRemediation` (`MCInboxAdapter` for `Inbox`, `MCReconciliation` for
`Reconciliation` and `ConflictRetransmitted`, `MCReporting` for `Reporting` and
`StaleCanonical`, `MCCorpus` for `Corpus`), and `tlapm` on
`RemediationProofs.tla`, `EvidenceProofs.tla`, `OnceProofs.tla`, `InboxProofs.tla`,
`RunsProofs.tla`, `ReportingProofs.tla`, `ReconciliationProofs.tla` and `CorpusProofs.tla`,
in this directory. `Reporting` is the longest run, about three
minutes with two workers.

## 7. What the runs do not show

`Remediation` takes the deviating source of a `base_amount` break to be the booking,
as `triage.py` does without checking; what feeding an approved value back does to
any other lineage is `CorrectionOnlyMends` in `Reconciliation` and
`CorpusIsDetected` in `Corpus`. `CorrectionOnlyMends` in turn says nothing of a correction
that moves its group to another trade, takes over the authority of another booking, or
supersedes the counterpart of a conflict that was sent twice (section 4). One trade per run of `Remediation`: trades share
nothing but workers. Rollback of a single transaction is PostgreSQL's business
and taken as given. Clocks are abstracted to "the envelope has expired" and to
whole seconds.

An applied correction may end without evidence in three ways: its request dies
(`CrashAfterApply`), the booking system takes the version the feedback is about to
insert (`service.py:419`), or another rerun of the trade takes its canonical version
(`adapter.py:416`). `EvidencedUnlessStopped` says there is no fourth for a case on its
own, `EvidenceLostToAnotherOnly` that between two cases the other was applied too.
`ApprovedCaseSettles` counts a missing legacy record, left by a death between
`insert_case` and the seeding, as a final obstacle: the code does not repair it.

Three more divergences were met and are not runs of their own. An identity that
submits both approvals at the same time passes the submission check of
`main.py:558`, which RB-002 says must reject it; `FourEyes` shows the executor
still refuses. Evidence is frozen whatever the rerun found (`main.py:683`);
`EvidenceShowsTheCorrection` says what it is about. Two concurrent first loads
collide and one fails (`adapter.py:204`): in `Inbox` that is an answer, `error`,
that leaves nothing behind.

## 8. Not modelled

- The break life cycle and the action contracts (`TradeBreak` transitions,
  `action_models.py`): the engine creates every break as detected and no handler
  moves it on; action contracts are schemas that only tests instantiate. The running
  system has no behaviour of theirs to model.
- `oracle/import_graph.py` and the scripts: static checks of the repository.
- Schema migration: DDL run once; its constraints are in the actions that meet them.
- HTTP status mapping and the token guard: no state.
- Layout and filters of the dashboard; its buttons post to modelled handlers.
- The generator's manifests and file output; prompts and JSON repair of the AI
  provider; field-by-field Pydantic validation.
