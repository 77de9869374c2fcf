----------------------------- MODULE Remediation -----------------------------
(***************************************************************************)
(* The controlled-AI remediation flow: reconciliation finds a break, triage*)
(* turns it into a case, a Maker and a Checker approve it, a signed        *)
(* envelope is issued and executed against the legacy booking record, the  *)
(* corrected booking is fed back to the inbox, the trade is reconciled     *)
(* again and the evidence is frozen (apps/api/main.py,                     *)
(* packages/remediation, the parts of apps/api/service.py they call).      *)
(*                                                                         *)
(* Every call of the store or of the adapter is a connection and a         *)
(* transaction of its own, so a request is a worker that takes one step    *)
(* per transaction.  Other requests run, and the worker may die, between   *)
(* any two of them.  Reads of insert-only rows that can no longer change   *)
(* are merged with the step that uses them.                                *)
(*                                                                         *)
(* An idempotency key is idem_<case_id>, one per case: the case stands for *)
(* its key.  Amounts are told apart by equality; two different Values are  *)
(* further apart than the tolerance.                                       *)
(***************************************************************************)
EXTENDS Policy, Sequences, FiniteSets

CONSTANTS
    Trades,         \* business keys
    CaseIds,        \* case ids that triage may draw
    Identities,     \* approver identities
    Workers,        \* requests the API serves at the same time
    Secrets,        \* values TRADEOPS_REMEDIATION_SIGNING_SECRET may take
    Amends,         \* pairs <<v, w>>: a source may report w after v
    RowCap,         \* the count of equal rows of a no-op or a rejection saturates here
    MaxRevisions,   \* booking revisions up to which the source sends its own
    MaxCrashes,     \* requests or processes that may die
    ClockAdvances   \* whether the 15 minutes of an envelope may run out

ASSUME ConstantsAssumption ==
    /\ NULL \notin CaseIds \cup Identities \cup Secrets
    /\ Amends \subseteq Values \X Values
    /\ RowCap \in Nat
    /\ MaxRevisions \in Nat
    /\ MaxCrashes \in Nat
    /\ ClockAdvances \in BOOLEAN

VARIABLES
    execution,      \* [Trades -> Values]: base_amount of the trade's EXECUTION
    bookings,       \* the trade's BOOKING revisions in the inbox, by version
    canonical,      \* canonical trade states, by canonical_state_version
    breaks,         \* base_amount breaks persisted by reconciliation runs
    legacy,         \* legacy_booking_records
    cases,          \* remediation_cases
    approvals,      \* remediation_approvals: [CaseIds -> [Roles -> identity]]
    envelopes,      \* remediation_envelopes
    executions,     \* remediation_executions: rows per case and outcome
    evidence,       \* remediation_evidence
    expired,        \* cases whose envelope's expires_at has passed
    secret,         \* the signing secret the API process runs with
    req,            \* what each worker is doing
    crashes,        \* deaths so far
    commits         \* history: legacy updates committed under each key

sources == <<execution, bookings, canonical, breaks>>
store   == <<legacy, cases, approvals, envelopes, executions, evidence>>
clock   == <<expired, secret>>
vars    == <<sources, store, clock, req, crashes, commits>>

-----------------------------------------------------------------------------
(***************************************************************************)
(* Rows and requests.                                                      *)
(***************************************************************************)
Roles == {"MAKER", "CHECKER"}

Outcomes == { "SUCCESS", "DUPLICATE_NOOP", "REJECTED_EXPIRED", "REJECTED_TAMPERED",
              "REJECTED_APPROVALS_MISSING", "REJECTED_SAME_IDENTITY",
              "REJECTED_VALUE_MISMATCH" }

\* A BOOKING revision; origin is the case whose correction it carries, NULL
\* when the booking system sent it.
Booking == [ value : Values, origin : CaseIds \cup {NULL} ]

\* What a reconciliation reads of one trade, and what the canonical state
\* assembled from it pins down: the values and the newest booking version.
Snapshot == [ execution : Values, booking : Values, revision : Nat ]

Break == [ trade_id : Trades, expected_value : Values, observed_value : Values ]

LegacyRecord == [ base_amount_value : Values, booking_version : Nat,
                  last_applied_idempotency_key : CaseIds \cup {NULL} ]

Case == [ trade_id : Trades, expected_value : Values, observed_value : Values,
          decision : PolicyDecision ]

ActionEnvelope == [ trade_id : Trades, approved_value : Values, expected_old_value : Values,
                    maker_identity : Identities, checker_identity : Identities,
                    signature : Secrets ]

Evidence == [ executions : [Outcomes -> Nat], reconciled : Snapshot,
              canonical_state_version : Nat ]

\* An absent row or an absent verdict is told apart from a present one.
ASSUME NullIsNoRow ==
    /\ NULL \notin Outcomes
    /\ NULL \notin LegacyRecord
    /\ NULL \notin Case
    /\ NULL \notin ActionEnvelope
    /\ NULL \notin Evidence
    /\ NULL \notin [Trades -> Snapshot]

\* The points between two transactions of a request.
Points == { "idle", "persist_canonical", "persist_run", "seed", "insert_approval",
            "envelope", "verify", "apply", "record", "read_booking", "ingest",
            "rerun_read", "rerun_version", "rerun_persist", "finalize" }

\* One worker's locals: the case, the approval being submitted, the approval
\* rows and the envelope it read, the execution outcome, the newest booking
\* version it read, the observations it read, the next canonical version, and
\* the trades that had no canonical state when a run began.
Request == [ pc : Points, case : CaseIds \cup {NULL},
             role : Roles, identity : Identities \cup {NULL},
             approved : [Roles -> Identities \cup {NULL}],
             envelope : ActionEnvelope \cup {NULL},
             outcome : Outcomes, latest : Nat,
             seen : [Trades -> Snapshot] \cup {NULL}, version : Nat,
             unstored : SUBSET Trades ]

NoApprovals == [role \in Roles |-> NULL]

Idle == [ pc |-> "idle", case |-> NULL, role |-> "MAKER", identity |-> NULL,
          approved |-> NoApprovals, envelope |-> NULL, outcome |-> "SUCCESS",
          latest |-> 0, seen |-> NULL, version |-> 0, unstored |-> {} ]

TypeOK ==
    /\ execution  \in [Trades -> Values]
    /\ bookings   \in [Trades -> Seq(Booking)]
    /\ canonical  \in [Trades -> Seq(Snapshot)]
    /\ breaks     \subseteq Break
    /\ legacy     \in [Trades -> LegacyRecord \cup {NULL}]
    /\ cases      \in [CaseIds -> Case \cup {NULL}]
    /\ approvals  \in [CaseIds -> [Roles -> Identities \cup {NULL}]]
    /\ envelopes  \in [CaseIds -> ActionEnvelope \cup {NULL}]
    /\ executions \in [CaseIds -> [Outcomes -> Nat]]
    /\ evidence   \in [CaseIds -> Evidence \cup {NULL}]
    /\ expired    \subseteq CaseIds
    /\ secret     \in Secrets
    /\ req        \in [Workers -> Request]
    /\ crashes    \in Nat
    /\ commits    \in [CaseIds -> Nat]

-----------------------------------------------------------------------------
(***************************************************************************)
(* The demo corpus is loaded: every trade has one EXECUTION and one        *)
(* BOOKING observation, which may disagree.                                *)
(***************************************************************************)
\* w is the value v, or one that a source may report after v.
Follows(v, w) == v = w \/ <<v, w>> \in Amends

Init ==
    /\ execution \in [Trades -> Values]
    /\ \E value \in [Trades -> Values] :
          /\ \A t \in Trades : Follows(value[t], execution[t])
          /\ bookings = [t \in Trades |-> << [value |-> value[t], origin |-> NULL] >>]
    /\ canonical  = [t \in Trades |-> <<>>]
    /\ breaks     = {}
    /\ legacy     = [t \in Trades |-> NULL]
    /\ cases      = [c \in CaseIds |-> NULL]
    /\ approvals  = [c \in CaseIds |-> NoApprovals]
    /\ envelopes  = [c \in CaseIds |-> NULL]
    /\ executions = [c \in CaseIds |-> [o \in Outcomes |-> 0]]
    /\ evidence   = [c \in CaseIds |-> NULL]
    /\ expired    = {}
    /\ secret     \in Secrets
    /\ req        = [w \in Workers |-> Idle]
    /\ crashes    = 0
    /\ commits    = [c \in CaseIds |-> 0]

-----------------------------------------------------------------------------
(***************************************************************************)
(* The world: the source systems deliver revisions, time passes, the       *)
(* process is restarted.                                                   *)
(***************************************************************************)
\* ingest_observations of an EXECUTION that supersedes the current one.
DeliverExecution(t, v) ==
    /\ <<execution[t], v>> \in Amends
    /\ execution' = [execution EXCEPT ![t] = v]
    /\ UNCHANGED <<bookings, canonical, breaks, store, clock, req, crashes, commits>>

\* ingest_observations of a BOOKING revision sent by the booking system itself,
\* which supersedes its latest revision.
DeliverBooking(t, v) ==
    /\ Len(bookings[t]) < MaxRevisions
    /\ Follows(v, execution[t])
    /\ bookings' = [bookings EXCEPT ![t] = Append(@, [value |-> v, origin |-> NULL])]
    /\ UNCHANGED <<execution, canonical, breaks, store, clock, req, crashes, commits>>

ExpireEnvelope(c) ==
    /\ ClockAdvances
    /\ envelopes[c] # NULL
    /\ c \notin expired
    /\ expired' = expired \cup {c}
    /\ UNCHANGED <<sources, store, secret, req, crashes, commits>>

\* The API process is restarted, with a rotated secret or the same one: every
\* request in flight dies.
Restart(s) ==
    /\ crashes < MaxCrashes
    /\ crashes' = crashes + 1
    /\ secret' = s
    /\ req' = [w \in Workers |-> Idle]
    /\ UNCHANGED <<sources, store, expired, commits>>

\* One request dies between two transactions: an exception of the database,
\* a statement timeout, a killed thread.
Crash(w) ==
    /\ crashes < MaxCrashes
    /\ req[w].pc # "idle"
    /\ crashes' = crashes + 1
    /\ req' = [req EXCEPT ![w] = Idle]
    /\ UNCHANGED <<sources, store, clock, commits>>

-----------------------------------------------------------------------------
(***************************************************************************)
(* POST /reconciliation/run: read the inbox, persist canonical states      *)
(* (always as version 1), persist the run with its breaks.                 *)
(***************************************************************************)
observation_documents ==
    [ t \in Trades |-> [ execution |-> execution[t],
                         booking   |-> bookings[t][Len(bookings[t])].value,
                         revision  |-> Len(bookings[t]) ] ]

run_reconciliation(w) ==
    /\ req[w].pc = "idle"
    /\ req' = [req EXCEPT ![w] =
                 [Idle EXCEPT !.pc = "persist_canonical",
                              !.seen = observation_documents,
                              !.unstored = { t \in Trades : canonical[t] = <<>> }]]
    /\ UNCHANGED <<sources, store, clock, crashes, commits>>

\* persist_canonical_states on one state: a SELECT that finds the version
\* leaves it as it is, silently; otherwise the state is inserted.
PersistCanonical(t, version, snapshot) ==
    IF version \in DOMAIN canonical[t] THEN canonical[t]
                                       ELSE Append(canonical[t], snapshot)

persist_canonical_states(w) ==
    /\ req[w].pc = "persist_canonical"
    /\ canonical' = [t \in Trades |-> PersistCanonical(t, 1, req[w].seen[t])]
    /\ req' = [req EXCEPT ![w].pc = "persist_run"]
    /\ UNCHANGED <<execution, bookings, breaks, store, clock, crashes, commits>>

\* A version stored since the run began may also have been stored between the
\* SELECT and the INSERT: the unique constraint rolls the transaction back and
\* the request fails.
persist_canonical_violation(w) ==
    /\ req[w].pc = "persist_canonical"
    /\ \E t \in req[w].unstored : canonical[t] # <<>>
    /\ req' = [req EXCEPT ![w] = Idle]
    /\ UNCHANGED <<sources, store, clock, crashes, commits>>

\* The engine's verdict on one trade: the booking against the authoritative
\* execution.
BreakOf(t, snapshot) ==
    IF snapshot.booking = snapshot.execution
        THEN {}
        ELSE { [ trade_id       |-> t,
                 expected_value |-> snapshot.execution,
                 observed_value |-> snapshot.booking ] }

persist_run(w) ==
    /\ req[w].pc = "persist_run"
    /\ breaks' = breaks \cup UNION { BreakOf(t, req[w].seen[t]) : t \in Trades }
    /\ req' = [req EXCEPT ![w] = Idle]
    /\ UNCHANGED <<execution, bookings, canonical, store, clock, crashes, commits>>

-----------------------------------------------------------------------------
(***************************************************************************)
(* POST /remediation/cases: triage of one break, of any earlier run.       *)
(***************************************************************************)
FactsOf(b) == [ field_path     |-> SUPPORTED_FIELD_PATH,
                expected_value |-> b.expected_value,
                observed_value |-> b.observed_value ]

\* The provider may answer anything the schema admits; the policy decides.
Decisions(facts) == { evaluate(rec, facts) : rec \in AIRecommendation }

generate_case(w, c, b) ==
    /\ req[w].pc = "idle"
    /\ cases[c] = NULL
    /\ b \in breaks
    /\ canonical[b.trade_id] # <<>>
    /\ \E decision \in Decisions(FactsOf(b)) :
          cases' = [cases EXCEPT ![c] = [ trade_id       |-> b.trade_id,
                                          expected_value |-> b.expected_value,
                                          observed_value |-> b.observed_value,
                                          decision       |-> decision ]]
    /\ req' = [req EXCEPT ![w] = [Idle EXCEPT !.pc = "seed", !.case = c]]
    /\ UNCHANGED <<sources, legacy, approvals, envelopes, executions, evidence, clock,
                   crashes, commits>>

seed_legacy_booking_record(w) ==
    /\ req[w].pc = "seed"
    /\ LET case == cases[req[w].case] IN
          legacy' = [legacy EXCEPT ![case.trade_id] =
                       IF @ = NULL
                         THEN [ base_amount_value            |-> case.observed_value,
                                booking_version              |-> 1,
                                last_applied_idempotency_key |-> NULL ]
                         ELSE @]
    /\ req' = [req EXCEPT ![w] = Idle]
    /\ UNCHANGED <<sources, cases, approvals, envelopes, executions, evidence, clock,
                   crashes, commits>>

-----------------------------------------------------------------------------
(***************************************************************************)
(* POST /remediation/cases/{id}/maker-approval and checker-approval.       *)
(***************************************************************************)
Eligible(c) ==
    /\ cases[c] # NULL
    /\ cases[c].decision.outcome = "ELIGIBLE_FOR_APPROVAL"

OtherRole(role) == IF role = "MAKER" THEN "CHECKER" ELSE "MAKER"

\* The case and the approval rows are read and the identities compared; the
\* row is inserted by a later transaction.
submit_approval(w, c, role, identity) ==
    /\ req[w].pc = "idle"
    /\ Eligible(c)
    /\ approvals[c][OtherRole(role)] # identity
    /\ req' = [req EXCEPT ![w] = [Idle EXCEPT !.pc = "insert_approval", !.case = c,
                                              !.role = role, !.identity = identity]]
    /\ UNCHANGED <<sources, store, clock, crashes, commits>>

\* Slip: a second decision for the role replaces the first.
InsertApprovalReplaces(w) ==
    /\ req[w].pc = "insert_approval"
    /\ approvals' = [approvals EXCEPT ![req[w].case][req[w].role] = req[w].identity]
    /\ req' = [req EXCEPT ![w] = Idle]
    /\ UNCHANGED <<sources, legacy, cases, envelopes, executions, evidence, clock,
                   crashes, commits>>

\* UNIQUE (case_id, role): a second decision for the role is refused.
insert_approval(w) ==
    /\ req[w].pc = "insert_approval"
    /\ approvals' = [approvals EXCEPT ![req[w].case][req[w].role] =
                        IF @ = NULL THEN req[w].identity ELSE @]
    /\ req' = [req EXCEPT ![w] = Idle]
    /\ UNCHANGED <<sources, legacy, cases, envelopes, executions, evidence, clock,
                   crashes, commits>>

-----------------------------------------------------------------------------
(***************************************************************************)
(* POST /remediation/cases/{id}/execute.                                   *)
(***************************************************************************)
\* Slip: nobody asks whether both roles have decided.
ExecuteBeforeApproval(w, c) ==
    /\ req[w].pc = "idle"
    /\ Eligible(c)
    /\ req' = [req EXCEPT ![w] = [Idle EXCEPT !.pc = "envelope", !.case = c,
                                              !.approved = approvals[c]]]
    /\ UNCHANGED <<sources, store, clock, crashes, commits>>

\* The case and the approval rows are read; both roles must have decided.
remediation_execute(w, c) ==
    /\ req[w].pc = "idle"
    /\ Eligible(c)
    /\ \A role \in Roles : approvals[c][role] # NULL
    /\ req' = [req EXCEPT ![w] = [Idle EXCEPT !.pc = "envelope", !.case = c,
                                              !.approved = approvals[c]]]
    /\ UNCHANGED <<sources, store, clock, crashes, commits>>

\* build_envelope, from the case, its facts and the approval rows that were read.
build_envelope(c, approved) ==
    [ trade_id           |-> cases[c].trade_id,
      approved_value     |-> cases[c].decision.approved_value,
      expected_old_value |-> cases[c].observed_value,
      maker_identity     |-> approved["MAKER"],
      checker_identity   |-> approved["CHECKER"],
      signature          |-> secret ]

\* Slip: a case that has its envelope already is refused.
InsertEnvelopeOnce(w) ==
    LET c        == req[w].case
        envelope == build_envelope(c, req[w].approved)
    IN  /\ req[w].pc = "envelope"
        /\ IF envelopes[c] = NULL
             THEN /\ envelopes' = [envelopes EXCEPT ![c] = envelope]
                  /\ req' = [req EXCEPT ![w].pc = "verify", ![w].envelope = envelope]
             ELSE /\ req' = [req EXCEPT ![w] = Idle]
                  /\ UNCHANGED envelopes
        /\ UNCHANGED <<sources, legacy, cases, approvals, executions, evidence, clock,
                       crashes, commits>>

\* get_envelope, or insert_envelope_if_absent and read back: the first
\* envelope of a case is its only one.
insert_envelope_if_absent(w) ==
    LET c        == req[w].case
        envelope == IF envelopes[c] = NULL THEN build_envelope(c, req[w].approved)
                                           ELSE envelopes[c]
    IN  /\ req[w].pc = "envelope"
        /\ envelopes' = [envelopes EXCEPT ![c] = envelope]
        /\ req' = [req EXCEPT ![w].pc = "verify", ![w].envelope = envelope]
        /\ UNCHANGED <<sources, legacy, cases, approvals, executions, evidence, clock,
                       crashes, commits>>

\* Slip: the executor trusts the submission check for different identities.
RejectionTrustsSubmission(r) ==
    IF r.envelope.signature # secret THEN "REJECTED_TAMPERED"
    ELSE IF r.case \in expired THEN "REJECTED_EXPIRED"
    ELSE NULL

\* verify_envelope and _require_valid_approvals: the first rule that rejects,
\* NULL when none does.
Rejection(r) ==
    IF r.envelope.signature # secret THEN "REJECTED_TAMPERED"
    ELSE IF r.case \in expired THEN "REJECTED_EXPIRED"
    ELSE IF \E role \in Roles : r.approved[role] = NULL THEN "REJECTED_APPROVALS_MISSING"
    ELSE IF \/ r.approved["MAKER"] = r.approved["CHECKER"]
            \/ r.approved["MAKER"] # r.envelope.maker_identity
            \/ r.approved["CHECKER"] # r.envelope.checker_identity
         THEN "REJECTED_SAME_IDENTITY"
    ELSE NULL

verify_envelope(w) ==
    LET rejection == Rejection(req[w]) IN
    /\ req[w].pc = "verify"
    /\ req' = [req EXCEPT ![w] =
                 IF rejection = NULL
                   THEN [@ EXCEPT !.pc = "apply"]
                   ELSE [@ EXCEPT !.pc = "record", !.outcome = rejection]]
    /\ UNCHANGED <<sources, store, clock, crashes, commits>>

\* Slip: the last applied key alone stands between the envelope and the record.
ApplyOutcomeByKey(record, key, envelope) ==
    IF record = NULL THEN "REJECTED_VALUE_MISMATCH"
    ELSE IF record.last_applied_idempotency_key = key THEN "DUPLICATE_NOOP"
    ELSE "SUCCESS"

\* What the row-locking transaction decides on the legacy record it reads.
ApplyOutcome(record, key, envelope) ==
    IF record = NULL THEN "REJECTED_VALUE_MISMATCH"
    ELSE IF record.last_applied_idempotency_key = key THEN "DUPLICATE_NOOP"
    ELSE IF record.base_amount_value # envelope.expected_old_value
         THEN "REJECTED_VALUE_MISMATCH"
    ELSE "SUCCESS"

\* Slip: the booking version is not counted up.
CorrectedInPlace(record, key, envelope) ==
    [record EXCEPT !.base_amount_value = envelope.approved_value,
                   !.last_applied_idempotency_key = key]

Corrected(record, key, envelope) ==
    [ base_amount_value            |-> envelope.approved_value,
      booking_version              |-> record.booking_version + 1,
      last_applied_idempotency_key |-> key ]

\* SELECT ... FOR UPDATE, the checks and the UPDATE commit as one.
apply_legacy_booking_correction(w) ==
    LET c        == req[w].case
        envelope == req[w].envelope
        t        == envelope.trade_id
        outcome  == ApplyOutcome(legacy[t], c, envelope)
    IN  /\ req[w].pc = "apply"
        /\ IF outcome = "SUCCESS"
             THEN /\ legacy'  = [legacy EXCEPT ![t] = Corrected(@, c, envelope)]
                  /\ commits' = [commits EXCEPT ![c] = @ + 1]
             ELSE UNCHANGED <<legacy, commits>>
        /\ req' = [req EXCEPT ![w].pc = "record", ![w].outcome = outcome]
        /\ UNCHANGED <<sources, cases, approvals, envelopes, executions, evidence, clock,
                       crashes>>

\* One more row; applied rows are counted exactly.
Counted(rows, outcome) == IF outcome = "SUCCESS" \/ rows < RowCap THEN rows + 1 ELSE rows

\* Slip: the handler answers as soon as the outcome is recorded.
InsertExecutionAndAnswer(w) ==
    /\ req[w].pc = "record"
    /\ executions' = [executions EXCEPT ![req[w].case][req[w].outcome] = Counted(@, req[w].outcome)]
    /\ req' = [req EXCEPT ![w] = Idle]
    /\ UNCHANGED <<sources, legacy, cases, approvals, envelopes, evidence, clock,
                   crashes, commits>>

\* insert_execution; the handler goes on only after an applied correction.
insert_execution(w) ==
    LET c == req[w].case
        o == req[w].outcome
    IN  /\ req[w].pc = "record"
        /\ executions' = [executions EXCEPT ![c][o] = Counted(@, o)]
        /\ req' = [req EXCEPT ![w] = IF o = "SUCCESS" THEN [@ EXCEPT !.pc = "read_booking"]
                                                      ELSE Idle]
        /\ UNCHANGED <<sources, legacy, cases, approvals, envelopes, evidence, clock,
                       crashes, commits>>

-----------------------------------------------------------------------------
(***************************************************************************)
(* The tail of an applied execution: feed the correction back, reconcile   *)
(* the trade again, freeze the evidence.                                   *)
(***************************************************************************)
\* ingest_corrected_booking_observation reads the newest BOOKING revision ...
read_latest_booking(w) ==
    /\ req[w].pc = "read_booking"
    /\ req' = [req EXCEPT ![w].pc = "ingest",
                          ![w].latest = Len(bookings[req[w].envelope.trade_id])]
    /\ UNCHANGED <<sources, store, clock, crashes, commits>>

\* Slip: SourceConflictError is swallowed.
IngestIgnoresConflict(w) ==
    LET t == req[w].envelope.trade_id IN
    /\ req[w].pc = "ingest"
    /\ bookings' = [bookings EXCEPT ![t] =
                      IF Len(@) # req[w].latest THEN @
                      ELSE Append(@, [ value  |-> req[w].envelope.approved_value,
                                       origin |-> req[w].case ])]
    /\ req' = [req EXCEPT ![w].pc = "rerun_read"]
    /\ UNCHANGED <<execution, canonical, breaks, store, clock, crashes, commits>>

\* ... and ingests the next version.  If that version has arrived meanwhile
\* the inbox raises SourceConflictError and the request fails.
ingest_corrected_booking_observation(w) ==
    LET t == req[w].envelope.trade_id IN
    /\ req[w].pc = "ingest"
    /\ IF Len(bookings[t]) = req[w].latest
         THEN /\ bookings' = [bookings EXCEPT ![t] =
                                Append(@, [ value  |-> req[w].envelope.approved_value,
                                            origin |-> req[w].case ])]
              /\ req' = [req EXCEPT ![w].pc = "rerun_read"]
         ELSE /\ req' = [req EXCEPT ![w] = Idle]
              /\ UNCHANGED bookings
    /\ UNCHANGED <<execution, canonical, breaks, store, clock, crashes, commits>>

\* rerun_trade_reconciliation: read the observations, then the newest
\* canonical version, then persist the next one.
rerun_read(w) ==
    /\ req[w].pc = "rerun_read"
    /\ req' = [req EXCEPT ![w].pc = "rerun_version", ![w].seen = observation_documents]
    /\ UNCHANGED <<sources, store, clock, crashes, commits>>

\* Slip: the newest version is taken for the next one.
RerunNewestVersion(w) ==
    /\ req[w].pc = "rerun_version"
    /\ req' = [req EXCEPT ![w].pc = "rerun_persist",
                          ![w].version = Len(canonical[req[w].envelope.trade_id])]
    /\ UNCHANGED <<sources, store, clock, crashes, commits>>

rerun_version(w) ==
    /\ req[w].pc = "rerun_version"
    /\ req' = [req EXCEPT ![w].pc = "rerun_persist",
                          ![w].version = Len(canonical[req[w].envelope.trade_id]) + 1]
    /\ UNCHANGED <<sources, store, clock, crashes, commits>>

rerun_persist(w) ==
    LET t == req[w].envelope.trade_id IN
    /\ req[w].pc = "rerun_persist"
    /\ canonical' = [canonical EXCEPT ![t] =
                       PersistCanonical(t, req[w].version, req[w].seen[t])]
    /\ req' = [req EXCEPT ![w].pc = "finalize"]
    /\ UNCHANGED <<execution, bookings, breaks, store, clock, crashes, commits>>

\* As for a run: the version may have been taken between SELECT and INSERT.
rerun_persist_violation(w) ==
    /\ req[w].pc = "rerun_persist"
    /\ req[w].version \in DOMAIN canonical[req[w].envelope.trade_id]
    /\ req' = [req EXCEPT ![w] = Idle]
    /\ UNCHANGED <<sources, store, clock, crashes, commits>>

\* The case view is read and frozen together with the rerun's result; the
\* first evidence of a case is its only one.
finalize_evidence(w) ==
    LET c == req[w].case IN
    /\ req[w].pc = "finalize"
    /\ evidence' = [evidence EXCEPT ![c] =
                      IF @ = NULL
                        THEN [ executions |-> executions[c],
                               reconciled |-> req[w].seen[req[w].envelope.trade_id],
                               canonical_state_version |-> req[w].version ]
                        ELSE @]
    /\ req' = [req EXCEPT ![w] = Idle]
    /\ UNCHANGED <<sources, legacy, cases, approvals, envelopes, executions, clock,
                   crashes, commits>>

-----------------------------------------------------------------------------
\* A worker that has begun a request takes its next transaction.
Proceed(w) ==
    \/ persist_canonical_states(w)
    \/ persist_canonical_violation(w)
    \/ persist_run(w)
    \/ seed_legacy_booking_record(w)
    \/ insert_approval(w)
    \/ insert_envelope_if_absent(w)
    \/ verify_envelope(w)
    \/ apply_legacy_booking_correction(w)
    \/ insert_execution(w)
    \/ read_latest_booking(w)
    \/ ingest_corrected_booking_observation(w)
    \/ rerun_read(w)
    \/ rerun_version(w)
    \/ rerun_persist(w)
    \/ rerun_persist_violation(w)
    \/ finalize_evidence(w)

\* A client's call reaches an idle worker.
Call(w) ==
    \/ run_reconciliation(w)
    \/ \E c \in CaseIds, b \in breaks : generate_case(w, c, b)
    \/ \E c \in CaseIds, role \in Roles, i \in Identities : submit_approval(w, c, role, i)
    \/ \E c \in CaseIds : remediation_execute(w, c)

World ==
    \/ \E t \in Trades, v \in Values : DeliverExecution(t, v)
    \/ \E t \in Trades, v \in Values : DeliverBooking(t, v)
    \/ \E c \in CaseIds : ExpireEnvelope(c)
    \/ \E s \in Secrets : Restart(s)
    \/ \E w \in Workers : Crash(w)

Next == World \/ \E w \in Workers : Call(w) \/ Proceed(w)

Spec == Init /\ [][Next]_vars

\* A request that has begun is served to its end unless it dies, and a client
\* keeps asking for the execution of an approved case.
FairSpec ==
    /\ Spec
    /\ \A w \in Workers : WF_vars(Proceed(w))
    /\ \A c \in CaseIds : SF_vars(\E w \in Workers : remediation_execute(w, c))

-----------------------------------------------------------------------------
(***************************************************************************)
(* Safety.                                                                 *)
(***************************************************************************)
\* Two different identities stand on the approval rows of the case.
TwoIdentities(c) ==
    /\ \A role \in Roles : approvals[c][role] # NULL
    /\ approvals[c]["MAKER"] # approvals[c]["CHECKER"]

\* Whatever the requests' interleaving, a correction reaches the legacy record
\* only for a case the policy found eligible and two different identities
\* approved.  The submission check alone does not give this: the executor's
\* _require_valid_approvals does.
FourEyes == \A c \in CaseIds : commits[c] > 0 => Eligible(c) /\ TwoIdentities(c)

\* The envelope an execution presents, and the value the legacy record holds
\* under a key, are those of the break the approvers saw: the authoritative
\* value replaces the observed one, on that trade.  The AI's number never
\* gets through on its own.
ApprovedValueOnly ==
    /\ \A c \in CaseIds : envelopes[c] # NULL =>
          /\ envelopes[c].trade_id = cases[c].trade_id
          /\ envelopes[c].approved_value = cases[c].expected_value
          /\ envelopes[c].expected_old_value = cases[c].observed_value
    /\ \A t \in Trades :
          LET key == legacy[t].last_applied_idempotency_key IN
          legacy[t] # NULL /\ key # NULL =>
             /\ commits[key] > 0
             /\ cases[key].trade_id = t
             /\ legacy[t].base_amount_value = cases[key].expected_value

\* An idempotency key changes the legacy record at most once, over replays,
\* concurrent executions, deaths and retries, and the execution log never
\* claims an application that did not happen (store.py
\* apply_legacy_booking_correction).  Needs feeds that never return to an
\* earlier value; see OneAppliedRow.
AtMostOnce == \A c \in CaseIds : executions[c]["SUCCESS"] <= commits[c] /\ commits[c] <= 1

\* Frozen evidence is about an action that took place: it holds the applied
\* execution row, and the reconciliation it reports read the booking revision
\* that carries the correction.
EvidenceShowsTheCorrection ==
    \A c \in CaseIds : evidence[c] # NULL =>
        /\ evidence[c].executions["SUCCESS"] > 0
        /\ \E i \in 1 .. evidence[c].reconciled.revision :
              bookings[cases[c].trade_id][i] =
                 [value |-> cases[c].expected_value, origin |-> c]

\* A step changes a legacy record, once there, only by the correction of an
\* eligible case of that trade, with two approving identities, whose observed
\* value the record held, and booking_version counts the change.
ApprovedWrite ==
    \A t \in Trades : legacy[t] # NULL /\ legacy'[t] # legacy[t] =>
        \E c \in CaseIds :
            /\ Eligible(c) /\ TwoIdentities(c)
            /\ cases[c].trade_id = t
            /\ legacy[t].base_amount_value = cases[c].observed_value
            /\ legacy'[t] = [ base_amount_value |-> cases[c].expected_value,
                              booking_version |-> legacy[t].booking_version + 1,
                              last_applied_idempotency_key |-> c ]

\* The legacy record is written by approved corrections only, and by no other
\* step of any handler (store.py, seed_legacy_booking_record and
\* apply_legacy_booking_correction).
EveryWriteIsApproved == [][ApprovedWrite]_vars

\* A request has applied the correction of c and is not done with it.
InAftermath(c) ==
    \E w \in Workers :
        /\ req[w].case = c /\ req[w].outcome = "SUCCESS"
        /\ req[w].pc \in {"record", "read_booking", "ingest", "rerun_read", "rerun_version",
                          "rerun_persist", "finalize"}

-----------------------------------------------------------------------------
(***************************************************************************)
(* What holds while no request dies and the booking system sends no        *)
(* revision of its own.                                                    *)
(***************************************************************************)
\* When no request is in flight the two books agree: the newest booking the
\* reconciliation engine sees is the value of the legacy record.
LedgersAgreeAtRest ==
    (\A w \in Workers : req[w].pc = "idle") =>
        \A t \in Trades : legacy[t] # NULL =>
            legacy[t].base_amount_value = observation_documents[t].booking

\* Between the read of the newest booking and the insert of the next version
\* no other correction of the trade gets in, although nothing locks the
\* inbox: a second correction needs a case for the value the first one
\* delivers.  SourceConflictError is never raised here.
CorrectionsNeverCollide ==
    \A w \in Workers : req[w].pc = "ingest" =>
        Len(bookings[req[w].envelope.trade_id]) = req[w].latest

\* An applied correction loses its evidence to another correction of the same
\* trade only: two reruns compute one canonical version and the unique
\* constraint fails the second request, after its legacy write (adapter.py:416,
\* service.py rerun_trade_reconciliation).
EvidenceLostToAnotherOnly ==
    \A c \in CaseIds : commits[c] > 0 /\ evidence[c] = NULL /\ ~ InAftermath(c) =>
        \E d \in CaseIds \ {c} :
            /\ cases[d] # NULL /\ cases[d].trade_id = cases[c].trade_id
            /\ executions[d]["SUCCESS"] > 0

-----------------------------------------------------------------------------
(***************************************************************************)
(* Liveness, under FairSpec.                                               *)
(***************************************************************************)
\* An applied correction is eventually recorded, fed back, verified by a
\* rerun and frozen as evidence.
AppliedIsEvidenced ==
    \A c \in CaseIds : (commits[c] > 0) ~> (evidence[c] # NULL)

\* Such a request is overtaken: the booking version it is about to insert arrived
\* meanwhile (SourceConflictError), or the canonical version it is about to
\* insert has been stored meanwhile (unique violation).
Overtaken(c) ==
    \E w \in Workers :
        /\ req[w].case = c
        /\ LET t == req[w].envelope.trade_id IN
              \/ req[w].pc = "ingest" /\ Len(bookings[t]) # req[w].latest
              \/ req[w].pc = "rerun_persist" /\ req[w].version \in DOMAIN canonical[t]

\* A request that has applied a correction ends with frozen evidence, unless a
\* request dies or it is itself overtaken by a booking revision or by the rerun
\* of another case (service.py:419, adapter.py:416), whatever else runs, expires
\* or is retried meanwhile.
EvidencedUnlessStopped ==
    \A c \in CaseIds : InAftermath(c) ~> (evidence[c] # NULL \/ crashes > 0 \/ Overtaken(c))

\* A retried execution of an approved case settles: the correction is applied,
\* or what stands in the way is final (expired or no longer verifiable
\* envelope, a record that is missing or holds another value).
Blocked(c) ==
    /\ cases[c] # NULL
    /\ LET record == legacy[cases[c].trade_id] IN
          \/ c \in expired
          \/ record = NULL
          \/ record.base_amount_value # cases[c].observed_value

ApprovedCaseSettles ==
    \A c \in CaseIds :
        (Eligible(c) /\ TwoIdentities(c)) ~> (commits[c] > 0 \/ Blocked(c))

-----------------------------------------------------------------------------
(***************************************************************************)
(* What the documentation says and the code does not keep.                 *)
(***************************************************************************)
\* DDL 0004: at most one row per idempotency_key may ever have applied = true.
OneAppliedRow == \A c \in CaseIds : executions[c]["SUCCESS"] <= 1

\* The canonical state that evidence names is the one that was persisted under
\* that version.
EvidenceNamesStoredState ==
    \A c \in CaseIds : evidence[c] # NULL =>
        canonical[cases[c].trade_id][evidence[c].canonical_state_version]
            = evidence[c].reconciled

=============================================================================
