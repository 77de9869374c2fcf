------------------------- MODULE RemediationProofs -------------------------
(***************************************************************************)
(* Machine-checked proofs about Remediation, for any sets of trades, cases,*)
(* identities, workers and secrets.  First types, then the fact that rows  *)
(* are only inserted, then the invariant action by action.                 *)
(***************************************************************************)
EXTENDS RemediationInv, TLAPS

USE NullIsNoValue, ConstantsAssumption

\* A policy decision is well formed, and an eligible one approves the engine's
\* value and no other (policy.py, evaluate).
LEMMA EvaluateType ==
    ASSUME NEW rec \in AIRecommendation, NEW facts \in BreakFacts
    PROVE  /\ evaluate(rec, facts) \in PolicyDecision
           /\ evaluate(rec, facts).outcome = "ELIGIBLE_FOR_APPROVAL"
                 => evaluate(rec, facts).approved_value = facts.expected_value
  BY DEF evaluate, AIRecommendation, BreakFacts, PolicyDecision, PolicyOutcome,
         PassesRules, ProposalMatchesBreak, RoutedToManual

\* An idle worker's locals are a request.
LEMMA IdleType == Idle \in Request /\ Idle.pc = "idle"
  BY DEF Idle, Request, Points, Roles, Outcomes, NoApprovals

\* The loaded corpus satisfies the invariant.
LEMMA InitInv == Init => IInv
  <1> SUFFICES ASSUME Init PROVE IInv
    OBVIOUS
  <1>1. PICK value \in [Trades -> Values] :
            bookings = [t \in Trades |-> << [value |-> value[t], origin |-> NULL] >>]
    BY DEF Init
  <1>2. bookings \in [Trades -> Seq(Booking)] /\ \A t \in Trades : bookings[t] # <<>>
    BY <1>1 DEF Booking
  <1>3. TypeOK
    BY <1>2, IdleType DEF Init, TypeOK, NoApprovals
  <1>4. \A w \in Workers : RequestOK(req[w])
    BY DEF Init, RequestOK, Idle, OfCase, Approved, Enveloped, Applied, Reading
  <1>5. \A c \in CaseIds : CaseOK(c)
    BY DEF Init, CaseOK, Eligible
  <1>6. \A t \in Trades : LegacyOK(t)
    BY DEF Init, LegacyOK
  <1> QED
    BY <1>2, <1>3, <1>4, <1>5, <1>6 DEF IInv

-----------------------------------------------------------------------------
\* What a reconciliation reads of the inbox is one snapshot per trade.
LEMMA ObservationsType ==
    ASSUME TypeOK, \A t \in Trades : bookings[t] # <<>>
    PROVE  observation_documents \in [Trades -> Snapshot]
  <1> SUFFICES ASSUME NEW t \in Trades
               PROVE  [ execution |-> execution[t],
                        booking   |-> bookings[t][Len(bookings[t])].value,
                        revision  |-> Len(bookings[t]) ] \in Snapshot
    BY DEF observation_documents
  <1>1. bookings[t] \in Seq(Booking) /\ Len(bookings[t]) \in 1 .. Len(bookings[t])
    BY DEF TypeOK
  <1>2. bookings[t][Len(bookings[t])] \in Booking
    BY <1>1
  <1> QED
    BY <1>1, <1>2 DEF TypeOK, Booking, Snapshot

\* Deliveries, the clock, restarts and deaths keep every row well formed.
LEMMA WorldType ==
    ASSUME IInv, World PROVE TypeOK'
  <1> USE DEF IInv, TypeOK, sources, store, clock
  <1>1. ASSUME NEW t \in Trades, NEW v \in Values, DeliverExecution(t, v) PROVE TypeOK'
    BY <1>1 DEF DeliverExecution
  <1>2. ASSUME NEW t \in Trades, NEW v \in Values, DeliverBooking(t, v) PROVE TypeOK'
    <2>1. [value |-> v, origin |-> NULL] \in Booking
      BY DEF Booking
    <2>2. bookings' \in [Trades -> Seq(Booking)]
      BY <1>2, <2>1 DEF DeliverBooking
    <2> QED
      BY <1>2, <2>2 DEF DeliverBooking
  <1>3. ASSUME NEW c \in CaseIds, ExpireEnvelope(c) PROVE TypeOK'
    BY <1>3 DEF ExpireEnvelope
  <1>4. ASSUME NEW s \in Secrets, Restart(s) PROVE TypeOK'
    BY <1>4, IdleType DEF Restart
  <1>5. ASSUME NEW w \in Workers, Crash(w) PROVE TypeOK'
    BY <1>5, IdleType DEF Crash
  <1> QED
    BY <1>1, <1>2, <1>3, <1>4, <1>5 DEF World

\* A call that reaches an idle worker keeps every row well formed.
LEMMA CallType ==
    ASSUME IInv, NEW w \in Workers, Call(w) PROVE TypeOK'
  <1> USE DEF IInv, TypeOK, sources, store, clock
  <1>1. CASE run_reconciliation(w)
    <2>1. [Idle EXCEPT !.pc = "persist_canonical", !.seen = observation_documents,
                       !.unstored = { t \in Trades : canonical[t] = <<>> }] \in Request
      BY IdleType, ObservationsType DEF Request, Points
    <2> QED
      BY <1>1, <2>1 DEF run_reconciliation
  <1>2. ASSUME NEW c \in CaseIds, NEW b \in breaks, generate_case(w, c, b) PROVE TypeOK'
    <2>1. [Idle EXCEPT !.pc = "seed", !.case = c] \in Request
      BY IdleType DEF Request, Points
    <2>2. FactsOf(b) \in BreakFacts
      BY DEF FactsOf, BreakFacts, Break, SUPPORTED_FIELD_PATH, Fields
    <2>3. Decisions(FactsOf(b)) \subseteq PolicyDecision
      BY <2>2, EvaluateType DEF Decisions
    <2>4. cases' \in [CaseIds -> Case \cup {NULL}]
      BY <1>2, <2>3 DEF generate_case, Case, Break
    <2> QED
      BY <1>2, <2>1, <2>4 DEF generate_case
  <1>3. ASSUME NEW c \in CaseIds, NEW role \in Roles, NEW i \in Identities,
               submit_approval(w, c, role, i)
        PROVE TypeOK'
    <2>1. [Idle EXCEPT !.pc = "insert_approval", !.case = c, !.role = role,
                       !.identity = i] \in Request
      BY IdleType DEF Request, Points
    <2> QED
      BY <1>3, <2>1 DEF submit_approval
  <1>4. ASSUME NEW c \in CaseIds, remediation_execute(w, c) PROVE TypeOK'
    <2>1. [Idle EXCEPT !.pc = "envelope", !.case = c, !.approved = approvals[c]] \in Request
      BY IdleType DEF Request, Points
    <2> QED
      BY <1>4, <2>1 DEF remediation_execute
  <1> QED
    BY <1>1, <1>2, <1>3, <1>4, Zenon DEF Call

\* persist_canonical_states leaves a sequence of canonical states.
LEMMA PersistCanonicalType ==
    ASSUME TypeOK, NEW t \in Trades, NEW version \in Nat, NEW snapshot \in Snapshot
    PROVE  PersistCanonical(t, version, snapshot) \in Seq(Snapshot)
  BY DEF TypeOK, PersistCanonical

\* Every later transaction of a request keeps every row well formed.
LEMMA ProceedType ==
    ASSUME IInv, NEW w \in Workers, Proceed(w) PROVE TypeOK'
  <1> USE DEF IInv, TypeOK, sources, store, clock
  <1> RequestOK(req[w]) /\ req[w] \in Request
    OBVIOUS
  <1>1. CASE persist_canonical_states(w)
    <2>1. req[w].seen \in [Trades -> Snapshot]
      BY <1>1 DEF persist_canonical_states, RequestOK, Reading, Request
    <2>2. canonical' \in [Trades -> Seq(Snapshot)]
      BY <1>1, <2>1, PersistCanonicalType DEF persist_canonical_states
    <2> QED
      BY <1>1, <2>2 DEF persist_canonical_states, Request, Points
  <1>2. CASE persist_canonical_violation(w)
    BY <1>2, IdleType DEF persist_canonical_violation
  <1>3. CASE persist_run(w)
    <2>1. req[w].seen \in [Trades -> Snapshot]
      BY <1>3 DEF persist_run, RequestOK, Reading, Request
    <2>2. \A t \in Trades : BreakOf(t, req[w].seen[t]) \subseteq Break
      BY <2>1 DEF BreakOf, Break, Snapshot
    <2>3. breaks' \subseteq Break
      BY <1>3, <2>2 DEF persist_run
    <2> QED
      BY <1>3, <2>3, IdleType DEF persist_run
  <1>4. CASE seed_legacy_booking_record(w)
    <2>1. cases[req[w].case] \in Case
      BY <1>4 DEF seed_legacy_booking_record, RequestOK, OfCase, Points
    <2>2. legacy' \in [Trades -> LegacyRecord \cup {NULL}]
      BY <1>4, <2>1 DEF seed_legacy_booking_record, LegacyRecord, Case
    <2> QED
      BY <1>4, <2>2, IdleType DEF seed_legacy_booking_record
  <1>5. CASE insert_approval(w)
    <2>1. req[w].role \in Roles /\ req[w].identity \in Identities \cup {NULL}
          /\ req[w].case \in CaseIds
      BY <1>5 DEF insert_approval, RequestOK, OfCase, Points, Request
    <2>2. approvals' \in [CaseIds -> [Roles -> Identities \cup {NULL}]]
      BY <1>5, <2>1 DEF insert_approval
    <2> QED
      BY <1>5, <2>2, IdleType DEF insert_approval
  <1>6. CASE insert_envelope_if_absent(w)
    <2> DEFINE c == req[w].case
               e == IF envelopes[c] = NULL THEN build_envelope(c, req[w].approved)
                                           ELSE envelopes[c]
    <2>1. /\ c \in CaseIds
          /\ cases[c] \in Case
          /\ Eligible(c)
          /\ req[w].approved = approvals[c]
          /\ \A role \in Roles : approvals[c][role] \in Identities
      BY <1>6 DEF insert_envelope_if_absent, RequestOK, OfCase, Approved, Points
    <2>2. cases[c].decision.approved_value \in Values
      BY <2>1 DEF CaseOK, Case
    <2>3. build_envelope(c, req[w].approved) \in ActionEnvelope
      BY <2>1, <2>2 DEF build_envelope, ActionEnvelope, Case, Roles
    <2>4. e \in ActionEnvelope
      BY <2>1, <2>3
    <2> HIDE DEF e
    <2>5. /\ envelopes' = [envelopes EXCEPT ![c] = e]
          /\ req' = [req EXCEPT ![w].pc = "verify", ![w].envelope = e]
      BY <1>6 DEF insert_envelope_if_absent, e
    <2>6. envelopes' \in [CaseIds -> ActionEnvelope \cup {NULL}]
      BY <2>1, <2>4, <2>5
    <2>7. req' \in [Workers -> Request]
      BY <2>4, <2>5 DEF Request, Points
    <2> QED
      BY <1>6, <2>6, <2>7 DEF insert_envelope_if_absent
  <1>7. CASE verify_envelope(w)
    <2>1. CASE Rejection(req[w]) = NULL
      BY <1>7, <2>1 DEF verify_envelope, Request, Points
    <2>2. CASE Rejection(req[w]) # NULL
      <3>1. Rejection(req[w]) \in Outcomes
        BY <2>2 DEF Rejection, Outcomes
      <3>2. req' = [req EXCEPT ![w] = [req[w] EXCEPT !.pc = "record",
                                                    !.outcome = Rejection(req[w])]]
        BY <1>7, <2>2 DEF verify_envelope
      <3> HIDE DEF Rejection
      <3>3. req' \in [Workers -> Request]
        BY <3>1, <3>2 DEF Request, Points
      <3> QED
        BY <1>7, <3>3 DEF verify_envelope
    <2> QED
      BY <2>1, <2>2
  <1>8. CASE apply_legacy_booking_correction(w)
    <2> DEFINE c == req[w].case
               e == req[w].envelope
               o == ApplyOutcome(legacy[e.trade_id], c, e)
    <2>1. c \in CaseIds /\ e \in ActionEnvelope
      BY <1>8 DEF apply_legacy_booking_correction, RequestOK, OfCase, Approved, Enveloped,
                  Points, Request
    <2>2. o \in Outcomes
      BY DEF ApplyOutcome, Outcomes
    <2>3. req' \in [Workers -> Request]
      BY <1>8, <2>2 DEF apply_legacy_booking_correction, Request, Points
    <2>4. legacy' \in [Trades -> LegacyRecord \cup {NULL}]
      <3>1. o = "SUCCESS" => Corrected(legacy[e.trade_id], c, e) \in LegacyRecord
        BY <2>1 DEF ApplyOutcome, Corrected, LegacyRecord, ActionEnvelope
      <3> QED
        BY <1>8, <2>1, <3>1 DEF apply_legacy_booking_correction
    <2>5. commits' \in [CaseIds -> Nat]
      BY <1>8, <2>1 DEF apply_legacy_booking_correction
    <2> QED
      BY <1>8, <2>3, <2>4, <2>5 DEF apply_legacy_booking_correction
  <1>9. CASE insert_execution(w)
    <2>1. req[w].case \in CaseIds /\ req[w].outcome \in Outcomes
      BY <1>9 DEF insert_execution, Counted, RequestOK, OfCase, Points, Request
    <2>2. executions' \in [CaseIds -> [Outcomes -> Nat]]
      BY <1>9, <2>1 DEF insert_execution, Counted
    <2>3. req' \in [Workers -> Request]
      BY <1>9, IdleType DEF insert_execution, Request, Points
    <2> QED
      BY <1>9, <2>2, <2>3 DEF insert_execution
  <1>10. CASE read_latest_booking(w)
    <2>1. req[w].envelope \in ActionEnvelope
      BY <1>10 DEF read_latest_booking, RequestOK, OfCase, Approved, Enveloped, Points, Request
    <2>2. Len(bookings[req[w].envelope.trade_id]) \in Nat
      BY <2>1 DEF ActionEnvelope
    <2> QED
      BY <1>10, <2>2 DEF read_latest_booking, Request, Points
  <1>11. CASE ingest_corrected_booking_observation(w)
    <2>1. req[w].envelope \in ActionEnvelope /\ req[w].case \in CaseIds
      BY <1>11 DEF ingest_corrected_booking_observation, RequestOK, OfCase, Approved,
                   Enveloped, Points, Request
    <2>2. [value |-> req[w].envelope.approved_value, origin |-> req[w].case] \in Booking
      BY <2>1 DEF Booking, ActionEnvelope
    <2>3. CASE Len(bookings[req[w].envelope.trade_id]) = req[w].latest
      <3> DEFINE t == req[w].envelope.trade_id
                 b == [value |-> req[w].envelope.approved_value, origin |-> req[w].case]
      <3>1. t \in Trades /\ b \in Booking
        BY <2>1, <2>2 DEF ActionEnvelope
      <3>2. /\ bookings' = [bookings EXCEPT ![t] = Append(@, b)]
            /\ req' = [req EXCEPT ![w].pc = "rerun_read"]
        BY <1>11, <2>3 DEF ingest_corrected_booking_observation
      <3> HIDE DEF t, b
      <3>3. bookings' \in [Trades -> Seq(Booking)]
        BY <3>1, <3>2
      <3>4. req' \in [Workers -> Request]
        BY <3>2 DEF Request, Points
      <3> QED
        BY <1>11, <3>3, <3>4 DEF ingest_corrected_booking_observation
    <2>4. CASE Len(bookings[req[w].envelope.trade_id]) # req[w].latest
      <3>1. bookings' = bookings /\ req' = [req EXCEPT ![w] = Idle]
        BY <1>11, <2>4 DEF ingest_corrected_booking_observation
      <3> QED
        BY <1>11, <3>1, IdleType DEF ingest_corrected_booking_observation
    <2> QED
      BY <2>3, <2>4
  <1>12. CASE rerun_read(w)
    BY <1>12, ObservationsType DEF rerun_read, Request, Points
  <1>13. CASE rerun_version(w)
    <2>1. req[w].envelope \in ActionEnvelope
      BY <1>13 DEF rerun_version, RequestOK, OfCase, Approved, Enveloped, Points, Request
    <2>2. Len(canonical[req[w].envelope.trade_id]) + 1 \in Nat
      BY <2>1 DEF ActionEnvelope
    <2> QED
      BY <1>13, <2>2 DEF rerun_version, Request, Points
  <1>14. CASE rerun_persist(w)
    <2>1. req[w].envelope \in ActionEnvelope /\ req[w].seen \in [Trades -> Snapshot]
      BY <1>14 DEF rerun_persist, RequestOK, OfCase, Approved, Enveloped, Reading, Points,
                   Request
    <2>2. req[w].envelope.trade_id \in Trades /\ req[w].version \in Nat
      BY <2>1 DEF ActionEnvelope, Request
    <2>3. canonical' \in [Trades -> Seq(Snapshot)]
      BY <1>14, <2>1, <2>2, PersistCanonicalType DEF rerun_persist
    <2> QED
      BY <1>14, <2>3 DEF rerun_persist, Request, Points
  <1>15. CASE rerun_persist_violation(w)
    BY <1>15, IdleType DEF rerun_persist_violation
  <1>16. CASE finalize_evidence(w)
    <2>1. /\ req[w].envelope \in ActionEnvelope /\ req[w].seen \in [Trades -> Snapshot]
          /\ req[w].version \in Nat /\ req[w].case \in CaseIds
      BY <1>16 DEF finalize_evidence, RequestOK, OfCase, Approved, Enveloped, Reading, Points,
                   Request
    <2>2. [ executions |-> executions[req[w].case],
            reconciled |-> req[w].seen[req[w].envelope.trade_id],
            canonical_state_version |-> req[w].version ] \in Evidence
      BY <2>1 DEF ActionEnvelope, Evidence
    <2>3. evidence' \in [CaseIds -> Evidence \cup {NULL}]
      BY <1>16, <2>2 DEF finalize_evidence
    <2> QED
      BY <1>16, <2>3, IdleType DEF finalize_evidence
  <1> QED
    BY <1>1, <1>2, <1>3, <1>4, <1>5, <1>6, <1>7, <1>8, <1>9, <1>10, <1>11, <1>12, <1>13,
       <1>14, <1>15, <1>16, Zenon DEF Proceed

-----------------------------------------------------------------------------
(***************************************************************************)
(* Rows are only inserted: what a request read of them stays true.         *)
(***************************************************************************)
Grows ==
    \A c \in CaseIds :
        /\ cases[c] # NULL => cases'[c] = cases[c]
        /\ \A role \in Roles :
              approvals[c][role] # NULL => approvals'[c][role] = approvals[c][role]
        /\ envelopes[c] # NULL => envelopes'[c] = envelopes[c]
        /\ commits'[c] >= commits[c]

\* Once both roles have decided, the approvals of a case never change.
LEMMA DecidedForever ==
    ASSUME IInv, TypeOK', Grows, NEW c \in CaseIds,
           \A role \in Roles : approvals[c][role] # NULL
    PROVE  approvals'[c] = approvals[c]
  <1>1. approvals[c] \in [Roles -> Identities \cup {NULL}]
    BY DEF IInv, TypeOK
  <1>2. approvals'[c] \in [Roles -> Identities \cup {NULL}]
    BY DEF TypeOK
  <1>3. \A role \in Roles : approvals'[c][role] = approvals[c][role]
    BY DEF Grows
  <1> QED
    BY <1>1, <1>2, <1>3

\* What holds of the rows of a case keeps holding when rows are added.
LEMMA KeptRows ==
    ASSUME IInv, TypeOK', Grows, NEW c \in CaseIds
    PROVE  /\ Eligible(c) => Eligible(c)'
           /\ TwoIdentities(c) => TwoIdentities(c)'
           /\ commits[c] > 0 => commits'[c] > 0
  <1>1. Eligible(c) => Eligible(c)'
    BY DEF Eligible, Grows
  <1>2. TwoIdentities(c) => TwoIdentities(c)'
    <2> SUFFICES ASSUME TwoIdentities(c) PROVE TwoIdentities(c)'
      OBVIOUS
    <2>1. approvals'[c] = approvals[c]
      BY DecidedForever DEF TwoIdentities
    <2> QED
      BY <2>1 DEF TwoIdentities
  <1>3. commits[c] > 0 => commits'[c] > 0
    BY DEF Grows, IInv, TypeOK
  <1> QED
    BY <1>1, <1>2, <1>3

\* A request that does not move keeps its locals right.
LEMMA OthersOK ==
    ASSUME IInv, TypeOK', Grows, NEW u \in Workers, req'[u] = req[u]
    PROVE  RequestOK(req[u])'
  <1>0. PICK r : r = req[u] /\ r = req'[u]
    OBVIOUS
  <1>1. RequestOK(r) /\ r \in Request
    BY <1>0 DEF IInv, TypeOK
  <1>2. r.pc \in OfCase => r.case \in CaseIds /\ cases'[r.case] # NULL
    BY <1>1 DEF RequestOK, Grows
  <1>3. r.pc \in Approved => /\ Eligible(r.case)'
                             /\ r.approved = approvals'[r.case]
                             /\ \A role \in Roles : approvals'[r.case][role] # NULL
    <2> SUFFICES ASSUME r.pc \in Approved
                 PROVE  /\ Eligible(r.case)'
                        /\ r.approved = approvals'[r.case]
                        /\ \A role \in Roles : approvals'[r.case][role] # NULL
      OBVIOUS
    <2>1. /\ r.case \in CaseIds /\ Eligible(r.case) /\ r.approved = approvals[r.case]
          /\ \A role \in Roles : approvals[r.case][role] # NULL
      BY <1>1 DEF RequestOK, Approved
    <2>2. approvals'[r.case] = approvals[r.case]
      BY <2>1, DecidedForever
    <2>3. cases'[r.case] = cases[r.case]
      BY <2>1 DEF Grows, Eligible
    <2> QED
      BY <2>1, <2>2, <2>3 DEF Eligible
  <1>4. r.pc \in Enveloped => r.envelope # NULL /\ r.envelope = envelopes'[r.case]
    BY <1>1 DEF RequestOK, Enveloped, Approved, Grows
  <1>5. r.pc = "apply" => TwoIdentities(r.case)'
    <2> SUFFICES ASSUME r.pc = "apply" PROVE TwoIdentities(r.case)'
      OBVIOUS
    <2>1. r.case \in CaseIds /\ TwoIdentities(r.case)
      BY <1>1 DEF RequestOK, OfCase, Points
    <2>2. approvals'[r.case] = approvals[r.case]
      BY <2>1, DecidedForever DEF TwoIdentities
    <2> QED
      BY <2>1, <2>2 DEF TwoIdentities
  <1>6. (r.pc = "record" /\ r.outcome = "SUCCESS") \/ r.pc \in Applied => commits'[r.case] > 0
    BY <1>1, KeptRows DEF RequestOK, OfCase, Applied, Enveloped, Approved, Points
  <1>7. /\ r.pc = "insert_approval" => r.identity \in Identities
        /\ r.pc \in Reading => r.seen # NULL
    BY <1>1 DEF RequestOK
  <1> QED
    BY <1>0, <1>2, <1>3, <1>4, <1>5, <1>6, <1>7 DEF RequestOK, Eligible, TwoIdentities

\* A worker that has answered or died has no locals to be wrong.
LEMMA IdleOK ==
    ASSUME NEW u \in Workers, req'[u] = Idle PROVE RequestOK(req[u])'
  BY DEF RequestOK, Idle, OfCase, Approved, Enveloped, Applied, Reading

\* A step that touches no row of a case and no legacy record.
LEMMA QuietStep ==
    ASSUME IInv, TypeOK', UNCHANGED <<legacy, cases, approvals, envelopes, commits>>
    PROVE  /\ Grows
           /\ \A c \in CaseIds : CaseOK(c)'
           /\ \A t \in Trades : LegacyOK(t)'
  <1>1. Grows
    BY DEF Grows, IInv, TypeOK
  <1>2. \A c \in CaseIds : CaseOK(c)'
    BY DEF IInv, CaseOK, Eligible, TwoIdentities
  <1>3. \A t \in Trades : LegacyOK(t)'
    BY DEF IInv, LegacyOK
  <1> QED
    BY <1>1, <1>2, <1>3

\* What is left to show of a step of one worker.
LEMMA WorkerStep ==
    ASSUME IInv, TypeOK', Grows, NEW w \in Workers,
           \A u \in Workers \ {w} : req'[u] = req[u],
           RequestOK(req[w])',
           \A t \in Trades : bookings'[t] # <<>>,
           \A c \in CaseIds : CaseOK(c)',
           \A t \in Trades : LegacyOK(t)'
    PROVE  IInv'
  <1>1. ASSUME NEW u \in Workers PROVE RequestOK(req[u])'
    <2>1. CASE u = w
      BY <2>1
    <2>2. CASE u # w
      BY <2>2, OthersOK
    <2> QED
      BY <2>1, <2>2
  <1> QED
    BY <1>1 DEF IInv

\* A step of one worker that touches no row of a case and no legacy record.
LEMMA QuietWorkerStep ==
    ASSUME IInv, TypeOK', NEW w \in Workers,
           UNCHANGED <<legacy, cases, approvals, envelopes, commits, bookings>>,
           \A u \in Workers \ {w} : req'[u] = req[u],
           RequestOK(req[w])'
    PROVE  IInv'
  <1>1. /\ Grows
        /\ \A c \in CaseIds : CaseOK(c)'
        /\ \A t \in Trades : LegacyOK(t)'
    BY QuietStep
  <1>2. \A t \in Trades : bookings'[t] # <<>>
    BY DEF IInv
  <1> QED
    BY <1>1, <1>2, WorkerStep

-----------------------------------------------------------------------------
\* The invariant survives deliveries, the clock, restarts and deaths.
LEMMA WorldInv ==
    ASSUME IInv, World PROVE IInv'
  <1> USE DEF sources, store, clock
  <1>1. TypeOK'
    BY WorldType
  <1>2. UNCHANGED <<legacy, cases, approvals, envelopes, commits>>
    BY DEF World, DeliverExecution, DeliverBooking, ExpireEnvelope, Restart, Crash
  <1>3. /\ Grows
        /\ \A c \in CaseIds : CaseOK(c)'
        /\ \A t \in Trades : LegacyOK(t)'
    BY <1>1, <1>2, QuietStep
  <1>4. \A t \in Trades : bookings'[t] # <<>>
    <2>1. ASSUME NEW s \in Trades, NEW v \in Values, DeliverBooking(s, v),
                 NEW t \in Trades
          PROVE  bookings'[t] # <<>>
      <3>1. bookings[t] \in Seq(Booking) /\ bookings[t] # <<>>
        BY DEF IInv, TypeOK
      <3>2. bookings'[t] = bookings[t]
               \/ bookings'[t] = Append(bookings[t], [value |-> v, origin |-> NULL])
        BY <2>1 DEF DeliverBooking, IInv, TypeOK
      <3> QED
        BY <3>1, <3>2
    <2>2. CASE UNCHANGED bookings
      BY <2>2 DEF IInv
    <2> QED
      BY <2>1, <2>2 DEF World, DeliverExecution, ExpireEnvelope, Restart, Crash
  <1>5. ASSUME NEW u \in Workers PROVE RequestOK(req[u])'
    <2>1. req'[u] = req[u] \/ req'[u] = Idle
      BY DEF World, DeliverExecution, DeliverBooking, ExpireEnvelope, Restart, Crash, IInv,
             TypeOK
    <2> QED
      BY <1>1, <1>3, <2>1, OthersOK, IdleOK
  <1> QED
    BY <1>1, <1>3, <1>4, <1>5 DEF IInv

\* The invariant survives the first transaction of every handler.
LEMMA CallInv ==
    ASSUME IInv, NEW w \in Workers, Call(w) PROVE IInv'
  <1> USE DEF sources, store, clock
  <1>0. TypeOK' /\ req \in [Workers -> Request]
    BY CallType DEF IInv, TypeOK
  <1>1. CASE run_reconciliation(w)
    <2>1. /\ UNCHANGED <<legacy, cases, approvals, envelopes, commits, bookings>>
          /\ \A u \in Workers \ {w} : req'[u] = req[u]
      BY <1>0, <1>1 DEF run_reconciliation
    <2>2. observation_documents # NULL
      BY ObservationsType, NullIsNoRow DEF IInv
    <2>3. RequestOK(req[w])'
      BY <1>0, <1>1, <2>2 DEF run_reconciliation, RequestOK, Idle, OfCase, Approved, Enveloped,
                       Applied
    <2> QED
      BY <1>0, <2>1, <2>3, QuietWorkerStep
  <1>2. ASSUME NEW c \in CaseIds, NEW b \in breaks, generate_case(w, c, b) PROVE IInv'
    <2>1. PICK decision \in Decisions(FactsOf(b)) :
             cases' = [cases EXCEPT ![c] = [ trade_id       |-> b.trade_id,
                                             expected_value |-> b.expected_value,
                                             observed_value |-> b.observed_value,
                                             decision       |-> decision ]]
      BY <1>2 DEF generate_case
    <2>2. /\ cases[c] = NULL
          /\ UNCHANGED <<legacy, approvals, envelopes, commits, bookings>>
          /\ req' = [req EXCEPT ![w] = [Idle EXCEPT !.pc = "seed", !.case = c]]
      BY <1>2 DEF generate_case
    <2>3. Grows
      BY <2>1, <2>2 DEF Grows, IInv, TypeOK
    <2>4. cases'[c] # NULL
      <3>1. FactsOf(b) \in BreakFacts
        BY DEF FactsOf, BreakFacts, Break, SUPPORTED_FIELD_PATH, Fields, IInv, TypeOK
      <3>2. decision \in PolicyDecision /\ b \in Break
        BY <3>1, EvaluateType DEF Decisions, IInv, TypeOK
      <3>3. [ trade_id       |-> b.trade_id,
              expected_value |-> b.expected_value,
              observed_value |-> b.observed_value,
              decision       |-> decision ] \in Case
        BY <3>2 DEF Break, Case
      <3> QED
        BY <2>1, <3>3, NullIsNoRow DEF IInv, TypeOK
    <2>5. RequestOK(req[w])'
      BY <1>0, <2>2, <2>4 DEF RequestOK, Idle, OfCase, Approved, Enveloped, Applied, Reading,
                              Points
    <2>6. ASSUME NEW d \in CaseIds PROVE CaseOK(d)'
      <3>1. CASE d = c
        <4>1. FactsOf(b) \in BreakFacts
          BY DEF FactsOf, BreakFacts, Break, SUPPORTED_FIELD_PATH, Fields, IInv, TypeOK
        <4>2. decision.outcome = "ELIGIBLE_FOR_APPROVAL"
                 => decision.approved_value = b.expected_value
          BY <4>1, EvaluateType DEF Decisions, FactsOf
        <4>3. /\ cases'[c].decision = decision
              /\ cases'[c].expected_value = b.expected_value
          BY <2>1 DEF IInv, TypeOK
        <4>4. envelopes'[c] = NULL /\ ~(commits'[c] > 0)
          BY <2>2 DEF IInv, CaseOK, Eligible
        <4> QED
          BY <3>1, <4>2, <4>3, <4>4 DEF CaseOK, Eligible
      <3>2. CASE d # c
        <4>1. cases'[d] = cases[d]
          BY <2>1, <3>2 DEF IInv, TypeOK
        <4> QED
          BY <2>2, <4>1 DEF IInv, CaseOK, Eligible, TwoIdentities
      <3> QED
        BY <3>1, <3>2
    <2>7. ASSUME NEW t \in Trades PROVE LegacyOK(t)'
      <3> DEFINE key == legacy[t].last_applied_idempotency_key
      <3> SUFFICES ASSUME legacy[t] # NULL, key # NULL
                   PROVE  /\ cases'[key] # NULL
                          /\ commits[key] > 0
                          /\ cases'[key].trade_id = t
                          /\ legacy[t].base_amount_value = cases'[key].expected_value
        BY <2>2 DEF LegacyOK
      <3>1. /\ cases[key] # NULL /\ commits[key] > 0 /\ cases[key].trade_id = t
            /\ legacy[t].base_amount_value = cases[key].expected_value
        BY DEF IInv, LegacyOK
      <3>2. key \in CaseIds
        BY DEF IInv, TypeOK, LegacyRecord
      <3>3. cases'[key] = cases[key]
        BY <2>3, <3>1, <3>2 DEF Grows
      <3> QED
        BY <3>1, <3>3
    <2>8. \A u \in Workers \ {w} : req'[u] = req[u]
      BY <1>0, <2>2
    <2>9. \A t \in Trades : bookings'[t] # <<>>
      BY <2>2 DEF IInv
    <2> QED
      BY <1>0, <2>3, <2>5, <2>6, <2>7, <2>8, <2>9, WorkerStep
  <1>3. ASSUME NEW c \in CaseIds, NEW role \in Roles, NEW i \in Identities,
               submit_approval(w, c, role, i)
        PROVE IInv'
    <2>1. /\ UNCHANGED <<legacy, cases, approvals, envelopes, commits, bookings>>
          /\ \A u \in Workers \ {w} : req'[u] = req[u]
      BY <1>0, <1>3 DEF submit_approval
    <2>2. RequestOK(req[w])'
      BY <1>0, <1>3 DEF submit_approval, RequestOK, Idle, OfCase, Approved, Enveloped, Applied,
                 Reading, Points, Eligible
    <2> QED
      BY <1>0, <2>1, <2>2, QuietWorkerStep
  <1>4. ASSUME NEW c \in CaseIds, remediation_execute(w, c) PROVE IInv'
    <2>1. /\ UNCHANGED <<legacy, cases, approvals, envelopes, commits, bookings>>
          /\ \A u \in Workers \ {w} : req'[u] = req[u]
      BY <1>0, <1>4 DEF remediation_execute
    <2>2. RequestOK(req[w])'
      BY <1>0, <1>4 DEF remediation_execute, RequestOK, Idle, OfCase, Approved, Enveloped,
                 Applied, Reading, Points, Eligible
    <2> QED
      BY <1>0, <2>1, <2>2, QuietWorkerStep
  <1> QED
    BY <1>1, <1>2, <1>3, <1>4, Zenon DEF Call

\* The invariant survives every later transaction of every handler.
LEMMA ProceedInv ==
    ASSUME IInv, NEW w \in Workers, Proceed(w) PROVE IInv'
  <1> USE DEF sources, store, clock
  <1>0. /\ TypeOK' /\ req \in [Workers -> Request] /\ req' \in [Workers -> Request]
        /\ req[w] \in Request /\ RequestOK(req[w])
    BY ProceedType DEF IInv, TypeOK
  <1> DEFINE Quiet == UNCHANGED <<legacy, cases, approvals, envelopes, commits, bookings>>
             Others == \A u \in Workers \ {w} : req'[u] = req[u]
  <1>1. CASE persist_canonical_states(w)
    <2>1. Quiet /\ Others
      BY <1>0, <1>1 DEF persist_canonical_states
    <2>2. RequestOK(req[w])'
      BY <1>0, <1>1 DEF persist_canonical_states, RequestOK, OfCase, Approved, Enveloped,
                        Applied, Reading
    <2> QED
      BY <1>0, <2>1, <2>2, QuietWorkerStep
  <1>2. CASE persist_canonical_violation(w) \/ rerun_persist_violation(w) \/ persist_run(w)
             \/ finalize_evidence(w)
    <2>1. Quiet /\ Others /\ req'[w] = Idle
      BY <1>0, <1>2 DEF persist_canonical_violation, rerun_persist_violation, persist_run,
                        finalize_evidence
    <2> QED
      BY <1>0, <2>1, IdleOK, QuietWorkerStep
  <1>3. CASE verify_envelope(w)
    <2>1. Quiet /\ Others
      BY <1>0, <1>3 DEF verify_envelope
    <2>2. RequestOK(req[w])'
      <3>1. CASE Rejection(req[w]) = NULL
        <4>1. req'[w] = [req[w] EXCEPT !.pc = "apply"] /\ req[w].pc = "verify"
          BY <1>0, <1>3, <3>1 DEF verify_envelope
        <4>2. TwoIdentities(req[w].case)
          BY <1>0, <3>1, <4>1, NullIsNoRow
             DEF Rejection, Outcomes, RequestOK, Approved, OfCase, Points, TwoIdentities
        <4> QED
          BY <1>0, <2>1, <4>1, <4>2
             DEF RequestOK, OfCase, Approved, Enveloped, Applied, Reading, Points, Request,
                 Eligible, TwoIdentities
      <3>2. CASE Rejection(req[w]) # NULL
        <4>1. /\ req'[w] = [req[w] EXCEPT !.pc = "record", !.outcome = Rejection(req[w])]
              /\ req[w].pc = "verify"
          BY <1>0, <1>3, <3>2 DEF verify_envelope
        <4>2. Rejection(req[w]) # "SUCCESS"
          BY <3>2 DEF Rejection
        <4> QED
          BY <1>0, <2>1, <4>1, <4>2
             DEF RequestOK, OfCase, Approved, Enveloped, Applied, Reading, Points, Request,
                 Eligible
      <3> QED
        BY <3>1, <3>2
    <2> QED
      BY <1>0, <2>1, <2>2, QuietWorkerStep
  <1>4. CASE insert_execution(w)
    <2>1. Quiet /\ Others
      BY <1>0, <1>4 DEF insert_execution
    <2>2. CASE req[w].outcome = "SUCCESS"
      <3>1. req'[w] = [req[w] EXCEPT !.pc = "read_booking"] /\ req[w].pc = "record"
        BY <1>0, <1>4, <2>2 DEF insert_execution
      <3>2. RequestOK(req[w])'
        BY <1>0, <2>1, <2>2, <3>1
           DEF RequestOK, OfCase, Approved, Enveloped, Applied, Reading, Points, Request,
               Eligible
      <3> QED
        BY <1>0, <2>1, <3>2, QuietWorkerStep
    <2>3. CASE req[w].outcome # "SUCCESS"
      <3>1. req'[w] = Idle
        BY <1>0, <1>4, <2>3 DEF insert_execution
      <3> QED
        BY <1>0, <2>1, <3>1, IdleOK, QuietWorkerStep
    <2> QED
      BY <2>2, <2>3
  <1>5. CASE read_latest_booking(w)
    <2>1. Quiet /\ Others
      BY <1>0, <1>5 DEF read_latest_booking
    <2>2. /\ req[w].pc = "read_booking" /\ req'[w].pc = "ingest"
          /\ req'[w].case = req[w].case /\ req'[w].approved = req[w].approved
          /\ req'[w].envelope = req[w].envelope
      BY <1>0, <1>5 DEF read_latest_booking, Request
    <2>3. RequestOK(req[w])'
      BY <1>0, <2>1, <2>2 DEF RequestOK, OfCase, Approved, Enveloped, Applied, Reading, Points,
                              Eligible
    <2> QED
      BY <1>0, <2>1, <2>3, QuietWorkerStep
  <1>6. CASE rerun_read(w)
    <2>1. Quiet /\ Others
      BY <1>0, <1>6 DEF rerun_read
    <2>2. /\ req[w].pc = "rerun_read" /\ req'[w].pc = "rerun_version"
          /\ req'[w].case = req[w].case /\ req'[w].approved = req[w].approved
          /\ req'[w].envelope = req[w].envelope
      BY <1>0, <1>6 DEF rerun_read, Request
    <2>3. req'[w].seen # NULL
      <3>1. req'[w].seen = observation_documents
        BY <1>0, <1>6 DEF rerun_read, Request
      <3> QED
        BY <3>1, ObservationsType, NullIsNoRow DEF IInv
    <2>4. RequestOK(req[w])'
      BY <1>0, <2>1, <2>2, <2>3 DEF RequestOK, OfCase, Approved, Enveloped, Applied, Reading,
                                    Points, Eligible
    <2> QED
      BY <1>0, <2>1, <2>4, QuietWorkerStep
  <1>7. CASE rerun_version(w)
    <2>1. Quiet /\ Others
      BY <1>0, <1>7 DEF rerun_version
    <2>2. /\ req[w].pc = "rerun_version" /\ req'[w].pc = "rerun_persist"
          /\ req'[w].case = req[w].case /\ req'[w].approved = req[w].approved
          /\ req'[w].envelope = req[w].envelope /\ req'[w].seen = req[w].seen
      BY <1>0, <1>7 DEF rerun_version, Request
    <2>3. RequestOK(req[w])'
      BY <1>0, <2>1, <2>2 DEF RequestOK, OfCase, Approved, Enveloped, Applied, Reading, Points,
                              Eligible
    <2> QED
      BY <1>0, <2>1, <2>3, QuietWorkerStep
  <1>8. CASE rerun_persist(w)
    <2>1. Quiet /\ Others
      BY <1>0, <1>8 DEF rerun_persist
    <2>2. RequestOK(req[w])'
      BY <1>0, <1>8, <2>1 DEF rerun_persist, RequestOK, OfCase, Approved, Enveloped,
                              Applied, Reading, Points, Request, Eligible
    <2> QED
      BY <1>0, <2>1, <2>2, QuietWorkerStep
  <1>9. CASE seed_legacy_booking_record(w)
    <2>1. /\ UNCHANGED <<cases, approvals, envelopes, commits, bookings>>
          /\ Others /\ req'[w] = Idle
      BY <1>0, <1>9 DEF seed_legacy_booking_record
    <2>2. Grows /\ \A c \in CaseIds : CaseOK(c)'
      BY <2>1 DEF Grows, IInv, TypeOK, CaseOK, Eligible, TwoIdentities
    <2>3. ASSUME NEW t \in Trades PROVE LegacyOK(t)'
      <3>1. \/ legacy'[t] = legacy[t]
            \/ legacy'[t].last_applied_idempotency_key = NULL
        BY <1>9 DEF seed_legacy_booking_record, IInv, TypeOK
      <3> QED
        BY <2>1, <3>1 DEF IInv, LegacyOK
    <2>4. \A t \in Trades : bookings'[t] # <<>>
      BY <2>1 DEF IInv
    <2> QED
      BY <1>0, <2>1, <2>2, <2>3, <2>4, IdleOK, WorkerStep
  <1>10. CASE insert_approval(w)
    <2>1. /\ UNCHANGED <<legacy, cases, envelopes, commits, bookings>>
          /\ Others /\ req'[w] = Idle
      BY <1>0, <1>10 DEF insert_approval
    <2>2. Grows
      BY <1>0, <1>10, <2>1 DEF Grows, insert_approval, IInv, TypeOK
    <2>3. ASSUME NEW c \in CaseIds PROVE CaseOK(c)'
      <3>1. TwoIdentities(c) => TwoIdentities(c)'
        BY <1>0, <2>2, KeptRows
      <3> QED
        BY <2>1, <3>1 DEF IInv, CaseOK, Eligible
    <2>4. /\ \A t \in Trades : LegacyOK(t)'
          /\ \A t \in Trades : bookings'[t] # <<>>
      BY <2>1 DEF IInv, LegacyOK
    <2> QED
      BY <1>0, <2>1, <2>2, <2>3, <2>4, IdleOK, WorkerStep
  <1>11. CASE insert_envelope_if_absent(w)
    <2>0. PICK c \in CaseIds : c = req[w].case
      BY <1>0, <1>11 DEF insert_envelope_if_absent, RequestOK, OfCase, Points
    <2>1. PICK e : /\ e = IF envelopes[c] = NULL THEN build_envelope(c, req[w].approved)
                                                 ELSE envelopes[c]
                   /\ envelopes' = [envelopes EXCEPT ![c] = e]
                   /\ req' = [req EXCEPT ![w].pc = "verify", ![w].envelope = e]
      BY <1>11, <2>0 DEF insert_envelope_if_absent
    <2>2. UNCHANGED <<legacy, cases, approvals, commits, bookings>> /\ Others
      BY <1>0, <1>11 DEF insert_envelope_if_absent
    <2>3. /\ cases[c] # NULL /\ Eligible(c) /\ req[w].approved = approvals[c]
          /\ \A role \in Roles : approvals[c][role] # NULL
      BY <1>0, <1>11, <2>0 DEF insert_envelope_if_absent, RequestOK, OfCase, Approved, Points
    <2>4. e # NULL /\ envelopes'[c] = e
      <3>1. envelopes'[c] = e
        BY <2>1 DEF IInv, TypeOK
      <3>2. req'[w].envelope = e
        BY <1>0, <2>1 DEF Request
      <3>3. CASE envelopes[c] = NULL
        <4>1. cases[c].decision.approved_value \in Values
          BY <2>3 DEF IInv, TypeOK, CaseOK, Case
        <4>2. build_envelope(c, req[w].approved) \in ActionEnvelope
          BY <2>3, <4>1 DEF build_envelope, ActionEnvelope, Case, Roles, IInv, TypeOK
        <4> QED
          BY <2>1, <3>1, <3>3, <4>2, NullIsNoRow
      <3> QED
        BY <2>1, <3>1, <3>3
    <2>5. Grows
      BY <2>1, <2>2, <2>4 DEF Grows, IInv, TypeOK
    <2>6. RequestOK(req[w])'
      <3>1. req'[w] = [req[w] EXCEPT !.pc = "verify", !.envelope = e]
        BY <1>0, <2>1
      <3>2. /\ req'[w].pc = "verify" /\ req'[w].case = c
            /\ req'[w].approved = approvals[c] /\ req'[w].envelope = e
        BY <1>0, <2>0, <2>3, <3>1 DEF Request
      <3> QED
        BY <2>2, <2>3, <2>4, <3>2 DEF RequestOK, OfCase, Approved, Enveloped, Applied, Reading,
                                      Points, Eligible
    <2>7. ASSUME NEW d \in CaseIds PROVE CaseOK(d)'
      <3>1. CASE d = c /\ envelopes[c] = NULL
        <4>1. /\ e.trade_id = cases[c].trade_id
              /\ e.approved_value = cases[c].decision.approved_value
              /\ e.expected_old_value = cases[c].observed_value
          BY <2>1, <3>1 DEF build_envelope
        <4>2. CaseOK(c)
          BY DEF IInv
        <4> QED
          BY <2>2, <2>3, <2>4, <3>1, <4>1, <4>2 DEF CaseOK, Eligible, TwoIdentities
      <3>2. CASE d # c \/ envelopes[c] # NULL
        <4>1. envelopes'[d] = envelopes[d]
          BY <2>1, <2>4, <3>2 DEF IInv, TypeOK
        <4> QED
          BY <2>2, <4>1 DEF IInv, CaseOK, Eligible, TwoIdentities
      <3> QED
        BY <3>1, <3>2
    <2>8. /\ \A t \in Trades : LegacyOK(t)'
          /\ \A t \in Trades : bookings'[t] # <<>>
      BY <2>2 DEF IInv, LegacyOK
    <2> QED
      BY <1>0, <2>2, <2>5, <2>6, <2>7, <2>8, WorkerStep
  <1>12. CASE ingest_corrected_booking_observation(w)
    <2>1. PICK t \in Trades : t = req[w].envelope.trade_id
      BY <1>0, <1>12 DEF ingest_corrected_booking_observation, RequestOK, OfCase, Approved,
                         Enveloped, Points, Request, ActionEnvelope
    <2>2. UNCHANGED <<legacy, cases, approvals, envelopes, commits>> /\ Others
      BY <1>0, <1>12 DEF ingest_corrected_booking_observation
    <2>3. /\ Grows
          /\ \A c \in CaseIds : CaseOK(c)'
          /\ \A s \in Trades : LegacyOK(s)'
      BY <1>0, <2>2, QuietStep
    <2>4. CASE Len(bookings[t]) = req[w].latest
      <3>1. PICK b : bookings' = [bookings EXCEPT ![t] = Append(@, b)]
        BY <1>12, <2>1, <2>4 DEF ingest_corrected_booking_observation
      <3>2. ASSUME NEW s \in Trades PROVE bookings'[s] # <<>>
        <4>1. bookings'[s] = bookings[s] \/ bookings'[s] = Append(bookings[s], b)
          BY <3>1 DEF IInv, TypeOK
        <4>2. bookings[s] \in Seq(Booking) /\ bookings[s] # <<>>
          BY DEF IInv, TypeOK
        <4> QED
          BY <4>1, <4>2
      <3>3. /\ req[w].pc = "ingest" /\ req'[w].pc = "rerun_read"
            /\ req'[w].case = req[w].case /\ req'[w].approved = req[w].approved
            /\ req'[w].envelope = req[w].envelope
        BY <1>0, <1>12, <2>1, <2>4 DEF ingest_corrected_booking_observation, Request
      <3>4. RequestOK(req[w])'
        BY <1>0, <2>2, <3>3 DEF RequestOK, OfCase, Approved, Enveloped, Applied, Reading,
                                Points, Eligible
      <3> QED
        BY <1>0, <2>2, <2>3, <3>2, <3>4, WorkerStep
    <2>5. CASE Len(bookings[t]) # req[w].latest
      <3>1. bookings' = bookings /\ req'[w] = Idle
        BY <1>0, <1>12, <2>1, <2>5 DEF ingest_corrected_booking_observation
      <3> QED
        BY <1>0, <2>2, <3>1, IdleOK, QuietWorkerStep
    <2> QED
      BY <2>4, <2>5
  <1>13. CASE apply_legacy_booking_correction(w)
    <2> DEFINE r == req[w]
    <2>1. PICK c \in CaseIds, e \in ActionEnvelope, t \in Trades :
             c = r.case /\ e = r.envelope /\ t = e.trade_id
      BY <1>0, <1>13 DEF apply_legacy_booking_correction, RequestOK, OfCase, Approved,
                         Enveloped, Points, Request, ActionEnvelope
    <2>2. PICK o : o = ApplyOutcome(legacy[t], c, e)
      OBVIOUS
    <2>3. /\ UNCHANGED <<cases, approvals, envelopes, bookings>> /\ Others
          /\ r.pc = "apply" /\ req'[w].pc = "record" /\ req'[w].outcome = o
          /\ req'[w].case = c /\ req'[w].approved = r.approved /\ req'[w].envelope = e
      BY <1>0, <1>13, <2>1, <2>2 DEF apply_legacy_booking_correction, Request
    <2>4. /\ Eligible(c) /\ TwoIdentities(c) /\ cases[c] # NULL
          /\ e # NULL /\ e = envelopes[c] /\ r.approved = approvals[c]
          /\ \A role \in Roles : approvals[c][role] # NULL
          /\ e.trade_id = cases[c].trade_id
          /\ e.approved_value = cases[c].expected_value
      <3>1. CaseOK(c)
        BY DEF IInv
      <3> QED
        BY <1>0, <2>1, <2>3, <3>1 DEF RequestOK, OfCase, Approved, Enveloped, Points, CaseOK
    <2>5. \/ /\ o = "SUCCESS"
             /\ legacy'  = [legacy EXCEPT ![t] = Corrected(legacy[t], c, e)]
             /\ commits' = [commits EXCEPT ![c] = commits[c] + 1]
          \/ /\ o # "SUCCESS"
             /\ UNCHANGED <<legacy, commits>>
      BY <1>13, <2>1, <2>2 DEF apply_legacy_booking_correction
    <2>6. /\ commits \in [CaseIds -> Nat] /\ legacy \in [Trades -> LegacyRecord \cup {NULL}]
          /\ commits' \in [CaseIds -> Nat]
          /\ \A d \in CaseIds : commits'[d] >= commits[d]
          /\ o = "SUCCESS" => commits'[c] > 0
      <3>1. /\ commits \in [CaseIds -> Nat] /\ commits' \in [CaseIds -> Nat]
            /\ legacy \in [Trades -> LegacyRecord \cup {NULL}]
        BY <1>0 DEF IInv, TypeOK
      <3> QED
        BY <2>5, <3>1
    <2>7. Grows
      BY <2>3, <2>6 DEF Grows
    <2>8. RequestOK(req[w])'
      BY <2>3, <2>4, <2>6 DEF RequestOK, OfCase, Approved, Enveloped, Applied, Reading, Points,
                              Eligible
    <2>9. ASSUME NEW d \in CaseIds PROVE CaseOK(d)'
      <3>1. CASE d = c
        BY <2>3, <2>4, <3>1 DEF IInv, CaseOK, Eligible, TwoIdentities
      <3>2. CASE d # c
        <4>1. commits'[d] = commits[d]
          BY <2>5, <2>6, <3>2
        <4> QED
          BY <2>3, <4>1 DEF IInv, CaseOK, Eligible, TwoIdentities
      <3> QED
        BY <3>1, <3>2
    <2>10. ASSUME NEW s \in Trades PROVE LegacyOK(s)'
      <3>1. CASE o = "SUCCESS" /\ s = t
        <4>1. legacy'[s] = Corrected(legacy[t], c, e)
          BY <2>5, <2>6, <3>1
        <4>2. /\ legacy'[s].last_applied_idempotency_key = c
              /\ legacy'[s].base_amount_value = e.approved_value
          BY <4>1 DEF Corrected
        <4> QED
          BY <2>1, <2>3, <2>4, <2>6, <3>1, <4>2 DEF LegacyOK
      <3>2. CASE ~(o = "SUCCESS" /\ s = t)
        <4>1. legacy'[s] = legacy[s]
          BY <2>5, <2>6, <3>2
        <4>2. LegacyOK(s)
          BY DEF IInv
        <4>3. legacy[s] # NULL => legacy[s].last_applied_idempotency_key \in CaseIds \cup {NULL}
          BY <2>6 DEF LegacyRecord
        <4> QED
          BY <2>3, <2>6, <4>1, <4>2, <4>3 DEF LegacyOK
      <3> QED
        BY <3>1, <3>2
    <2>11. \A s \in Trades : bookings'[s] # <<>>
      BY <2>3 DEF IInv
    <2> QED
      BY <1>0, <2>3, <2>7, <2>8, <2>9, <2>10, <2>11, WorkerStep
  <1> QED
    BY <1>1, <1>2, <1>3, <1>4, <1>5, <1>6, <1>7, <1>8, <1>9, <1>10, <1>11, <1>12, <1>13, Zenon
       DEF Proceed

-----------------------------------------------------------------------------
(***************************************************************************)
(* The theorems.                                                           *)
(***************************************************************************)
\* The invariant is inductive.
LEMMA StepInv == IInv /\ [Next]_vars => IInv'
  <1> SUFFICES ASSUME IInv, [Next]_vars PROVE IInv'
    OBVIOUS
  <1>1. CASE World
    BY <1>1, WorldInv
  <1>2. ASSUME NEW w \in Workers, Call(w) \/ Proceed(w) PROVE IInv'
    BY <1>2, CallInv, ProceedInv
  <1>3. CASE UNCHANGED vars
    <2>1. UNCHANGED <<execution, bookings, canonical, breaks, legacy, cases, approvals,
                      envelopes, executions, evidence, expired, secret, req, crashes,
                      commits>>
      BY <1>3 DEF vars, sources, store, clock
    <2>2. TypeOK'
      BY <2>1 DEF IInv, TypeOK
    <2>3. /\ Grows
          /\ \A c \in CaseIds : CaseOK(c)'
          /\ \A t \in Trades : LegacyOK(t)'
      BY <2>1, <2>2, QuietStep
    <2>4. \A u \in Workers : RequestOK(req[u])'
      BY <2>1, <2>2, <2>3, OthersOK
    <2>5. \A t \in Trades : bookings'[t] # <<>>
      BY <2>1 DEF IInv
    <2> QED
      BY <2>2, <2>3, <2>4, <2>5 DEF IInv
  <1> QED
    BY <1>1, <1>2, <1>3 DEF Next

\* The rows of a case, the legacy record and the locals of every request stay
\* consistent with each other: the inductive invariant behind what follows.
THEOREM Consistency == Spec => []IInv
  BY InitInv, StepInv, PTL DEF Spec

\* Every row a handler writes and every local it keeps has the shape that the
\* tables and the Pydantic models declare.
THEOREM TypeCorrect == Spec => []TypeOK
  <1>1. IInv => TypeOK
    BY DEF IInv
  <1> QED
    BY <1>1, Consistency, PTL

\* No interleaving of submissions, executions, expiries, restarts and dying
\* requests gets a correction past the four-eyes rule.
THEOREM FourEyesHolds == Spec => []FourEyes
  <1>1. IInv => FourEyes
    BY DEF IInv, CaseOK, FourEyes
  <1> QED
    BY <1>1, Consistency, PTL

\* The AI's number reaches an envelope or the legacy record only when it is the
\* value the reconciliation engine computed for that trade.
THEOREM ApprovedValueHolds == Spec => []ApprovedValueOnly
  <1>1. IInv => ApprovedValueOnly
    BY DEF IInv, CaseOK, LegacyOK, ApprovedValueOnly
  <1> QED
    BY <1>1, Consistency, PTL

\* Under the invariant only an approved correction changes a legacy record.
LEMMA WriteStep == IInv /\ [Next]_vars => [ApprovedWrite]_vars
  <1> SUFFICES ASSUME IInv, Next PROVE ApprovedWrite
    OBVIOUS
  <1> USE DEF sources, store, clock
  <1>1. CASE UNCHANGED legacy
    BY <1>1 DEF ApprovedWrite
  <1>2. ASSUME NEW w \in Workers, seed_legacy_booking_record(w) PROVE ApprovedWrite
    BY <1>2 DEF ApprovedWrite, seed_legacy_booking_record, IInv, TypeOK
  <1>3. ASSUME NEW w \in Workers, apply_legacy_booking_correction(w) PROVE ApprovedWrite
    <2>1. PICK r \in Request : r = req[w] /\ RequestOK(r) /\ r.pc = "apply"
      BY <1>3 DEF apply_legacy_booking_correction, IInv, TypeOK
    <2>2. PICK c \in CaseIds, e \in ActionEnvelope, t \in Trades :
             c = r.case /\ e = r.envelope /\ t = e.trade_id
      BY <2>1 DEF RequestOK, OfCase, Approved, Enveloped, Points, Request, ActionEnvelope
    <2>3. /\ Eligible(c) /\ TwoIdentities(c)
          /\ e.trade_id = cases[c].trade_id
          /\ e.approved_value = cases[c].expected_value
          /\ e.expected_old_value = cases[c].observed_value
      <3>1. CaseOK(c)
        BY DEF IInv
      <3>2. e # NULL /\ e = envelopes[c] /\ Eligible(c) /\ TwoIdentities(c)
        BY <2>1, <2>2 DEF RequestOK, OfCase, Approved, Enveloped, Points
      <3> QED
        BY <3>1, <3>2 DEF CaseOK
    <2>4. \/ /\ ApplyOutcome(legacy[t], c, e) = "SUCCESS"
             /\ legacy' = [legacy EXCEPT ![t] = Corrected(legacy[t], c, e)]
          \/ UNCHANGED legacy
      BY <1>3, <2>1, <2>2 DEF apply_legacy_booking_correction
    <2>5. CASE UNCHANGED legacy
      BY <2>5 DEF ApprovedWrite
    <2>6. CASE /\ ApplyOutcome(legacy[t], c, e) = "SUCCESS"
               /\ legacy' = [legacy EXCEPT ![t] = Corrected(legacy[t], c, e)]
      <3>1. legacy[t].base_amount_value = e.expected_old_value
        BY <2>6 DEF ApplyOutcome
      <3>2. /\ legacy'[t] = Corrected(legacy[t], c, e)
            /\ \A s \in Trades : s # t => legacy'[s] = legacy[s]
        BY <2>6 DEF IInv, TypeOK
      <3>3. legacy'[t] = [ base_amount_value |-> cases[c].expected_value,
                           booking_version |-> legacy[t].booking_version + 1,
                           last_applied_idempotency_key |-> c ]
        BY <2>3, <3>2 DEF Corrected
      <3> QED
        BY <2>2, <2>3, <3>1, <3>2, <3>3 DEF ApprovedWrite
    <2> QED
      BY <2>4, <2>5, <2>6
  <1> QED
    <2>1. World => UNCHANGED legacy
      BY DEF World, DeliverExecution, DeliverBooking, ExpireEnvelope, Restart, Crash
    <2>2. ASSUME NEW w \in Workers, Call(w) PROVE UNCHANGED legacy
      BY <2>2 DEF Call, run_reconciliation, generate_case, submit_approval, remediation_execute
    <2>3. ASSUME NEW w \in Workers, Proceed(w)
          PROVE  \/ UNCHANGED legacy
                 \/ seed_legacy_booking_record(w)
                 \/ apply_legacy_booking_correction(w)
      BY <2>3 DEF Proceed, persist_canonical_states, persist_canonical_violation, persist_run,
                  insert_approval, insert_envelope_if_absent, verify_envelope,
                  insert_execution, read_latest_booking, ingest_corrected_booking_observation,
                  rerun_read, rerun_version, rerun_persist, rerun_persist_violation,
                  finalize_evidence
    <2> QED
      BY <1>1, <1>2, <1>3, <2>1, <2>2, <2>3 DEF Next

\* No handler but an approved execution ever changes a legacy booking record,
\* and it does so only over the value the approvers saw.
THEOREM WritesAreApproved == Spec => EveryWriteIsApproved
  BY Consistency, WriteStep, PTL DEF Spec, EveryWriteIsApproved

=============================================================================
